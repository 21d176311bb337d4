-------------------------- MODULE RateLimiter_proofs --------------------------
(***************************************************************************)
(* Theorems about the rate limiter, for any connections, intervals, grace  *)
(* periods and numbers of evictions.                                       *)
(***************************************************************************)
EXTENDS RateLimiter, FiniteSetTheorems, TLAPS

\* A message of s has been accepted, and its call not yet been charged.
Pending(s) == call[s] \in {"first", "second"}

\* The connection is told nothing more, and accepts nothing more.
Gone(s) == conn[s] \in {"closing", "closed"}

\* Flags, waits and calls.
FlagsFit == \A s \in Sessions :
    /\ call[s] # "none" => inCooldown[s]
    /\ conn[s] = "new" => call[s] = "none"
    /\ call[s] \in {"none", "first", "second"} => wait[s] = 0

\* Seconds that the messages of some connections take up.
Weight(S) == Interval * Cardinality(S)

\* What the evictions let through.
Forgiven == evictions * (Grace + Weight(Sessions))

\* Those whose message may be in the level and not in the debt.
Uncharged == {s \in Sessions : Pending(s) \/ Gone(s)}

\* Those whose message may be newer than what s was told.
Ahead(s) == {t \in Sessions \ {s} : t \in Uncharged \/ wait[t] > wait[s]}

\* What has been let through: the debt covers it but for the messages that are not
\* charged yet, what a free connection was told covers it but for newer messages of
\* the others, and the bucket for each life of the limiter covers it in any case.
LevelFits ==
    /\ level <= debt + Weight(Uncharged) + Forgiven
    /\ \A s \in Sessions \ Uncharged :
         level <= Grace + wait[s] + Weight(Ahead(s)) + Forgiven
    /\ level <= Grace + Weight(Sessions) + Forgiven

\* Those of S that have had their message charged, and had it charged twice, when
\* the calls have come as far as step says.
Once(step, S)  == {s \in S : step[s] # "first"}
Twice(step, S) == {s \in S : step[s] \notin {"first", "served", "second"}}

Charges(step, S) == Weight(Once(step, S)) + Weight(Twice(step, S))

\* No charge of t is taken back.
ChargesStay(t) ==
    /\ call[t] # "first" => call'[t] # "first"
    /\ call[t] \notin {"first", "served", "second"} =>
         call'[t] \notin {"first", "served", "second"}

Busy == {s \in Sessions : call[s] # "none" \/ Gone(s)}

\* The debt is the grace period and the calls under way, charged once or twice; what
\* a free connection was told covers it but for newer messages of the others.
DebtFits ==
    /\ debt <= Grace + Charges(call, Busy)
    /\ \A s \in Sessions \ Uncharged : debt <= Grace + wait[s] + Charges(call, Ahead(s))
    /\ \A s \in Sessions : wait[s] <= 2 * Weight(Sessions)

-----------------------------------------------------------------------------
(* Types and flags. *)

LEMMA AtLeastZeroFits ==
    ASSUME NEW n \in Int
    PROVE  /\ AtLeastZero(n) \in Nat /\ AtLeastZero(n) >= n
           /\ n >= 0 => AtLeastZero(n) = n
           /\ n <= 0 => AtLeastZero(n) = 0
BY DEF AtLeastZero

LEMMA TypeInit == ASSUME Init PROVE TypeOK /\ FlagsFit
<1>1. TypeOK
  <2>1. inCooldown \in [Sessions -> BOOLEAN]
    BY DEF Init
  <2> QED BY <2>1, EvictionAssumption DEF Init, TypeOK, Steps
<1>2. FlagsFit
  BY DEF Init, FlagsFit
<1> QED BY <1>1, <1>2

\* What the limiter answers is no negative number of seconds, and no less than
\* what is charged beyond the grace period.
LEMMA CooldownFits ==
    ASSUME NEW n \in Nat
    PROVE  Cooldown(n) \in Nat /\ n <= Grace + Cooldown(n)
<1>1. n - Grace \in Int
  BY GraceAssumption
<1> QED BY <1>1, GraceAssumption, AtLeastZeroFits DEF Cooldown

\* Every step keeps the types.
LEMMA TypeStep == ASSUME TypeOK, [Next]_vars PROVE TypeOK'
<1> USE DEF TypeOK
<1>1. ASSUME NEW s \in Sessions, Open(s) PROVE TypeOK'
  BY <1>1 DEF Open
<1>2. ASSUME NEW s \in Sessions, CheckLimit(s) PROVE TypeOK'
  <2>1. inCooldown' \in [Sessions -> BOOLEAN]
    BY <1>2 DEF CheckLimit
  <2>2. call' \in [Sessions -> Steps] /\ level' \in Nat
    BY <1>2, IntervalAssumption DEF CheckLimit, Steps
  <2> QED BY <1>2, <2>1, <2>2 DEF CheckLimit
<1>3. ASSUME NEW s \in Sessions, Serve(s) PROVE TypeOK'
  <2>1. debt + Interval \in Nat /\ Cooldown(debt + Interval) \in Nat
    BY IntervalAssumption, CooldownFits
  <2>2. call' \in [Sessions -> Steps]
    BY <1>3 DEF Serve, Steps
  <2>3. wait' \in [Sessions -> Nat] /\ debt' \in Nat
    BY <1>3, <2>1 DEF Serve
  <2> QED BY <1>3, <2>2, <2>3 DEF Serve
<1>4. ASSUME NEW s \in Sessions, Retry(s) PROVE TypeOK'
  <2>1. call' \in [Sessions -> Steps] /\ wait' \in [Sessions -> Nat]
    BY <1>4 DEF Retry, Steps
  <2> QED BY <1>4, <2>1 DEF Retry
<1>5. ASSUME NEW s \in Sessions, ReportError(s) PROVE TypeOK'
  <2>1. call' \in [Sessions -> Steps] /\ wait' \in [Sessions -> Nat]
    BY <1>5 DEF ReportError, Steps
  <2>2. conn' \in [Sessions -> {"new", "open", "closing", "closed"}]
    BY <1>5 DEF ReportError
  <2> QED BY <1>5, <2>1, <2>2 DEF ReportError
<1>6. ASSUME NEW s \in Sessions, Answer(s) PROVE TypeOK'
  <2>1. call' \in [Sessions -> Steps]
    BY <1>6 DEF Answer, Steps
  <2> QED BY <1>6, <2>1 DEF Answer
<1>7. ASSUME NEW s \in Sessions, TimerFires(s) PROVE TypeOK'
  <2>1. call' \in [Sessions -> Steps]
    BY <1>7 DEF TimerFires, Steps
  <2>2. inCooldown' \in [Sessions -> BOOLEAN]
    BY <1>7 DEF TimerFires
  <2> QED BY <1>7, <2>1, <2>2 DEF TimerFires
<1>8. ASSUME NEW s \in Sessions, CloseEvent(s) PROVE TypeOK'
  BY <1>8 DEF CloseEvent
<1>9. ASSUME Tick PROVE TypeOK'
  <2>1. \A n \in Nat : AtLeastZero(n - 1) \in Nat
    BY AtLeastZeroFits
  <2>2. debt' \in Nat /\ level' \in Nat
    BY <1>9, <2>1 DEF Tick
  <2>3. wait' \in [Sessions -> Nat]
    BY <1>9, <2>1 DEF Tick
  <2> QED BY <1>9, <2>2, <2>3 DEF Tick
<1>10. ASSUME Evict PROVE TypeOK'
  BY <1>10, EvictionAssumption DEF Evict
<1>11. ASSUME Hibernate PROVE TypeOK'
  <2>1. inCooldown' \in [Sessions -> BOOLEAN]
    BY <1>11 DEF Hibernate
  <2> QED BY <1>11, <2>1 DEF Hibernate
<1>12. CASE UNCHANGED vars
  BY <1>12 DEF vars
<1> QED BY <1>1, <1>2, <1>3, <1>4, <1>5, <1>6, <1>7, <1>8, <1>9, <1>10, <1>11,
           <1>12 DEF Next

\* A call keeps the flag set; a connection that is not open calls nobody.
LEMMA FlagsFitStep == ASSUME TypeOK, FlagsFit, [Next]_vars PROVE FlagsFit'
<1>1. ASSUME NEW s \in Sessions,
             \/ Open(s) \/ CheckLimit(s) \/ Serve(s) \/ Answer(s) \/ Retry(s)
             \/ ReportError(s) \/ TimerFires(s) \/ CloseEvent(s),
             NEW t \in Sessions
      PROVE  /\ call'[t] # "none" => inCooldown'[t]
             /\ conn'[t] = "new" => call'[t] = "none"
             /\ call'[t] \in {"none", "first", "second"} => wait'[t] = 0
  <2>1. /\ call[t] # "none" => inCooldown[t]
        /\ conn[t] = "new" => call[t] = "none"
        /\ call[t] \in {"none", "first", "second"} => wait[t] = 0
        /\ conn[s] = "new" => call[s] = "none"
    BY DEF FlagsFit
  <2>2. CASE Open(s)
    BY <2>1, <2>2 DEF Open, TypeOK
  <2>3. CASE CheckLimit(s)
    BY <2>1, <2>3 DEF CheckLimit, TypeOK
  <2>4. CASE Serve(s)
    BY <2>1, <2>4 DEF Serve, TypeOK
  <2>5. CASE Answer(s)
    BY <2>1, <2>5 DEF Answer, TypeOK
  <2>6. CASE Retry(s)
    BY <2>1, <2>6 DEF Retry, TypeOK
  <2>7. CASE ReportError(s)
    BY <2>1, <2>7 DEF ReportError, TypeOK
  <2>8. CASE TimerFires(s)
    BY <2>1, <2>8 DEF TimerFires, TypeOK
  <2>9. CASE CloseEvent(s)
    BY <2>1, <2>9 DEF CloseEvent, TypeOK
  <2> QED BY <1>1, <2>2, <2>3, <2>4, <2>5, <2>6, <2>7, <2>8, <2>9
<1>2. CASE Tick
  <2>1. \A s \in Sessions : wait[s] = 0 => wait'[s] = 0
    BY <1>2, AtLeastZeroFits DEF Tick, TypeOK
  <2> QED BY <1>2, <2>1 DEF Tick, FlagsFit
<1>3. CASE Evict
  BY <1>3 DEF Evict, FlagsFit
<1>4. CASE Hibernate
  BY <1>4 DEF Hibernate, FlagsFit, TypeOK
<1>5. CASE UNCHANGED vars
  BY <1>5 DEF vars, FlagsFit
<1> QED BY <1>1, <1>2, <1>3, <1>4, <1>5 DEF Next, FlagsFit

\* Whatever the connections, the times and the evictions, every variable of
\* RateLimiter.ts keeps its type: no cooldown answered or waited for is
\* negative.
THEOREM TypeCorrect == Spec => []TypeOK
<1>1. TypeOK /\ [Next]_vars => TypeOK'
  BY TypeStep
<1> QED BY TypeInit, <1>1, PTL DEF Spec

-----------------------------------------------------------------------------
(* What is let through. *)

LEMMA WeightFits ==
    ASSUME NEW S, NEW T, S \subseteq T, T \subseteq Sessions
    PROVE  /\ Weight(S) \in Nat /\ Weight(T) \in Nat
           /\ Weight(S) <= Weight(T)
           /\ \A x \in T \ S : Weight(S) + Interval <= Weight(T)
<1>1. IsFiniteSet(T) /\ Cardinality(T) \in Nat
  BY SessionsAssumption, FS_Subset, FS_CardinalityType
<1>2. IsFiniteSet(S) /\ Cardinality(S) \in Nat /\ Cardinality(S) <= Cardinality(T)
  BY <1>1, FS_Subset, FS_CardinalityType
<1>3. \A m, n \in Nat : Interval * m \in Nat /\ (m <= n => Interval * m <= Interval * n)
  BY IntervalAssumption
<1>4. Weight(S) \in Nat /\ Weight(T) \in Nat /\ Weight(S) <= Weight(T)
  BY <1>1, <1>2, <1>3 DEF Weight
<1>5. ASSUME NEW x \in T \ S
      PROVE  Weight(S) + Interval <= Weight(T)
  <2>1. S \cup {x} \subseteq T
    BY <1>5
  <2>2. /\ Cardinality(S \cup {x}) = Cardinality(S) + 1
        /\ Cardinality(S \cup {x}) <= Cardinality(T)
    BY <1>1, <1>2, <2>1, FS_AddElement, FS_Subset
  <2>3. Interval * (Cardinality(S) + 1) = Interval * Cardinality(S) + Interval
    BY <1>2, IntervalAssumption
  <2>4. Cardinality(S) + 1 \in Nat /\ Cardinality(S) + 1 <= Cardinality(T)
    BY <1>1, <1>2, <2>2
  <2> QED BY <1>1, <1>3, <2>3, <2>4 DEF Weight
<1> QED BY <1>4, <1>5

LEMMA ForgivenFits ==
    ASSUME TypeOK
    PROVE  Forgiven \in Nat
<1>1. Weight(Sessions) \in Nat
  BY WeightFits
<1> QED BY <1>1, GraceAssumption DEF Forgiven, TypeOK

LEMMA LevelInit == ASSUME Init, TypeOK PROVE LevelFits
<1>1. level = 0 /\ debt = 0 /\ Forgiven \in Nat
  BY ForgivenFits DEF Init
<1>2. \A S \in SUBSET Sessions : Weight(S) \in Nat
  BY WeightFits
<1>3. Uncharged \subseteq Sessions /\ \A s \in Sessions : Ahead(s) \subseteq Sessions
  BY DEF Uncharged, Ahead
<1> QED BY <1>1, <1>2, <1>3, GraceAssumption DEF LevelFits, TypeOK

\* A step that accepts no message and charges none keeps the bounds, if those
\* it tells something new are not to be believed any more.
LEMMA QuietLevel ==
    ASSUME TypeOK, LevelFits, UNCHANGED <<debt, evictions, level>>,
           \A t \in Sessions : \/ t \in Uncharged'
                               \/ t \notin Uncharged /\ wait'[t] = wait[t]
    PROVE  LevelFits'
<1>1. Forgiven \in Nat /\ Forgiven' = Forgiven
  BY ForgivenFits DEF Forgiven
<1>2. Uncharged \subseteq Uncharged' /\ Uncharged' \subseteq Sessions
  BY DEF Uncharged
<1>3. ASSUME NEW s \in Sessions \ Uncharged'
      PROVE  /\ s \notin Uncharged /\ wait'[s] = wait[s]
             /\ Ahead(s) \subseteq Ahead(s)' /\ Ahead(s)' \subseteq Sessions
  BY <1>3 DEF Ahead
<1>4. Weight(Uncharged) <= Weight(Uncharged') /\ Weight(Uncharged) \in Nat
      /\ Weight(Uncharged') \in Nat
  BY <1>2, WeightFits
<1>5. level' <= debt' + Weight(Uncharged') + Forgiven'
  BY <1>1, <1>4 DEF LevelFits, TypeOK
<1>6. ASSUME NEW s \in Sessions \ Uncharged'
      PROVE  level' <= Grace + wait'[s] + Weight(Ahead(s)') + Forgiven'
  <2>1. level <= Grace + wait[s] + Weight(Ahead(s)) + Forgiven
    BY <1>3, <1>6 DEF LevelFits
  <2>2. /\ Weight(Ahead(s)) <= Weight(Ahead(s)') /\ Weight(Ahead(s)) \in Nat
        /\ Weight(Ahead(s)') \in Nat
    BY <1>3, <1>6, WeightFits
  <2> QED BY <1>1, <1>3, <1>6, <2>1, <2>2, GraceAssumption DEF TypeOK
<1>7. level' <= Grace + Weight(Sessions) + Forgiven'
  BY <1>1 DEF LevelFits
<1> QED BY <1>5, <1>6, <1>7 DEF LevelFits

\* A message is accepted: its connection joins those that the limiter has yet
\* to charge, and whoever of the others was told something was told it before.
LEMMA CheckLimitLevel ==
    ASSUME TypeOK, FlagsFit, LevelFits, NEW s \in Sessions, CheckLimit(s)
    PROVE  /\ level + Interval <= (evictions + 1) * (Grace + Weight(Sessions))
           /\ LevelFits'
<1>1. Forgiven \in Nat /\ Forgiven' = Forgiven
  BY ForgivenFits DEF Forgiven, CheckLimit
<1>2. /\ level' = level + Interval /\ UNCHANGED <<debt, evictions, wait, conn>>
      /\ call[s] = "none" /\ wait[s] = 0
    BY DEF CheckLimit, FlagsFit
<1>3. /\ s \notin Uncharged /\ s \in Uncharged'
      /\ Uncharged \subseteq Uncharged' /\ Uncharged' \subseteq Sessions
  BY <1>2 DEF CheckLimit, Uncharged, Pending, Gone, TypeOK
<1>4. ASSUME NEW t \in Sessions \ Uncharged'
      PROVE  /\ t \notin Uncharged /\ wait[t] \in Nat
             /\ s \notin Ahead(t) /\ s \in Ahead(t)'
             /\ Ahead(t) \subseteq Ahead(t)' /\ Ahead(t)' \subseteq Sessions
  <2>1. t \notin Uncharged /\ wait[t] \in Nat /\ t # s
    BY <1>3, <1>4 DEF TypeOK
  <2>2. s \notin Ahead(t) /\ s \in Ahead(t)'
    BY <1>2, <1>3, <2>1 DEF Ahead
  <2>3. Ahead(t) \subseteq Ahead(t)' /\ Ahead(t)' \subseteq Sessions
    BY <1>2, <1>3 DEF Ahead
  <2> QED BY <2>1, <2>2, <2>3
<1>5. level + Interval <= Grace + Weight(Sessions) + Forgiven
  <2>1. level <= Grace + wait[s] + Weight(Ahead(s)) + Forgiven
    BY <1>3 DEF LevelFits
  <2>2. Ahead(s) \subseteq Sessions /\ s \in Sessions \ Ahead(s)
    BY DEF Ahead
  <2>3. /\ Weight(Ahead(s)) + Interval <= Weight(Sessions)
        /\ Weight(Ahead(s)) \in Nat /\ Weight(Sessions) \in Nat
    BY <2>2, WeightFits
  <2> QED BY <1>1, <1>2, <2>1, <2>3, GraceAssumption, IntervalAssumption DEF TypeOK
<1>6. level' <= debt' + Weight(Uncharged') + Forgiven'
  <2>1. /\ Weight(Uncharged) + Interval <= Weight(Uncharged')
        /\ Weight(Uncharged) \in Nat /\ Weight(Uncharged') \in Nat
    BY <1>3, WeightFits
  <2> QED BY <1>1, <1>2, <2>1, IntervalAssumption DEF LevelFits, TypeOK
<1>7. ASSUME NEW t \in Sessions \ Uncharged'
      PROVE  level' <= Grace + wait'[t] + Weight(Ahead(t)') + Forgiven'
  <2>1. level <= Grace + wait[t] + Weight(Ahead(t)) + Forgiven
    BY <1>4, <1>7 DEF LevelFits
  <2>2. /\ Weight(Ahead(t)) + Interval <= Weight(Ahead(t)')
        /\ Weight(Ahead(t)) \in Nat /\ Weight(Ahead(t)') \in Nat
    BY <1>4, <1>7, WeightFits
  <2> QED BY <1>1, <1>2, <1>4, <1>7, <2>1, <2>2, GraceAssumption, IntervalAssumption
          DEF TypeOK
<1>8. (evictions + 1) * (Grace + Weight(Sessions)) = Grace + Weight(Sessions) + Forgiven
  <2>1. Grace + Weight(Sessions) \in Nat /\ evictions \in Nat
    BY WeightFits, GraceAssumption DEF TypeOK
  <2>2. \A n, c \in Nat : (n + 1) * c = c + n * c
    OBVIOUS
  <2> QED BY <2>1, <2>2, <1>1 DEF Forgiven
<1>9. LevelFits'
  BY <1>1, <1>2, <1>5, <1>6, <1>7 DEF LevelFits
<1> QED BY <1>5, <1>8, <1>9

\* The limiter charges a message: whoever was told more than its connection is
\* now had been told less than the limiter knows.
LEMMA ServeLevel ==
    ASSUME TypeOK, LevelFits, NEW s \in Sessions, Serve(s)
    PROVE  LevelFits'
<1>1. Forgiven \in Nat /\ Forgiven' = Forgiven
  BY ForgivenFits DEF Forgiven, Serve
<1>2. /\ debt' = debt + Interval /\ debt' \in Nat /\ level' = level
      /\ wait'[s] \in Nat /\ debt' <= Grace + wait'[s]
      /\ \A t \in Sessions \ {s} : wait'[t] = wait[t]
  <2>1. debt + Interval \in Nat
    BY IntervalAssumption DEF TypeOK
  <2>2. wait'[s] = Cooldown(debt + Interval)
    BY DEF Serve, TypeOK
  <2> QED BY <2>1, <2>2, CooldownFits DEF Serve, TypeOK
<1>3. /\ s \in Uncharged /\ Uncharged \ {s} \subseteq Uncharged'
      /\ Uncharged' \subseteq Uncharged /\ Uncharged \subseteq Sessions
  BY DEF Serve, Uncharged, Pending, Gone, TypeOK
<1>4. /\ Weight(Uncharged \ {s}) + Interval <= Weight(Uncharged)
      /\ Weight(Uncharged \ {s}) \in Nat /\ Weight(Uncharged) \in Nat
  <2>1. Uncharged \ {s} \subseteq Uncharged /\ s \in Uncharged \ (Uncharged \ {s})
    BY <1>3
  <2> QED BY <1>3, <2>1, WeightFits
<1>5. Weight(Uncharged) <= Weight(Uncharged \ {s}) + Interval
  <2>1. IsFiniteSet(Uncharged)
    BY <1>3, SessionsAssumption, FS_Subset
  <2>2. /\ Cardinality(Uncharged \ {s}) = Cardinality(Uncharged) - 1
        /\ Cardinality(Uncharged) \in Nat
    BY <1>3, <2>1, FS_RemoveElement, FS_CardinalityType
  <2>3. \A n \in Nat : Interval * n <= Interval * (n - 1) + Interval
    BY IntervalAssumption
  <2> QED BY <2>2, <2>3 DEF Weight
<1>6. level' <= debt' + Weight(Uncharged \ {s}) + Forgiven'
  <2>1. level <= debt + Weight(Uncharged) + Forgiven
    BY DEF LevelFits
  <2> QED BY <1>1, <1>2, <1>4, <1>5, <2>1, IntervalAssumption DEF TypeOK
<1>7. level' <= debt' + Weight(Uncharged') + Forgiven'
  <2>1. Uncharged' \subseteq Sessions
    BY <1>3
  <2>2. /\ Weight(Uncharged \ {s}) <= Weight(Uncharged')
        /\ Weight(Uncharged') \in Nat
    BY <1>3, <2>1, WeightFits
  <2> QED BY <1>1, <1>2, <1>4, <1>6, <2>2 DEF TypeOK
<1>8. ASSUME NEW t \in Sessions \ Uncharged', Uncharged \ {s} \subseteq Ahead(t)',
             wait'[s] <= wait'[t], wait'[t] \in Nat
      PROVE  level' <= Grace + wait'[t] + Weight(Ahead(t)') + Forgiven'
  <2>1. Ahead(t)' \subseteq Sessions
    BY DEF Ahead
  <2>2. /\ Weight(Uncharged \ {s}) <= Weight(Ahead(t)')
        /\ Weight(Ahead(t)') \in Nat
    BY <1>8, <2>1, WeightFits
  <2> QED BY <1>1, <1>2, <1>4, <1>6, <1>8, <2>2, GraceAssumption DEF TypeOK
<1>9. ASSUME NEW t \in Sessions \ Uncharged'
      PROVE  level' <= Grace + wait'[t] + Weight(Ahead(t)') + Forgiven'
  <2>1. CASE t = s
    <3>1. Uncharged \ {s} \subseteq Ahead(t)'
      BY <1>3, <2>1 DEF Ahead
    <3> QED BY <1>2, <1>8, <1>9, <2>1, <3>1
  <2>2. CASE t # s
    <3>1. t \notin Uncharged /\ wait'[t] = wait[t] /\ wait[t] \in Nat
      BY <1>2, <1>3, <1>9, <2>2 DEF TypeOK
    <3>2. Ahead(t) \ {s} \subseteq Ahead(t)' /\ Ahead(t)' \subseteq Sessions
      BY <1>2, <1>3, <3>1 DEF Ahead
    <3>3. CASE s \in Ahead(t)'
      <4>1. level <= Grace + wait[t] + Weight(Ahead(t)) + Forgiven
        BY <1>9, <3>1 DEF LevelFits
      <4>2. Ahead(t) \subseteq Ahead(t)'
        BY <3>2, <3>3
      <4>3. /\ Weight(Ahead(t)) <= Weight(Ahead(t)') /\ Weight(Ahead(t)) \in Nat
            /\ Weight(Ahead(t)') \in Nat
        BY <3>2, <4>2, WeightFits
      <4> QED BY <1>1, <1>2, <3>1, <4>1, <4>3, GraceAssumption DEF TypeOK
    <3>4. CASE s \notin Ahead(t)'
      <4>1. wait'[s] <= wait'[t]
        BY <1>2, <2>2, <3>1, <3>4 DEF Ahead
      <4>2. Uncharged \ {s} \subseteq Ahead(t)'
        BY <1>3, <3>1 DEF Ahead
      <4> QED BY <1>8, <1>9, <3>1, <4>1, <4>2
    <3> QED BY <3>3, <3>4
  <2> QED BY <2>1, <2>2
<1>10. level' <= Grace + Weight(Sessions) + Forgiven'
  BY <1>1, <1>2 DEF LevelFits
<1> QED BY <1>7, <1>9, <1>10 DEF LevelFits

\* What a second does to the numbers.
LEMMA TickFits ==
    ASSUME TypeOK, Tick
    PROVE  /\ level' \in Nat /\ (level' = 0 \/ level' = level - 1)
           /\ debt' \in Nat /\ debt' >= debt - 1 /\ (debt' = 0 \/ debt' = debt - 1)
           /\ \A t \in Sessions : /\ wait'[t] \in Nat
                                  /\ wait'[t] <= wait[t] /\ wait'[t] >= wait[t] - 1
           /\ UNCHANGED <<call, conn, evictions>>
<1>1. \A n \in Nat : /\ AtLeastZero(n - 1) \in Nat
                     /\ AtLeastZero(n - 1) >= n - 1 /\ AtLeastZero(n - 1) <= n
                     /\ AtLeastZero(n - 1) = 0 \/ AtLeastZero(n - 1) = n - 1
  BY DEF AtLeastZero
<1>2. ASSUME NEW t \in Sessions
      PROVE  wait'[t] \in Nat /\ wait'[t] <= wait[t] /\ wait'[t] >= wait[t] - 1
  BY <1>1 DEF Tick, TypeOK
<1> QED BY <1>1, <1>2 DEF Tick, TypeOK

\* A second passes: those ahead of s stay so, or s has waited as long as one of
\* them, who was told that much.
LEMMA TickAhead ==
    ASSUME TypeOK, Tick, NEW s \in Sessions \ Uncharged'
    PROVE  /\ s \notin Uncharged
           /\ \/ Ahead(s) \subseteq Ahead(s)'
              \/ \E t \in Sessions \ Uncharged : /\ Ahead(t) \subseteq Ahead(s)'
                                                 /\ wait[t] = wait'[s] + 1
<1>1. /\ \A t \in Sessions : /\ wait'[t] \in Nat /\ wait[t] \in Nat
                             /\ wait'[t] <= wait[t] /\ wait'[t] >= wait[t] - 1
      /\ UNCHANGED <<call, conn>>
  BY TickFits DEF TypeOK
<1>2. Uncharged' = Uncharged
  BY <1>1 DEF Uncharged, Pending, Gone
<1>3. s \notin Uncharged
  BY <1>2
<1>4. CASE \E t \in Ahead(s) : t \notin Ahead(s)'
  <2>1. PICK t \in Ahead(s) : t \notin Ahead(s)'
    BY <1>4
  <2>2. /\ t \in Sessions \ Uncharged /\ t # s
        /\ wait[t] > wait[s] /\ ~(wait'[t] > wait'[s])
    BY <1>2, <2>1 DEF Ahead
  <2>3. wait[t] = wait'[s] + 1 /\ wait'[s] = wait[s]
    BY <1>1, <2>2
  <2>4. ASSUME NEW u \in Ahead(t)
        PROVE  u \in Ahead(s)'
    <3>1. u \in Sessions \ {t} /\ (u \in Uncharged \/ wait[u] > wait[t])
      BY <2>4 DEF Ahead
    <3>2. u # s
      BY <1>1, <1>3, <2>2, <3>1
    <3>3. CASE u \in Uncharged
      BY <1>2, <3>1, <3>2, <3>3 DEF Ahead
    <3>4. CASE wait[u] > wait[t]
      <4>1. wait'[u] > wait'[s]
        BY <1>1, <2>2, <2>3, <3>1, <3>4
      <4> QED BY <3>1, <3>2, <4>1 DEF Ahead
    <3> QED BY <3>1, <3>3, <3>4
  <2> QED BY <1>3, <2>2, <2>3, <2>4
<1> QED BY <1>3, <1>4

LEMMA TickLevel == ASSUME TypeOK, LevelFits, Tick PROVE LevelFits'
<1>1. Forgiven \in Nat /\ Forgiven' = Forgiven
  BY ForgivenFits DEF Forgiven, Tick
<1>2. Uncharged' = Uncharged /\ Uncharged \subseteq Sessions
  BY DEF Tick, Uncharged, Pending, Gone
<1>3. level' <= debt' + Weight(Uncharged') + Forgiven'
  <2>1. Weight(Uncharged) \in Nat /\ Weight(Uncharged') = Weight(Uncharged)
    BY <1>2, WeightFits
  <2>2. level <= debt + Weight(Uncharged) + Forgiven
    BY DEF LevelFits
  <2> QED BY <1>1, <2>1, <2>2, TickFits DEF TypeOK
<1>4. ASSUME NEW s \in Sessions \ Uncharged', NEW t \in Sessions \ Uncharged,
             Ahead(t) \subseteq Ahead(s)', wait[t] <= wait'[s] + 1
      PROVE  level' <= Grace + wait'[s] + Weight(Ahead(s)') + Forgiven'
  <2>1. level <= Grace + wait[t] + Weight(Ahead(t)) + Forgiven
    BY <1>4 DEF LevelFits
  <2>2. Ahead(s)' \subseteq Sessions
    BY DEF Ahead
  <2>3. /\ Weight(Ahead(t)) <= Weight(Ahead(s)') /\ Weight(Ahead(t)) \in Nat
        /\ Weight(Ahead(s)') \in Nat
    BY <1>4, <2>2, WeightFits
  <2>4. level' = 0 \/ level' = level - 1
    BY TickFits
  <2>5. wait'[s] \in Nat /\ wait[t] \in Nat
    BY TickFits DEF TypeOK
  <2> QED BY <1>1, <1>4, <2>1, <2>3, <2>4, <2>5, GraceAssumption DEF TypeOK
<1>5. ASSUME NEW s \in Sessions \ Uncharged'
      PROVE  level' <= Grace + wait'[s] + Weight(Ahead(s)') + Forgiven'
  <2>1. s \notin Uncharged /\ wait[s] <= wait'[s] + 1
    BY TickAhead, TickFits DEF TypeOK
  <2>2. CASE Ahead(s) \subseteq Ahead(s)'
    BY <1>4, <2>1, <2>2
  <2>3. ASSUME NEW t \in Sessions \ Uncharged, Ahead(t) \subseteq Ahead(s)',
               wait[t] = wait'[s] + 1
        PROVE  level' <= Grace + wait'[s] + Weight(Ahead(s)') + Forgiven'
    <3>1. wait[t] <= wait'[s] + 1
      BY <2>3, TickFits
    <3> QED BY <1>4, <1>5, <2>3, <3>1
  <2> QED BY <2>2, <2>3, TickAhead
<1>6. level' <= Grace + Weight(Sessions) + Forgiven'
  <2>1. Weight(Sessions) \in Nat
    BY WeightFits
  <2> QED BY <1>1, <2>1, TickFits, GraceAssumption DEF LevelFits, TypeOK
<1> QED BY <1>3, <1>5, <1>6 DEF LevelFits

\* What was let through before an eviction is forgiven.
LEMMA EvictLevel == ASSUME TypeOK, LevelFits, Evict PROVE LevelFits'
<1>1. Forgiven' = Forgiven + Grace + Weight(Sessions)
  <2>1. Weight(Sessions) \in Nat
    BY WeightFits
  <2>2. \A n, c \in Nat : (n + 1) * c = n * c + c
    OBVIOUS
  <2>3. Grace + Weight(Sessions) \in Nat /\ evictions \in Nat
    BY <2>1, GraceAssumption DEF TypeOK
  <2>4. Forgiven' = (evictions + 1) * (Grace + Weight(Sessions))
    BY DEF Evict, Forgiven
  <2>5. Forgiven' = Forgiven + (Grace + Weight(Sessions))
    BY <2>2, <2>3, <2>4 DEF Forgiven
  <2> QED BY <2>1, <2>5, ForgivenFits, GraceAssumption
<1>2. Forgiven \in Nat /\ Weight(Sessions) \in Nat /\ Forgiven' \in Nat
  BY <1>1, ForgivenFits, WeightFits, GraceAssumption
<1>3. level' <= Forgiven' /\ level' \in Nat
  BY <1>1, <1>2, GraceAssumption DEF LevelFits, Evict, TypeOK
<1>4. /\ Uncharged' \subseteq Sessions
      /\ \A s \in Sessions : Ahead(s)' \subseteq Sessions
  BY DEF Uncharged, Ahead
<1>5. level' <= debt' + Weight(Uncharged') + Forgiven'
  <2>1. Weight(Uncharged') \in Nat
    BY <1>4, WeightFits
  <2> QED BY <1>2, <1>3, <2>1 DEF Evict
<1>6. ASSUME NEW s \in Sessions
      PROVE  level' <= Grace + wait'[s] + Weight(Ahead(s)') + Forgiven'
  <2>1. Weight(Ahead(s)') \in Nat
    BY <1>4, WeightFits
  <2> QED BY <1>2, <1>3, <2>1, GraceAssumption DEF Evict, TypeOK
<1>7. level' <= Grace + Weight(Sessions) + Forgiven'
  BY <1>2, <1>3, GraceAssumption
<1> QED BY <1>5, <1>6, <1>7 DEF LevelFits

\* What each of the other steps does to those whose message is uncharged.
LEMMA Quiet ==
    ASSUME TypeOK, FlagsFit, NEW s \in Sessions,
           \/ Open(s) \/ Answer(s) \/ Retry(s) \/ ReportError(s)
           \/ TimerFires(s) \/ CloseEvent(s),
           NEW t \in Sessions
    PROVE  /\ t \in Uncharged' \/ (t \notin Uncharged /\ wait'[t] = wait[t])
           /\ wait'[t] <= wait[t]
<1>1. (conn[s] = "new" => call[s] = "none") /\ wait[t] \in Nat /\ wait[s] \in Nat
  BY DEF FlagsFit, TypeOK
<1> USE <1>1 DEF Uncharged, Pending, Gone, TypeOK
<1>2. CASE Open(s)
  BY <1>2 DEF Open
<1>3. CASE Answer(s)
  BY <1>3 DEF Answer
<1>4. CASE Retry(s)
  BY <1>4 DEF Retry
<1>5. CASE ReportError(s)
  BY <1>5 DEF ReportError
<1>6. CASE TimerFires(s)
  BY <1>6 DEF TimerFires
<1>7. CASE CloseEvent(s)
  BY <1>7 DEF CloseEvent
<1> QED BY <1>2, <1>3, <1>4, <1>5, <1>6, <1>7

LEMMA LevelStep ==
    ASSUME TypeOK, FlagsFit, LevelFits, [Next]_vars
    PROVE  LevelFits'
<1>1. ASSUME NEW s \in Sessions,
             \/ Open(s) \/ Answer(s) \/ Retry(s) \/ ReportError(s)
             \/ TimerFires(s) \/ CloseEvent(s)
      PROVE  LevelFits'
  <2>1. UNCHANGED <<debt, evictions, level>>
    BY <1>1 DEF Open, Answer, Retry, ReportError, TimerFires, CloseEvent
  <2>2. \A t \in Sessions : \/ t \in Uncharged'
                            \/ t \notin Uncharged /\ wait'[t] = wait[t]
    BY <1>1, Quiet
  <2> QED BY <2>1, <2>2, QuietLevel
<1>2. CASE Hibernate \/ UNCHANGED vars
  <2>1. UNCHANGED <<debt, evictions, level, wait, conn, call>>
    BY <1>2 DEF Hibernate, vars
  <2>2. Uncharged' = Uncharged
    BY <2>1 DEF Uncharged, Pending, Gone
  <2> QED BY <2>1, <2>2, QuietLevel
<1> QED BY <1>1, <1>2, CheckLimitLevel, ServeLevel, TickLevel, EvictLevel DEF Next

-----------------------------------------------------------------------------
(* What is waited for. *)

LEMMA ChargesFit ==
    ASSUME NEW step, NEW S, S \subseteq Sessions
    PROVE  Charges(step, S) \in Nat /\ Charges(step, S) <= 2 * Weight(Sessions)
<1>1. Once(step, S) \subseteq Sessions /\ Twice(step, S) \subseteq Sessions
  BY DEF Once, Twice
<1>2. /\ Weight(Once(step, S)) \in Nat /\ Weight(Once(step, S)) <= Weight(Sessions)
      /\ Weight(Twice(step, S)) \in Nat /\ Weight(Twice(step, S)) <= Weight(Sessions)
      /\ Weight(Sessions) \in Nat
  BY <1>1, WeightFits
<1> QED BY <1>2 DEF Charges

\* How often the connections of S, and of T later on, have been charged.
LEMMA ChargesGrow ==
    ASSUME NEW step, NEW later, NEW S, NEW T, T \subseteq Sessions,
           Once(step, S) \subseteq Once(later, T),
           Twice(step, S) \subseteq Twice(later, T)
    PROVE  /\ Charges(step, S) <= Charges(later, T)
           /\ Charges(step, S) \in Nat /\ Charges(later, T) \in Nat
           /\ \A s \in (Once(later, T) \ Once(step, S)) \cup
                      (Twice(later, T) \ Twice(step, S)) :
                Charges(step, S) + Interval <= Charges(later, T)
<1>1. Once(later, T) \subseteq Sessions /\ Twice(later, T) \subseteq Sessions
  BY DEF Once, Twice
<1>2. /\ Weight(Once(step, S)) <= Weight(Once(later, T))
      /\ Weight(Once(step, S)) \in Nat /\ Weight(Once(later, T)) \in Nat
      /\ \A x \in Once(later, T) \ Once(step, S) :
           Weight(Once(step, S)) + Interval <= Weight(Once(later, T))
  BY <1>1, WeightFits
<1>3. /\ Weight(Twice(step, S)) <= Weight(Twice(later, T))
      /\ Weight(Twice(step, S)) \in Nat /\ Weight(Twice(later, T)) \in Nat
      /\ \A x \in Twice(later, T) \ Twice(step, S) :
           Weight(Twice(step, S)) + Interval <= Weight(Twice(later, T))
  BY <1>1, WeightFits
<1> QED BY <1>2, <1>3, IntervalAssumption DEF Charges

\* Those ahead have a call under way, or are gone.
LEMMA AheadAreBusy ==
    ASSUME TypeOK, FlagsFit, NEW s \in Sessions
    PROVE  Ahead(s) \subseteq Busy \ {s}
<1>1. \A t \in Sessions : wait[t] \in Nat /\ (call[t] = "none" => wait[t] = 0)
  BY DEF TypeOK, FlagsFit
<1> QED BY <1>1 DEF Ahead, Busy, Uncharged, Pending

LEMMA DebtInit == ASSUME Init, TypeOK PROVE DebtFits
<1>1. debt = 0 /\ \A s \in Sessions : wait[s] = 0
  BY DEF Init
<1>2. Weight(Sessions) \in Nat
  BY WeightFits
<1>3. Busy \subseteq Sessions /\ \A s \in Sessions : Ahead(s) \subseteq Sessions
  BY DEF Busy, Ahead
<1>4. Charges(call, Busy) \in Nat /\ \A s \in Sessions : Charges(call, Ahead(s)) \in Nat
  BY <1>3, ChargesFit
<1> QED BY <1>1, <1>2, <1>4, GraceAssumption DEF DebtFits, TypeOK

\* A step that charges nothing keeps the second bound.
LEMMA QuietAhead ==
    ASSUME TypeOK, FlagsFit, DebtFits, debt' = debt,
           \A t \in Sessions : \/ t \in Uncharged'
                               \/ t \notin Uncharged /\ wait'[t] = wait[t],
           \A t \in Busy : ChargesStay(t),
           NEW s \in Sessions \ Uncharged'
    PROVE  debt' <= Grace + wait'[s] + Charges(call', Ahead(s)')
<1>1. /\ s \notin Uncharged /\ wait'[s] = wait[s]
      /\ Ahead(s) \subseteq Ahead(s)' /\ Ahead(s)' \subseteq Sessions
  BY DEF Ahead
<1>2. Ahead(s) \subseteq Busy
  BY AheadAreBusy
<1>3. /\ Once(call, Ahead(s)) \subseteq Once(call', Ahead(s)')
      /\ Twice(call, Ahead(s)) \subseteq Twice(call', Ahead(s)')
  BY <1>1, <1>2 DEF Once, Twice, ChargesStay
<1>4. /\ Charges(call, Ahead(s)) <= Charges(call', Ahead(s)')
      /\ Charges(call, Ahead(s)) \in Nat /\ Charges(call', Ahead(s)') \in Nat
  BY <1>1, <1>3, ChargesGrow
<1>5. debt <= Grace + wait[s] + Charges(call, Ahead(s))
  BY <1>1 DEF DebtFits
<1> QED BY <1>1, <1>4, <1>5, GraceAssumption DEF TypeOK

\* And the first, if nobody stops being busy.
LEMMA QuietBusy ==
    ASSUME TypeOK, DebtFits, debt' = debt,
           \A t \in Busy : t \in Busy' /\ ChargesStay(t)
    PROVE  debt' <= Grace + Charges(call', Busy')
<1>1. Busy \subseteq Busy' /\ Busy' \subseteq Sessions
  BY DEF Busy
<1>2. /\ Once(call, Busy) \subseteq Once(call', Busy')
      /\ Twice(call, Busy) \subseteq Twice(call', Busy')
  BY <1>1 DEF Once, Twice, ChargesStay
<1>3. /\ Charges(call, Busy) <= Charges(call', Busy')
      /\ Charges(call, Busy) \in Nat /\ Charges(call', Busy') \in Nat
  BY <1>1, <1>2, ChargesGrow
<1> QED BY <1>3, GraceAssumption DEF DebtFits, TypeOK

\* A message is charged, for the first time or again.
LEMMA ServeDebt ==
    ASSUME TypeOK, FlagsFit, DebtFits, NEW s \in Sessions, Serve(s)
    PROVE  DebtFits'
<1>1. /\ debt' = debt + Interval /\ debt' \in Nat
      /\ wait'[s] \in Nat /\ debt' <= Grace + wait'[s]
      /\ wait'[s] = Cooldown(debt')
      /\ \A t \in Sessions \ {s} : wait'[t] = wait[t]
  <2>1. debt + Interval \in Nat
    BY IntervalAssumption DEF TypeOK
  <2>2. wait'[s] = Cooldown(debt + Interval)
    BY DEF Serve, TypeOK
  <2> QED BY <2>1, <2>2, CooldownFits DEF Serve, TypeOK
<1>2. /\ \A t \in Sessions : ChargesStay(t)
      /\ \A t \in Sessions \ {s} : call'[t] = call[t]
      /\ \/ call[s] = "first" /\ call'[s] # "first"
         \/ /\ call[s] \in {"first", "served", "second"}
            /\ call'[s] \notin {"first", "served", "second"}
  BY DEF Serve, TypeOK, ChargesStay
<1>3. s \in Busy /\ Busy' = Busy /\ Busy \subseteq Sessions
  BY DEF Serve, Busy, Gone, TypeOK
<1>4. /\ s \in Uncharged /\ Uncharged \ {s} \subseteq Uncharged'
      /\ Uncharged' \subseteq Uncharged /\ Uncharged \subseteq Sessions
  BY DEF Serve, Uncharged, Pending, Gone, TypeOK
<1>5. ASSUME NEW S, NEW T, S \subseteq T, T \subseteq Sessions, s \in S
      PROVE  /\ Charges(call, S) + Interval <= Charges(call', T)
             /\ Charges(call, S) \in Nat /\ Charges(call', T) \in Nat
  <2>1. /\ Once(call, S) \subseteq Once(call', T)
        /\ Twice(call, S) \subseteq Twice(call', T)
    BY <1>2, <1>5 DEF Once, Twice, ChargesStay
  <2>2. s \in (Once(call', T) \ Once(call, S)) \cup (Twice(call', T) \ Twice(call, S))
    BY <1>2, <1>5 DEF Once, Twice
  <2> QED BY <1>5, <2>1, <2>2, ChargesGrow
<1>6. debt' <= Grace + Charges(call', Busy')
  <2>1. /\ Charges(call, Busy) + Interval <= Charges(call', Busy')
        /\ Charges(call, Busy) \in Nat /\ Charges(call', Busy') \in Nat
    BY <1>3, <1>5
  <2> QED BY <1>1, <2>1, GraceAssumption, IntervalAssumption DEF DebtFits, TypeOK
<1>7. ASSUME NEW t \in Sessions \ Uncharged'
      PROVE  debt' <= Grace + wait'[t] + Charges(call', Ahead(t)')
  <2>1. Charges(call', Ahead(t)') \in Nat
    <3>1. Ahead(t)' \subseteq Sessions
      BY DEF Ahead
    <3> QED BY <3>1, ChargesFit
  <2>2. CASE wait'[s] <= wait'[t]
    <3>1. wait'[t] \in Nat
      BY TypeStep DEF Next, TypeOK
    <3> QED BY <1>1, <2>1, <2>2, <3>1, GraceAssumption
  <2>3. CASE ~(wait'[s] <= wait'[t])
    <3>1. /\ t # s /\ wait'[t] = wait[t] /\ wait[t] \in Nat /\ t \notin Uncharged
      BY <1>1, <1>4, <1>7, <2>3 DEF TypeOK
    <3>2. s \in Ahead(t) /\ s \in Ahead(t)'
      BY <1>1, <1>4, <2>3, <3>1 DEF Ahead
    <3>3. Ahead(t) \subseteq Ahead(t)' /\ Ahead(t)' \subseteq Sessions
      BY <1>1, <1>4, <3>1, <3>2 DEF Ahead
    <3>4. /\ Charges(call, Ahead(t)) + Interval <= Charges(call', Ahead(t)')
          /\ Charges(call, Ahead(t)) \in Nat
      BY <1>5, <3>2, <3>3
    <3>5. debt <= Grace + wait[t] + Charges(call, Ahead(t))
      BY <1>7, <3>1 DEF DebtFits
    <3> QED BY <1>1, <2>1, <3>1, <3>4, <3>5, GraceAssumption, IntervalAssumption
            DEF TypeOK
  <2> QED BY <2>2, <2>3
<1>8. ASSUME NEW t \in Sessions
      PROVE  wait'[t] <= 2 * Weight(Sessions)
  <2>1. CASE t = s
    <3>1. Busy' \subseteq Sessions
      BY <1>3
    <3>2. /\ Charges(call', Busy') \in Nat
          /\ Charges(call', Busy') <= 2 * Weight(Sessions)
      BY <3>1, ChargesFit
    <3>3. Weight(Sessions) \in Nat
      BY WeightFits
    <3>4. wait'[s] <= debt' - Grace \/ wait'[s] = 0
      BY <1>1, GraceAssumption DEF Cooldown, AtLeastZero
    <3> QED BY <1>1, <1>6, <2>1, <3>2, <3>3, <3>4, GraceAssumption
  <2>2. CASE t # s
    BY <1>1, <2>2 DEF DebtFits
  <2> QED BY <2>1, <2>2
<1> QED BY <1>6, <1>7, <1>8 DEF DebtFits

\* A connection stops being busy when it has waited long enough, and so have
\* those that were told less.
LEMMA TimerFiresDebt ==
    ASSUME TypeOK, FlagsFit, DebtFits, NEW s \in Sessions, TimerFires(s)
    PROVE  debt' <= Grace + Charges(call', Busy')
<1>1. /\ \A t \in Busy \ {s} : t \in Busy' /\ ChargesStay(t)
      /\ ChargesStay(s)
      /\ debt' = debt /\ wait[s] = 0
      /\ conn' = conn /\ call[s] = "waiting"
  BY DEF TimerFires, Busy, ChargesStay, Gone, TypeOK
<1>2. CASE s \in Busy'
  BY <1>1, <1>2, QuietBusy
<1>3. CASE s \notin Busy'
  <2>1. s \notin Uncharged
    BY <1>1, <1>3 DEF Busy, Uncharged, Pending, Gone
  <2>2. Ahead(s) \subseteq Busy \ {s}
    BY AheadAreBusy
  <2>3. /\ Once(call, Ahead(s)) \subseteq Once(call', Busy')
        /\ Twice(call, Ahead(s)) \subseteq Twice(call', Busy')
    BY <1>1, <2>2 DEF Once, Twice, ChargesStay
  <2>4. Busy' \subseteq Sessions
    BY DEF Busy
  <2>5. /\ Charges(call, Ahead(s)) <= Charges(call', Busy')
        /\ Charges(call, Ahead(s)) \in Nat /\ Charges(call', Busy') \in Nat
    BY <2>3, <2>4, ChargesGrow
  <2>6. debt <= Grace + wait[s] + Charges(call, Ahead(s))
    BY <2>1 DEF DebtFits
  <2> QED BY <1>1, <2>5, <2>6, GraceAssumption DEF TypeOK
<1> QED BY <1>2, <1>3

LEMMA TickDebt == ASSUME TypeOK, DebtFits, Tick PROVE DebtFits'
<1>1. Busy' = Busy /\ Busy \subseteq Sessions /\ call' = call
  BY DEF Tick, Busy, Gone
<1>2. debt' <= Grace + Charges(call', Busy')
  <2>1. Charges(call, Busy) \in Nat /\ Charges(call', Busy') = Charges(call, Busy)
    BY <1>1, ChargesFit
  <2> QED BY <2>1, TickFits, GraceAssumption DEF DebtFits, TypeOK
<1>3. ASSUME NEW s \in Sessions \ Uncharged', NEW t \in Sessions \ Uncharged,
             Ahead(t) \subseteq Ahead(s)', wait[t] <= wait'[s] + 1
      PROVE  debt' <= Grace + wait'[s] + Charges(call', Ahead(s)')
  <2>1. debt <= Grace + wait[t] + Charges(call, Ahead(t))
    BY <1>3 DEF DebtFits
  <2>2. Ahead(s)' \subseteq Sessions
    BY DEF Ahead
  <2>3. /\ Once(call, Ahead(t)) \subseteq Once(call', Ahead(s)')
        /\ Twice(call, Ahead(t)) \subseteq Twice(call', Ahead(s)')
    BY <1>1, <1>3 DEF Once, Twice
  <2>4. /\ Charges(call, Ahead(t)) <= Charges(call', Ahead(s)')
        /\ Charges(call, Ahead(t)) \in Nat /\ Charges(call', Ahead(s)') \in Nat
    BY <2>2, <2>3, ChargesGrow
  <2>5. debt' = 0 \/ debt' = debt - 1
    BY TickFits
  <2>6. wait'[s] \in Nat /\ wait[t] \in Nat
    BY TickFits DEF TypeOK
  <2> QED BY <1>3, <2>1, <2>4, <2>5, <2>6, GraceAssumption DEF TypeOK
<1>4. ASSUME NEW s \in Sessions \ Uncharged'
      PROVE  debt' <= Grace + wait'[s] + Charges(call', Ahead(s)')
  <2>1. s \notin Uncharged /\ wait[s] <= wait'[s] + 1
    BY TickAhead, TickFits DEF TypeOK
  <2>2. CASE Ahead(s) \subseteq Ahead(s)'
    BY <1>3, <2>1, <2>2
  <2>3. ASSUME NEW t \in Sessions \ Uncharged, Ahead(t) \subseteq Ahead(s)',
               wait[t] = wait'[s] + 1
        PROVE  debt' <= Grace + wait'[s] + Charges(call', Ahead(s)')
    <3>1. wait[t] <= wait'[s] + 1
      BY <2>3, TickFits
    <3> QED BY <1>3, <1>4, <2>3, <3>1
  <2> QED BY <2>2, <2>3, TickAhead
<1>5. ASSUME NEW s \in Sessions
      PROVE  wait'[s] <= 2 * Weight(Sessions)
  <2>1. wait[s] <= 2 * Weight(Sessions) /\ Weight(Sessions) \in Nat
    BY WeightFits DEF DebtFits
  <2> QED BY <2>1, TickFits DEF TypeOK
<1> QED BY <1>2, <1>4, <1>5 DEF DebtFits

\* An evicted limiter knows of no debt.
LEMMA EvictDebt == ASSUME TypeOK, DebtFits, Evict PROVE DebtFits'
<1>1. /\ Busy' \subseteq Sessions
      /\ \A s \in Sessions : Ahead(s)' \subseteq Sessions
  BY DEF Busy, Ahead
<1>2. debt' <= Grace + Charges(call', Busy')
  <2>1. Charges(call', Busy') \in Nat
    BY <1>1, ChargesFit
  <2> QED BY <2>1, GraceAssumption DEF Evict
<1>3. ASSUME NEW s \in Sessions
      PROVE  debt' <= Grace + wait'[s] + Charges(call', Ahead(s)')
  <2>1. Charges(call', Ahead(s)') \in Nat
    BY <1>1, ChargesFit
  <2> QED BY <2>1, GraceAssumption DEF Evict, TypeOK
<1>4. \A s \in Sessions : wait'[s] <= 2 * Weight(Sessions)
  BY DEF Evict, DebtFits
<1> QED BY <1>2, <1>3, <1>4 DEF DebtFits

\* What each of the other steps does to the charges.
LEMMA QuietCharges ==
    ASSUME TypeOK, FlagsFit, NEW s \in Sessions,
           \/ Open(s) \/ CheckLimit(s) \/ Answer(s) \/ Retry(s)
           \/ ReportError(s) \/ TimerFires(s) \/ CloseEvent(s),
           NEW t \in Busy
    PROVE  /\ ChargesStay(t)
           /\ t \in Busy' \/ TimerFires(s)
<1>1. /\ conn[s] = "new" => call[s] = "none"
      /\ call[s] # "none" => inCooldown[s]
      /\ t \in Sessions
  BY DEF FlagsFit, Busy
<1> USE <1>1 DEF Busy, Gone, ChargesStay, TypeOK
<1>2. CASE Open(s)
  BY <1>2 DEF Open
<1>3. CASE CheckLimit(s)
  BY <1>3 DEF CheckLimit
<1>4. CASE Answer(s)
  BY <1>4 DEF Answer
<1>5. CASE Retry(s)
  BY <1>5 DEF Retry
<1>6. CASE ReportError(s)
  BY <1>6 DEF ReportError
<1>7. CASE TimerFires(s)
  BY <1>7 DEF TimerFires
<1>8. CASE CloseEvent(s)
  BY <1>8 DEF CloseEvent
<1> QED BY <1>2, <1>3, <1>4, <1>5, <1>6, <1>7, <1>8

LEMMA DebtStep ==
    ASSUME TypeOK, FlagsFit, DebtFits, [Next]_vars
    PROVE  DebtFits'
<1>1. ASSUME NEW s \in Sessions,
             \/ Open(s) \/ CheckLimit(s) \/ Answer(s) \/ Retry(s)
             \/ ReportError(s) \/ TimerFires(s) \/ CloseEvent(s)
      PROVE  DebtFits'
  <2>1. debt' = debt
    BY <1>1 DEF Open, CheckLimit, Answer, Retry, ReportError, TimerFires, CloseEvent
  <2>2. ASSUME NEW t \in Sessions
        PROVE  /\ t \in Uncharged' \/ (t \notin Uncharged /\ wait'[t] = wait[t])
               /\ wait'[t] <= wait[t]
    <3>1. CASE CheckLimit(s)
      BY <3>1 DEF CheckLimit, Uncharged, Pending, Gone, TypeOK
    <3>2. CASE ~CheckLimit(s)
      BY <1>1, <3>2, Quiet
    <3> QED BY <3>1, <3>2
  <2>3. \A t \in Busy : ChargesStay(t) /\ (t \in Busy' \/ TimerFires(s))
    BY <1>1, QuietCharges
  <2>4. debt' <= Grace + Charges(call', Busy')
    <3>1. CASE TimerFires(s)
      BY <3>1, TimerFiresDebt
    <3>2. CASE ~TimerFires(s)
      BY <2>1, <2>3, <3>2, QuietBusy
    <3> QED BY <3>1, <3>2
  <2>5. \A t \in Sessions \ Uncharged' :
          debt' <= Grace + wait'[t] + Charges(call', Ahead(t)')
    BY <2>1, <2>2, <2>3, QuietAhead
  <2>6. ASSUME NEW t \in Sessions
        PROVE  wait'[t] <= 2 * Weight(Sessions)
    <3>1. wait[t] <= 2 * Weight(Sessions) /\ Weight(Sessions) \in Nat
      BY WeightFits DEF DebtFits
    <3>2. wait'[t] \in Nat
      BY TypeStep DEF TypeOK
    <3> QED BY <2>2, <3>1, <3>2 DEF TypeOK
  <2> QED BY <2>4, <2>5, <2>6 DEF DebtFits
<1>2. CASE Hibernate \/ UNCHANGED vars
  <2>1. UNCHANGED <<debt, wait, conn, call>>
    BY <1>2 DEF Hibernate, vars
  <2>2. /\ Uncharged' = Uncharged /\ Busy' = Busy
        /\ \A t \in Busy : ChargesStay(t)
    BY <2>1 DEF Uncharged, Pending, Gone, Busy, ChargesStay
  <2>3. debt' <= Grace + Charges(call', Busy')
    BY <2>1, <2>2, QuietBusy
  <2>4. \A t \in Sessions \ Uncharged' :
          debt' <= Grace + wait'[t] + Charges(call', Ahead(t)')
    BY <2>1, <2>2, QuietAhead
  <2> QED BY <2>1, <2>3, <2>4 DEF DebtFits
<1> QED BY <1>1, <1>2, ServeDebt, TickDebt, EvictDebt DEF Next

-----------------------------------------------------------------------------
(* The theorems. *)

RateInvariant == TypeOK /\ FlagsFit /\ LevelFits /\ DebtFits

LEMMA RateInvariantHolds == Spec => []RateInvariant
<1>1. Init => RateInvariant
  BY TypeInit, LevelInit, DebtInit DEF RateInvariant
<1>2. RateInvariant /\ [Next]_vars => RateInvariant'
  BY TypeStep, FlagsFitStep, LevelStep, DebtStep DEF RateInvariant
<1> QED BY <1>1, <1>2, PTL DEF Spec

\* No cooldown that RateLimiter.ts answers is longer than what all connections
\* of the address have under way, charged twice: lost answers and repeated
\* calls do not add up, for any connections, intervals and evictions.
THEOREM WaitsBounded == Spec => []WaitBounded
<1>1. RateInvariant => WaitBounded
  <2>1. SUFFICES ASSUME RateInvariant, NEW s \in Sessions
                 PROVE  wait[s] <= 2 * Interval * Connections
    BY DEF WaitBounded
  <2>2. Cardinality(Sessions) \in Nat
    BY SessionsAssumption, FS_CardinalityType
  <2>3. 2 * Weight(Sessions) = 2 * Interval * Cardinality(Sessions)
    <3>1. \A n \in Nat : 2 * (Interval * n) = (2 * Interval) * n
      BY IntervalAssumption
    <3> QED BY <2>2, <3>1 DEF Weight
  <2>4. wait[s] <= 2 * Weight(Sessions)
    BY <2>1 DEF RateInvariant, DebtFits
  <2> QED BY <2>3, <2>4 DEF Connections
<1> QED BY <1>1, RateInvariantHolds, PTL

\* What checkLimit() of all the connections lets through fits a bucket with the
\* grace period and one message per connection, one bucket for each life of the
\* limiter: every step of the code is one of the bucket or a stutter.
THEOREM BucketImplemented == Spec => FitsTheBucket
<1>1. Init => Bucket!BucketInit
  BY DEF Init, Bucket!BucketInit
<1>2. ASSUME RateInvariant, [Next]_vars
      PROVE  [Bucket!BucketNext]_(Bucket!bucketVars)
  <2>1. TypeOK /\ FlagsFit /\ LevelFits
    BY <1>2 DEF RateInvariant
  <2>2. ASSUME NEW s \in Sessions, CheckLimit(s)
        PROVE  Bucket!Pour
    <3>1. level + Interval <= (evictions + 1) * (Grace + Weight(Sessions))
      BY <2>1, <2>2, CheckLimitLevel
    <3> QED BY <2>2, <3>1 DEF CheckLimit, Bucket!Pour, Bucket!Capacity, Connections,
                              Weight
  <2>3. ASSUME Tick
        PROVE  Bucket!Leak \/ UNCHANGED Bucket!bucketVars
    BY <2>1, <2>3, TickFits DEF Tick, AtLeastZero, TypeOK, Bucket!Leak,
                                Bucket!bucketVars
  <2>4. ASSUME Evict
        PROVE  Bucket!Forget
    BY <2>4 DEF Evict, Bucket!Forget
  <2>5. ASSUME NEW s \in Sessions,
               \/ Open(s) \/ Serve(s) \/ Answer(s) \/ Retry(s) \/ ReportError(s)
               \/ TimerFires(s) \/ CloseEvent(s)
        PROVE  UNCHANGED Bucket!bucketVars
    BY <2>5 DEF Open, Serve, Answer, Retry, ReportError, TimerFires, CloseEvent,
                Bucket!bucketVars
  <2>6. CASE Hibernate \/ UNCHANGED vars
    BY <2>6 DEF Hibernate, vars, Bucket!bucketVars
  <2> QED BY <1>2, <2>2, <2>3, <2>4, <2>5, <2>6 DEF Next, Bucket!BucketNext
<1> QED BY <1>1, <1>2, RateInvariantHolds, PTL DEF Spec, FitsTheBucket, Bucket!Spec
=============================================================================
