-------------------------- MODULE OutsideCalls_proofs --------------------------
(***************************************************************************)
(* Proofs about the calls to outside services: the guard of the LLM calls  *)
(* (LlmGuard) and the caches of the data feeds (Feeds), two state machines *)
(* that share no variable, each for any number of threads.                 *)
(*                                                                         *)
(* LlmGuard.  The budget is checked before a call and spent after it.  The *)
(* invariant counts what is still to be spent: one slot for each turn a    *)
(* caller past the check may still make; tokens and slots together stay    *)
(* below the bound (BudgetOvershootBounded), and every turn gives up the   *)
(* slot it spends.  The failures counted beyond the threshold are those of *)
(* requests that were in flight when it was reached (the type invariant's  *)
(* bound).  A pause that a Retry-After asked of a lone caller is still to  *)
(* be waited for by whoever comes next (SoloRetryAfterHonoured).           *)
(*                                                                         *)
(* Feeds.  What the request under way saw or got is compared with the      *)
(* entry it will replace: the same data, or older data, as long as locks   *)
(* or luck keep requests from overlapping (KnownGoodKept, NeverOlder).     *)
(* Where a lock is kept over the request, what was sent and what is stored *)
(* bound each other: one request per TTL (OneRequestPerTTL).               *)
(***************************************************************************)
EXTENDS LlmGuard, Feeds, FiniteSetTheorems, TLAPS

\* The turns of the calls that are past the budget check.  A caller at the
\* breaker has them all: CheckBreaker starts its count at zero.
TurnSlots ==
  {p \in Callers \X (1..MaxTurns) :
     pc[p[1]] = "breaker" \/ (pc[p[1]] = "request" /\ p[2] > turn[p[1]])}

Requesting == {c \in Callers : pc[c] = "request"}

GuardType ==
  /\ tokens \in Nat /\ newDay \in BOOLEAN
  /\ wait \in Nat /\ soloOwed \in Nat
  /\ degraded \in {"no", "token_budget", "circuit_breaker"}
  /\ pc \in [Callers -> Places]
  /\ turn \in [Callers -> 0..MaxTurns]
  /\ \A c \in Callers : pc[c] = "request" => turn[c] < MaxTurns

\* What is spent, and what may still be spent without another check.
Budgeted ==
  tokens + Cardinality(TurnSlots) * MaxUsage
    <= MaxDaily + Cardinality(Callers) * MaxTurns * MaxUsage

\* Failures beyond the threshold, and the requests that may still add to them.
Tripped ==
  /\ failures \in Nat
  /\ failures >= Threshold
       => failures + Cardinality(Requesting) < Threshold + Cardinality(Callers)

GuardInvariant == GuardType /\ Budgeted /\ Tripped

-----------------------------------------------------------------------------
(* Arithmetic and cardinalities.                                            *)

\* Both sides of a sum may shrink below a bound.
LEMMA Below ==
  ASSUME NEW x \in Nat, NEW y \in Nat, NEW p \in Nat, NEW q \in Nat, NEW b \in Nat,
         x + p <= b, y <= x, q <= p
  PROVE  y + q <= b
OBVIOUS

\* Sums are monotone.
LEMMA SumBelow ==
  ASSUME NEW x \in Nat, NEW d \in Nat, NEW p \in Nat, NEW q \in Nat, x <= d, p <= q
  PROVE  x + p <= d + q
OBVIOUS

\* What is added to the one side was given up by the other.
LEMMA Spent ==
  ASSUME NEW x \in Nat, NEW y \in Nat, NEW p \in Nat, NEW q \in Nat, NEW b \in Nat,
         NEW m \in Nat, x + p <= b, y <= x + m, q + m <= p
  PROVE  y + q <= b
OBVIOUS

\* Products by the same factor keep the order.
LEMMA Scaled ==
  ASSUME NEW a \in Nat, NEW b \in Nat, NEW m \in Nat
  PROVE  /\ a <= b => a * m <= b * m
         /\ a < b => a * m + m <= b * m
<1>1. ASSUME a <= b PROVE a * m <= b * m
  <2>1. PICK d \in Nat : b = a + d
    <3>1. b - a \in Nat /\ b = a + (b - a)
      BY <1>1
    <3> QED BY <3>1
  <2>2. b * m = a * m + d * m /\ d * m \in Nat /\ a * m \in Nat
    BY <2>1
  <2> QED BY <2>2
<1>2. ASSUME a < b PROVE a * m + m <= b * m
  <2>1. PICK d \in Nat : b = a + 1 + d
    <3>1. b - a - 1 \in Nat /\ b = a + 1 + (b - a - 1)
      BY <1>2
    <3> QED BY <3>1
  <2>2. b * m = a * m + m + d * m /\ d * m \in Nat /\ a * m \in Nat
    BY <2>1
  <2> QED BY <2>2
<1> QED BY <1>1, <1>2

\* The usages have a largest one: of the sets of usages from u on, the smallest.
LEMMA MaxUsageIsMax == MaxUsage \in Usages /\ MaxUsage \in Nat /\ \A v \in Usages : v <= MaxUsage
<1>1. IsFiniteSet(Usages) /\ Usages \subseteq Nat /\ Usages # {}
  BY GuardAssumption
<1> DEFINE From(u) == {v \in Usages : u <= v}
           Family == {From(u) : u \in Usages}
<1>2. IsWellFoundedOn(StrictSubsetOrdering(Usages), SUBSET Usages)
  BY <1>1, FS_StrictSubsetOrderingWellFounded, FS_FiniteSubsetsOfFinite
<1>3. Family \subseteq SUBSET Usages /\ Family # {}
  BY <1>1
<1>4. PICK t \in Family : \A s \in Family : <<s, t>> \notin StrictSubsetOrdering(Usages)
  <2> HIDE DEF Family
  <2> QED BY <1>2, <1>3, WFMin
<1>5. PICK u \in Usages : t = From(u)
  OBVIOUS
<1>6. ASSUME NEW v \in Usages PROVE v <= u
  <2>1. SUFFICES ASSUME u < v PROVE FALSE
    BY <1>1
  <2>2. From(v) \subseteq From(u) /\ From(v) # From(u)
    <3>1. u \in From(u) /\ u \notin From(v)
      BY <1>1, <2>1
    <3>2. ASSUME NEW w \in Usages, v <= w PROVE u <= w
      <4>1. u \in Nat /\ v \in Nat /\ w \in Nat
        BY <1>1
      <4> QED BY <2>1, <3>2, <4>1
    <3> QED BY <3>1, <3>2
  <2>3. From(v) \in Family /\ From(v) \in SUBSET Usages /\ t \in SUBSET Usages
    BY <1>3
  <2> HIDE DEF From, Family
  <2> QED BY <1>4, <1>5, <2>2, <2>3 DEF StrictSubsetOrdering
<1>7. \E w \in Usages : \A v \in Usages : v <= w
  BY <1>6
<1>8. MaxUsage \in Usages /\ \A v \in Usages : v <= MaxUsage
  BY <1>7 DEF MaxUsage
<1> QED BY <1>1, <1>8

\* The callers, and the slots they hold, are finitely many.
LEMMA SlotsFinite ==
  /\ IsFiniteSet(TurnSlots) /\ Cardinality(TurnSlots) \in Nat
  /\ Cardinality(Callers) \in Nat /\ MaxTurns \in Nat
  /\ Cardinality(TurnSlots) <= Cardinality(Callers) * MaxTurns
  /\ IsFiniteSet(Requesting) /\ Cardinality(Requesting) \in Nat
  /\ Cardinality(Requesting) <= Cardinality(Callers)
<1>1. IsFiniteSet(Callers) /\ MaxTurns \in Nat \ {0}
  BY GuardAssumption
<1>2. IsFiniteSet(1..MaxTurns) /\ Cardinality(1..MaxTurns) = MaxTurns
  BY <1>1, FS_Interval
<1>3. /\ IsFiniteSet(Callers \X (1..MaxTurns))
      /\ Cardinality(Callers \X (1..MaxTurns)) = Cardinality(Callers) * MaxTurns
  BY <1>1, <1>2, FS_Product
<1>4. TurnSlots \in SUBSET (Callers \X (1..MaxTurns)) /\ Requesting \in SUBSET Callers
  BY DEF TurnSlots, Requesting
<1>5. IsFiniteSet(TurnSlots) /\ Cardinality(TurnSlots) <= Cardinality(Callers) * MaxTurns
  BY <1>3, <1>4, FS_Subset
<1>6. IsFiniteSet(Requesting) /\ Cardinality(Requesting) <= Cardinality(Callers)
  BY <1>1, <1>4, FS_Subset
<1> QED BY <1>1, <1>5, <1>6, FS_CardinalityType

\* A step that spends nothing and lets no caller past the check.
LEMMA NothingSpent ==
  ASSUME GuardInvariant, tokens' \in Nat, tokens' <= tokens, TurnSlots' \subseteq TurnSlots
  PROVE  Budgeted'
<1>1. PICK m \in Nat : m = MaxUsage
  BY MaxUsageIsMax
<1>2. PICK k \in Nat : k = Cardinality(TurnSlots)
  BY SlotsFinite
<1>3. PICK j \in Nat : j = Cardinality(TurnSlots)' /\ j <= k
  BY <1>2, SlotsFinite, FS_Subset, FS_CardinalityType
<1>4. PICK b \in Nat : b = MaxDaily + Cardinality(Callers) * MaxTurns * MaxUsage
  <2>1. PICK n \in Nat, t \in Nat, d \in Nat :
          n = Cardinality(Callers) /\ t = MaxTurns /\ d = MaxDaily
    BY SlotsFinite, GuardAssumption
  <2>2. n * t * m \in Nat
    OBVIOUS
  <2>3. d + n * t * m \in Nat
    BY <2>2
  <2> QED BY <1>1, <2>1, <2>3
<1>6. tokens + k * m <= b
  BY <1>1, <1>2, <1>4 DEF GuardInvariant, Budgeted
<1>7. j * m <= k * m /\ j * m \in Nat /\ k * m \in Nat
  BY <1>3, Scaled
<1>8. tokens' + j * m <= b
  <2>1. PICK p \in Nat, q \in Nat : p = k * m /\ q = j * m
    BY <1>7
  <2>2. tokens \in Nat /\ tokens + p <= b /\ q <= p
    BY <1>6, <1>7, <2>1 DEF GuardInvariant, GuardType
  <2>3. tokens' + q <= b
    <3>1. PICK x \in Nat, y \in Nat : x = tokens /\ y = tokens' /\ y <= x
      BY <2>2
    <3>2. y + q <= b
      <4>1. x + p <= b /\ q <= p /\ y <= x
        BY <2>2, <3>1
      <4> QED BY <4>1, Below
    <3> QED BY <3>1, <3>2
  <2> QED BY <2>1, <2>3
<1> QED BY <1>1, <1>3, <1>4, <1>8 DEF Budgeted

-----------------------------------------------------------------------------
(* One lemma per kind of step.                                              *)

\* Nothing is spent and nobody is in a call at the start.
LEMMA InitGuard == Init => GuardInvariant
<1> SUFFICES ASSUME Init PROVE GuardInvariant
  OBVIOUS
<1>1. GuardType
  BY GuardAssumption DEF Init, GuardType, Places
<1>2. TurnSlots = {}
  BY DEF Init, TurnSlots
<1>3. Cardinality(TurnSlots) = 0
  BY <1>2, FS_EmptySet
<1>4. PICK m \in Nat, n \in Nat, t \in Nat, d \in Nat :
        m = MaxUsage /\ n = Cardinality(Callers) /\ t = MaxTurns /\ d = MaxDaily
  BY MaxUsageIsMax, SlotsFinite, GuardAssumption
<1>5. n * t * m \in Nat /\ 0 * m = 0
  OBVIOUS
<1>6. 0 + 0 * m <= d + n * t * m
  BY <1>5
<1>7. Budgeted
  BY <1>3, <1>4, <1>6 DEF Init, Budgeted
<1>8. Tripped
  BY GuardAssumption DEF Init, Tripped
<1> QED BY <1>1, <1>7, <1>8 DEF GuardInvariant

\* A caller that leaves its request, or was not in one, frees its slots.
LEMMA LeavesRequest ==
  ASSUME GuardInvariant, NEW c \in Callers, NEW place \in Places \ {"breaker", "request"},
         Go(c, place), \A d \in Callers \ {c} : turn'[d] = turn[d]
  PROVE  /\ TurnSlots' \subseteq TurnSlots
         /\ Requesting' = Requesting \ {c}
         /\ pc' \in [Callers -> Places]
         /\ \A d \in Callers : pc'[d] = "request" => d # c /\ pc[d] = "request"
<1>1. /\ pc \in [Callers -> Places] /\ pc' = [pc EXCEPT ![c] = place]
      /\ place # "request" /\ place # "breaker"
  BY DEF GuardInvariant, GuardType, Go
<1>2. \A d \in Callers : pc'[d] = IF d = c THEN place ELSE pc[d]
  BY <1>1
<1>3. ASSUME NEW p \in Callers \X (1..MaxTurns),
             pc'[p[1]] = "breaker" \/ (pc'[p[1]] = "request" /\ p[2] > turn'[p[1]])
      PROVE  pc[p[1]] = "breaker" \/ (pc[p[1]] = "request" /\ p[2] > turn[p[1]])
  BY <1>1, <1>2, <1>3
<1>4. TurnSlots' \subseteq TurnSlots
  BY <1>3 DEF TurnSlots
<1>5. Requesting' = Requesting \ {c}
  BY <1>1, <1>2 DEF Requesting
<1> QED BY <1>1, <1>2, <1>4, <1>5

\* The failures a step leaves, and the requests in flight.
LEMMA StaysTripped ==
  ASSUME GuardInvariant, Requesting' \subseteq Requesting, failures' = failures \/ failures' = 0
  PROVE  Tripped'
<1>1. Cardinality(Requesting)' \in Nat /\ Cardinality(Requesting)' <= Cardinality(Requesting)
      /\ Cardinality(Requesting) \in Nat /\ Cardinality(Callers) \in Nat
  BY SlotsFinite, FS_Subset, FS_CardinalityType
<1>2. Threshold \in Nat \ {0}
  BY GuardAssumption
<1> QED BY <1>1, <1>2 DEF GuardInvariant, Tripped

\* A caller that passes the budget check gets its slots while there is budget left.
LEMMA CheckBudgetKeeps ==
  ASSUME GuardInvariant, NEW c \in Callers, CheckBudget(c)
  PROVE  GuardInvariant'
<1>1. /\ pc[c] = "idle" /\ tokens' = Today /\ newDay' = FALSE
      /\ UNCHANGED <<failures, wait, turn, soloOwed>>
  BY DEF CheckBudget, At
<1>2. Today \in Nat /\ Today <= tokens
  BY DEF Today, GuardInvariant, GuardType
<1>3. CASE UNCHANGED pc /\ degraded' = "token_budget"
  <2>1. TurnSlots' = TurnSlots /\ Requesting' = Requesting
    BY <1>1, <1>3 DEF TurnSlots, Requesting
  <2>2. GuardType'
    BY <1>1, <1>2, <1>3 DEF GuardInvariant, GuardType
  <2> QED BY <1>1, <1>2, <2>1, <2>2, NothingSpent, StaysTripped DEF GuardInvariant
<1>4. CASE ~OverBudget /\ Go(c, "breaker") /\ UNCHANGED degraded
  <2>1. pc \in [Callers -> Places] /\ pc' = [pc EXCEPT ![c] = "breaker"]
    BY <1>4 DEF GuardInvariant, GuardType, Go
  <2>2. pc' \in [Callers -> Places] /\ \A d \in Callers : pc'[d] = "request" <=> pc[d] = "request"
    BY <1>1, <2>1 DEF Places
  <2>3. GuardType'
    BY <1>1, <1>2, <1>4, <2>2 DEF GuardInvariant, GuardType
  <2>4. Requesting' = Requesting
    BY <2>2 DEF Requesting
  <2>5. Tripped'
    BY <1>1, <2>4, StaysTripped
  <2>6. Budgeted'
    <3>1. PICK m \in Nat, n \in Nat, t \in Nat, d \in Nat :
            m = MaxUsage /\ n = Cardinality(Callers) /\ t = MaxTurns /\ d = MaxDaily
      BY MaxUsageIsMax, SlotsFinite, GuardAssumption
    <3>2. PICK x \in Nat : x = tokens' /\ x <= d
      BY <1>1, <1>2, <1>4, <3>1, GuardAssumption DEF OverBudget
    <3>3. PICK j \in Nat : j = Cardinality(TurnSlots)' /\ j <= n * t
      <4>1. TurnSlots' \in SUBSET (Callers \X (1..MaxTurns))
        BY DEF TurnSlots
      <4>2. IsFiniteSet(Callers) /\ MaxTurns \in Nat \ {0}
        BY GuardAssumption
      <4>3. IsFiniteSet(1..MaxTurns) /\ Cardinality(1..MaxTurns) = MaxTurns
        BY <4>2, FS_Interval
      <4>4. /\ IsFiniteSet(Callers \X (1..MaxTurns))
            /\ Cardinality(Callers \X (1..MaxTurns)) = n * t
        BY <3>1, <4>2, <4>3, FS_Product
      <4>5. IsFiniteSet(TurnSlots') /\ Cardinality(TurnSlots') <= n * t
        BY <4>1, <4>4, FS_Subset
      <4> QED BY <4>5, FS_CardinalityType
    <3>4. j * m <= n * t * m
      <4>1. PICK a \in Nat : a = n * t
        OBVIOUS
      <4>2. j * m <= a * m
        BY <3>3, <4>1, Scaled
      <4> QED BY <4>1, <4>2
    <3>5. x + j * m <= d + n * t * m
      <4>1. PICK p \in Nat, q \in Nat : p = j * m /\ q = n * t * m
        <5>1. j * m \in Nat /\ n * t * m \in Nat
          OBVIOUS
        <5> QED BY <5>1
      <4>2. p <= q
        BY <3>4, <4>1
      <4>3. x + p <= d + q
        BY <3>2, <4>2, SumBelow
      <4> QED BY <4>1, <4>3
    <3> QED BY <3>1, <3>2, <3>3, <3>5 DEF Budgeted
  <2> QED BY <2>3, <2>5, <2>6 DEF GuardInvariant
<1> QED BY <1>3, <1>4 DEF CheckBudget

\* A caller that passes the breaker keeps the slots it has, and starts its turns.
LEMMA CheckBreakerKeeps ==
  ASSUME GuardInvariant, NEW c \in Callers, CheckBreaker(c)
  PROVE  GuardInvariant'
<1>1. /\ pc[c] = "breaker" /\ turn' = [turn EXCEPT ![c] = 0]
      /\ UNCHANGED <<tokens, newDay, wait, soloOwed>>
  BY DEF CheckBreaker, At
<1>2. /\ pc \in [Callers -> Places] /\ turn \in [Callers -> 0..MaxTurns]
      /\ turn' \in [Callers -> 0..MaxTurns] /\ turn'[c] = 0
      /\ \A d \in Callers \ {c} : turn'[d] = turn[d]
      /\ MaxTurns \in Nat \ {0}
  BY <1>1, GuardAssumption DEF GuardInvariant, GuardType
<1>3. CASE Go(c, "idle") /\ UNCHANGED failures /\ degraded' = "circuit_breaker"
  <2>1. /\ TurnSlots' \subseteq TurnSlots /\ Requesting' = Requesting \ {c}
        /\ pc' \in [Callers -> Places]
        /\ \A d \in Callers : pc'[d] = "request" => d # c /\ pc[d] = "request"
    BY <1>2, <1>3, LeavesRequest DEF Places
  <2>2. GuardType'
    BY <1>1, <1>2, <1>3, <2>1 DEF GuardInvariant, GuardType
  <2>3. tokens' \in Nat /\ tokens' <= tokens
    BY <1>1 DEF GuardInvariant, GuardType
  <2> QED BY <1>3, <2>1, <2>2, <2>3, NothingSpent, StaysTripped DEF GuardInvariant
<1>4. CASE ~Open /\ failures' = CountAtStart /\ Go(c, "request") /\ UNCHANGED degraded
  <2>1. /\ pc' = [pc EXCEPT ![c] = "request"] /\ pc' \in [Callers -> Places]
        /\ \A d \in Callers : pc'[d] = IF d = c THEN "request" ELSE pc[d]
    BY <1>2, <1>4 DEF Go, Places
  <2>2. ASSUME NEW p \in Callers \X (1..MaxTurns),
               pc'[p[1]] = "breaker" \/ (pc'[p[1]] = "request" /\ p[2] > turn'[p[1]])
        PROVE  pc[p[1]] = "breaker" \/ (pc[p[1]] = "request" /\ p[2] > turn[p[1]])
    BY <1>1, <1>2, <2>1, <2>2
  <2>3. TurnSlots' \subseteq TurnSlots
    BY <2>2 DEF TurnSlots
  <2>4. GuardType'
    <3>1. \A d \in Callers : pc'[d] = "request" => turn'[d] < MaxTurns
      BY <1>2, <2>1 DEF GuardInvariant, GuardType
    <3> QED BY <1>1, <1>2, <1>4, <2>1, <3>1 DEF GuardInvariant, GuardType
  <2>5. tokens' \in Nat /\ tokens' <= tokens
    BY <1>1 DEF GuardInvariant, GuardType
  <2>6. Tripped'
    BY <1>4, GuardAssumption DEF GuardInvariant, Tripped, CountAtStart
  <2> QED BY <2>3, <2>4, <2>5, <2>6, NothingSpent DEF GuardInvariant
<1> QED BY <1>3, <1>4 DEF CheckBreaker

\* A turn spends its slot.
LEMMA AnswerKeeps ==
  ASSUME GuardInvariant, NEW c \in Callers, Answer(c)
  PROVE  GuardInvariant'
<1>1. /\ pc[c] = "request" /\ newDay' = FALSE /\ turn' = [turn EXCEPT ![c] = @ + 1]
      /\ UNCHANGED <<failures, wait, degraded, soloOwed>>
  BY DEF Answer, At
<1>2. PICK u \in Usages : tokens' = Today + u
  BY DEF Answer
<1>3. /\ pc \in [Callers -> Places] /\ turn \in [Callers -> 0..MaxTurns]
      /\ turn[c] < MaxTurns /\ MaxTurns \in Nat \ {0}
  BY <1>1, GuardAssumption DEF GuardInvariant, GuardType
<1>4. /\ turn' \in [Callers -> 0..MaxTurns] /\ turn'[c] = turn[c] + 1
      /\ \A d \in Callers \ {c} : turn'[d] = turn[d]
  BY <1>1, <1>3
<1>5. /\ pc' \in [Callers -> Places] /\ pc'[c] # "breaker"
      /\ \A d \in Callers \ {c} : pc'[d] = pc[d]
      /\ pc'[c] = "request" => turn'[c] < MaxTurns
  <2>1. CASE Go(c, "answered")
    BY <1>3, <2>1 DEF Go, Places
  <2>2. CASE AnotherTurn(c) /\ UNCHANGED pc
    BY <1>1, <1>3, <1>4, <2>2 DEF AnotherTurn
  <2> QED BY <2>1, <2>2 DEF Answer
<1>6. Today \in Nat /\ Today <= tokens /\ u \in Nat /\ u <= MaxUsage
  BY MaxUsageIsMax, GuardAssumption DEF Today, GuardInvariant, GuardType
<1>7. GuardType'
  <2>1. \A d \in Callers : pc'[d] = "request" => turn'[d] < MaxTurns
    BY <1>4, <1>5 DEF GuardInvariant, GuardType
  <2>2. tokens' \in Nat
    BY <1>2, <1>6
  <2> QED BY <1>1, <1>4, <1>5, <2>1, <2>2 DEF GuardInvariant, GuardType
<1>8. Requesting' \subseteq Requesting
  BY <1>1, <1>5 DEF Requesting
<1>9. Tripped'
  BY <1>1, <1>8, StaysTripped
<1> DEFINE slot == <<c, turn[c] + 1>>
<1>10. slot \in TurnSlots
  <2>1. turn[c] + 1 \in 1..MaxTurns
    BY <1>3
  <2> QED BY <1>1, <1>3, <2>1 DEF TurnSlots
<1>11. TurnSlots' \subseteq TurnSlots \ {slot}
  <2>1. SUFFICES ASSUME NEW p \in Callers \X (1..MaxTurns),
                        pc'[p[1]] = "breaker" \/ (pc'[p[1]] = "request" /\ p[2] > turn'[p[1]])
                 PROVE  /\ pc[p[1]] = "breaker" \/ (pc[p[1]] = "request" /\ p[2] > turn[p[1]])
                        /\ p # slot
    BY DEF TurnSlots
  <2>2. CASE p[1] = c
    BY <1>1, <1>3, <1>4, <1>5, <2>1, <2>2
  <2>3. CASE p[1] # c
    BY <1>3, <1>4, <1>5, <2>1, <2>3
  <2> QED BY <2>2, <2>3
<1> HIDE DEF slot
<1>12. PICK k \in Nat, j \in Nat :
         k = Cardinality(TurnSlots) /\ j = Cardinality(TurnSlots)' /\ j < k
  <2>1. IsFiniteSet(TurnSlots) /\ Cardinality(TurnSlots) \in Nat
    BY SlotsFinite
  <2>2. IsFiniteSet(TurnSlots \ {slot}) /\ Cardinality(TurnSlots \ {slot}) = Cardinality(TurnSlots) - 1
    BY <1>10, <2>1, FS_RemoveElement
  <2>3. IsFiniteSet(TurnSlots') /\ Cardinality(TurnSlots') <= Cardinality(TurnSlots \ {slot})
    BY <1>11, <2>2, FS_Subset
  <2>4. Cardinality(TurnSlots') \in Nat
    BY <2>3, FS_CardinalityType
  <2> QED BY <2>1, <2>2, <2>3, <2>4
<1>13. PICK m \in Nat, n \in Nat, t \in Nat, d \in Nat :
         m = MaxUsage /\ n = Cardinality(Callers) /\ t = MaxTurns /\ d = MaxDaily
  BY MaxUsageIsMax, SlotsFinite, GuardAssumption
<1>14. PICK b \in Nat : b = d + n * t * m
  <2>1. d + n * t * m \in Nat
    OBVIOUS
  <2> QED BY <2>1
<1>15. PICK p \in Nat, q \in Nat : p = k * m /\ q = j * m /\ q + m <= p
  <2>1. k * m \in Nat /\ j * m \in Nat /\ j * m + m <= k * m
    BY <1>12, Scaled
  <2> QED BY <2>1
<1>16. PICK x \in Nat, y \in Nat : x = tokens /\ y = tokens' /\ y <= x + m
  BY <1>2, <1>6, <1>13 DEF GuardInvariant, GuardType
<1>17. x + p <= b
  BY <1>12, <1>13, <1>14, <1>15, <1>16 DEF GuardInvariant, Budgeted
<1>18. y + q <= b
  BY <1>15, <1>16, <1>17, Spent
<1>19. Budgeted'
  BY <1>12, <1>13, <1>14, <1>15, <1>16, <1>18 DEF Budgeted
<1> QED BY <1>7, <1>9, <1>19 DEF GuardInvariant

\* A request that fails: one request less in flight, one failure more at most.
LEMMA FailureKeeps ==
  ASSUME GuardInvariant, NEW c \in Callers, RateLimited(c) \/ ApiError(c)
  PROVE  GuardInvariant'
<1>1. /\ pc[c] = "request" /\ Go(c, "degrade")
      /\ UNCHANGED <<tokens, newDay, degraded, turn>>
      /\ failures' = Threshold \/ failures' = failures + 1
  BY DEF RateLimited, ApiError, At, ForcedOpen
<1>2. /\ TurnSlots' \subseteq TurnSlots /\ Requesting' = Requesting \ {c}
      /\ pc' \in [Callers -> Places]
      /\ \A d \in Callers : pc'[d] = "request" => d # c /\ pc[d] = "request"
  BY <1>1, LeavesRequest DEF Places
<1>3. wait' \in Nat /\ soloOwed' \in Nat
  BY GuardAssumption DEF RateLimited, ApiError, Longest, GuardInvariant, GuardType
<1>4. GuardType'
  BY <1>1, <1>2, <1>3 DEF GuardInvariant, GuardType
<1>5. tokens' \in Nat /\ tokens' <= tokens
  BY <1>1 DEF GuardInvariant, GuardType
<1>6. Tripped'
  <2>1. c \in Requesting /\ IsFiniteSet(Requesting)
    BY <1>1, SlotsFinite DEF Requesting
  <2>2. Cardinality(Requesting \ {c}) = Cardinality(Requesting) - 1
    BY <2>1, FS_RemoveElement
  <2>3. PICK r \in Nat, n \in Nat : r = Cardinality(Requesting) /\ n = Cardinality(Callers) /\ r <= n
    BY SlotsFinite
  <2>4. Cardinality(Requesting)' = r - 1
    BY <1>2, <2>2, <2>3
  <2>5. /\ failures \in Nat /\ failures' \in Nat /\ Threshold \in Nat
        /\ failures >= Threshold => failures + r < Threshold + n
    BY <1>1, <2>3, GuardAssumption DEF GuardInvariant, Tripped
  <2>6. failures' + (r - 1) < Threshold + n
    <3>1. CASE failures' = Threshold
      BY <2>3, <2>5, <3>1
    <3>2. CASE failures' = failures + 1 /\ failures >= Threshold
      BY <2>3, <2>5, <3>2
    <3>3. CASE failures' = failures + 1 /\ failures < Threshold
      BY <2>3, <2>5, <3>3
    <3>4. failures >= Threshold \/ failures < Threshold
      BY <2>5
    <3>5. failures' = Threshold \/ failures' = failures + 1
      BY <1>1
    <3> QED BY <3>1, <3>2, <3>3, <3>4, <3>5
  <2>7. failures' + Cardinality(Requesting)' < Threshold + Cardinality(Callers)
    BY <2>3, <2>4, <2>6
  <2> QED BY <2>5, <2>7 DEF Tripped
<1> QED BY <1>2, <1>4, <1>5, <1>6, NothingSpent DEF GuardInvariant

\* The steps that end a call.
LEMMA EndKeeps ==
  ASSUME GuardInvariant, NEW c \in Callers,
         ResetBreaker(c) \/ ClearDegradation(c) \/ Degrade(c) \/ Raise(c)
  PROVE  GuardInvariant'
<1>1. /\ UNCHANGED <<tokens, newDay, wait, turn, soloOwed>>
      /\ failures' = failures \/ failures' = 0
      /\ degraded' \in {degraded, "no", "circuit_breaker"}
      /\ \E place \in Places \ {"breaker", "request"} : Go(c, place)
  BY DEF ResetBreaker, ClearDegradation, Degrade, Raise, Places
<1>2. /\ TurnSlots' \subseteq TurnSlots /\ Requesting' = Requesting \ {c}
      /\ pc' \in [Callers -> Places]
      /\ \A d \in Callers : pc'[d] = "request" => d # c /\ pc[d] = "request"
  BY <1>1, LeavesRequest
<1>3. GuardType'
  BY <1>1, <1>2 DEF GuardInvariant, GuardType
<1>4. tokens' \in Nat /\ tokens' <= tokens /\ Requesting' \subseteq Requesting
  BY <1>1, <1>2 DEF GuardInvariant, GuardType
<1> QED BY <1>1, <1>2, <1>3, <1>4, NothingSpent, StaysTripped DEF GuardInvariant

\* Every step keeps the invariant, one lemma for each kind of step.
LEMMA StepKeepsGuard ==
  ASSUME GuardInvariant, [Next]_gvars
  PROVE  GuardInvariant'
<1>1. CASE Tick \/ Midnight \/ UNCHANGED gvars
  <2>1. UNCHANGED <<tokens, failures, degraded, pc, turn>>
    BY <1>1 DEF Tick, Midnight, gvars
  <2>2. newDay' \in BOOLEAN /\ wait' \in Nat /\ soloOwed' \in Nat
    <3>1. CASE Tick
      BY <3>1 DEF Tick, Shorter, GuardInvariant, GuardType
    <3>2. CASE Midnight
      BY <3>2 DEF Midnight, GuardInvariant, GuardType
    <3>3. CASE UNCHANGED gvars
      BY <3>3 DEF gvars, GuardInvariant, GuardType
    <3> QED BY <1>1, <3>1, <3>2, <3>3
  <2>3. TurnSlots' = TurnSlots /\ Requesting' = Requesting
    BY <2>1 DEF TurnSlots, Requesting
  <2>4. GuardType'
    BY <2>1, <2>2 DEF GuardInvariant, GuardType
  <2>5. tokens' \in Nat /\ tokens' <= tokens
    BY <2>1 DEF GuardInvariant, GuardType
  <2> QED BY <2>1, <2>3, <2>4, <2>5, NothingSpent, StaysTripped DEF GuardInvariant
<1>2. ASSUME NEW c \in Callers, Call(c) PROVE GuardInvariant'
  BY <1>2, CheckBudgetKeeps, CheckBreakerKeeps, AnswerKeeps, FailureKeeps, EndKeeps DEF Call
<1> QED BY <1>1, <1>2 DEF Next

\* The inductive invariant of the guard.
THEOREM GuardInvariantHolds == Spec => []GuardInvariant
BY InitGuard, StepKeepsGuard, PTL DEF Spec

\* "A daily token budget cap prevents runaway costs" (agents/shared/llm.py): it is
\* passed by at most MaxTurns turns of every caller, however calls overlap and
\* wherever midnight falls.
THEOREM OvershootAlwaysBounded == Spec => []BudgetOvershootBounded
<1>1. GuardInvariant => BudgetOvershootBounded
  <2> SUFFICES ASSUME GuardInvariant PROVE BudgetOvershootBounded
    OBVIOUS
  <2>1. PICK m \in Nat, n \in Nat, t \in Nat, d \in Nat, k \in Nat, x \in Nat :
          /\ m = MaxUsage /\ n = Cardinality(Callers) /\ t = MaxTurns /\ d = MaxDaily
          /\ k = Cardinality(TurnSlots) /\ x = tokens
    BY MaxUsageIsMax, SlotsFinite, GuardAssumption DEF GuardInvariant, GuardType
  <2>2. PICK p \in Nat, b \in Nat : p = k * m /\ b = d + n * t * m
    <3>1. k * m \in Nat /\ d + n * t * m \in Nat
      OBVIOUS
    <3> QED BY <3>1
  <2>3. x + p <= b
    BY <2>1, <2>2 DEF GuardInvariant, Budgeted
  <2>4. x <= b
    BY <2>3
  <2> QED BY <2>1, <2>2, <2>4 DEF BudgetOvershootBounded
<1> QED BY <1>1, GuardInvariantHolds, PTL

\* The guard's variables keep their types; in particular the failure count passes
\* the threshold only by requests that were in flight when it was reached.
THEOREM GuardTyped == Spec => []TypeOK
<1>1. GuardInvariant => TypeOK
  <2> SUFFICES ASSUME GuardInvariant PROVE TypeOK
    OBVIOUS
  <2>1. PICK r \in Nat, n \in Nat : r = Cardinality(Requesting) /\ n = Cardinality(Callers)
    BY SlotsFinite
  <2>2. Threshold \in Nat \ {0} /\ failures \in Nat
        /\ (failures >= Threshold => failures + r < Threshold + n)
    BY <2>1, GuardAssumption DEF GuardInvariant, Tripped
  <2>3. failures \in 0..(Threshold + n - 1)
    BY <2>1, <2>2
  <2> QED BY <2>1, <2>3 DEF GuardInvariant, GuardType, TypeOK
<1> QED BY <1>1, GuardInvariantHolds, PTL

-----------------------------------------------------------------------------
(* A Retry-After received alone.  What is owed is what is left of it: while *)
(* anything is owed the breaker is open for at least as long, and, as no    *)
(* request passes an open breaker, none is in flight that could close it.   *)

Owed == soloOwed > 0 => failures >= Threshold /\ wait >= soloOwed /\ InFlight = {}

OwedInvariant == GuardInvariant /\ Owed

\* A caller with a request in flight shows that nothing is owed.
LEMMA NothingOwed ==
  ASSUME OwedInvariant, NEW c \in Callers, pc[c] \in {"request", "answered"}
  PROVE  soloOwed = 0
<1>1. soloOwed \in Nat
  BY DEF OwedInvariant, GuardInvariant, GuardType
<1>2. c \in InFlight
  BY DEF InFlight
<1> QED BY <1>1, <1>2 DEF OwedInvariant, Owed

\* A step of a caller: what it owes is the Retry-After that reopens the breaker.
LEMMA CallKeepsOwed ==
  ASSUME OwedInvariant, NEW c \in Callers, Call(c)
  PROVE  Owed'
<1>1. pc \in [Callers -> Places] /\ soloOwed \in Nat /\ wait \in Nat /\ Threshold \in Nat \ {0}
  BY GuardAssumption DEF OwedInvariant, GuardInvariant, GuardType
<1>2. ASSUME NEW place \in {"idle", "breaker", "clear", "degrade"}, Go(c, place)
      PROVE  InFlight' = InFlight \ {c}
  BY <1>1, <1>2 DEF Go, InFlight
<1>3. ASSUME ApiError(c) \/ Answer(c) \/ ResetBreaker(c)
      PROVE  Owed'
  <2>1. pc[c] \in {"request", "answered"}
    BY <1>3 DEF ApiError, Answer, ResetBreaker, At
  <2>2. soloOwed' = 0
    BY <1>3, <2>1, NothingOwed DEF ApiError, Answer, ResetBreaker
  <2> QED BY <2>2 DEF Owed
<1>4. ASSUME RateLimited(c) PROVE Owed'
  <2>1. pc[c] = "request" /\ Go(c, "degrade") /\ failures' = Threshold
    BY <1>4 DEF RateLimited, At, ForcedOpen
  <2>2. soloOwed = 0
    BY <2>1, NothingOwed
  <2>3. PICK w \in RetryAfters :
          wait' = w /\ soloOwed' = IF InFlight = {c} THEN Longest(soloOwed, w) ELSE soloOwed
    BY <1>4 DEF RateLimited
  <2>4. w \in Nat \ {0}
    BY GuardAssumption
  <2>5. CASE InFlight = {c}
    <3>1. InFlight' = {} /\ soloOwed' = w
      BY <1>2, <2>1, <2>2, <2>3, <2>4, <2>5 DEF Longest
    <3> QED BY <1>1, <2>1, <2>3, <2>4, <3>1 DEF Owed
  <2>6. CASE InFlight # {c}
    BY <2>2, <2>3, <2>6 DEF Owed
  <2> QED BY <2>5, <2>6
<1>5. ASSUME CheckBudget(c) \/ ClearDegradation(c) \/ Degrade(c) \/ Raise(c)
      PROVE  Owed'
  <2>1. /\ UNCHANGED <<failures, wait, soloOwed>>
        /\ UNCHANGED pc \/ Go(c, "breaker") \/ Go(c, "idle")
    BY <1>5 DEF CheckBudget, ClearDegradation, Degrade, Raise
  <2>2. InFlight' \subseteq InFlight
    BY <1>2, <2>1 DEF InFlight
  <2> QED BY <2>1, <2>2 DEF OwedInvariant, Owed
<1>6. ASSUME CheckBreaker(c) PROVE Owed'
  <2>1. CASE Open
    <3>1. UNCHANGED <<failures, wait, soloOwed>> /\ Go(c, "idle")
      BY <1>6, <2>1 DEF CheckBreaker
    <3>2. InFlight' \subseteq InFlight
      BY <1>2, <3>1
    <3> QED BY <3>1, <3>2 DEF OwedInvariant, Owed
  <2>2. CASE ~Open
    <3>1. soloOwed' = soloOwed
      BY <1>6 DEF CheckBreaker
    <3>2. soloOwed = 0
      BY <1>1, <2>2 DEF Open, OwedInvariant, Owed
    <3> QED BY <3>1, <3>2 DEF Owed
  <2> QED BY <2>1, <2>2
<1> QED BY <1>3, <1>4, <1>5, <1>6 DEF Call

\* Time takes as much from what is owed as from the pause.
LEMMA StepKeepsOwed ==
  ASSUME OwedInvariant, [Next]_gvars
  PROVE  OwedInvariant'
<1>1. soloOwed \in Nat /\ wait \in Nat
  BY DEF OwedInvariant, GuardInvariant, GuardType
<1>2. CASE Tick
  <2>1. UNCHANGED <<failures, pc>> /\ wait' = Shorter(wait) /\ soloOwed' = Shorter(soloOwed)
    BY <1>2 DEF Tick
  <2>2. InFlight' = InFlight
    BY <2>1 DEF InFlight
  <2>3. soloOwed' > 0 => soloOwed > 0 /\ (wait >= soloOwed => wait' >= soloOwed')
    BY <1>1, <2>1 DEF Shorter
  <2> QED BY <1>2, <2>1, <2>2, <2>3, StepKeepsGuard DEF OwedInvariant, Owed
<1>3. CASE Midnight \/ UNCHANGED gvars
  <2>1. UNCHANGED <<failures, wait, pc, soloOwed>>
    BY <1>3 DEF Midnight, gvars
  <2>2. InFlight' = InFlight
    BY <2>1 DEF InFlight
  <2> QED BY <2>1, <2>2, StepKeepsGuard DEF OwedInvariant, Owed
<1>4. CASE \E c \in Callers : Call(c)
  BY <1>4, CallKeepsOwed, StepKeepsGuard DEF OwedInvariant
<1> QED BY <1>2, <1>3, <1>4 DEF Next

\* The invariant of the Retry-After.
THEOREM OwedInvariantHolds == Spec => []OwedInvariant
<1>1. Init => OwedInvariant
  BY InitGuard DEF Init, OwedInvariant, Owed
<1> QED BY <1>1, StepKeepsOwed, PTL DEF Spec

\* The breaker opens "immediately on HTTP 429 with Retry-After" (docs/README.md): no
\* request starts while a Retry-After received alone is running, whatever the other
\* callers do meanwhile.
THEOREM RetryAfterAlwaysHonoured == Spec => SoloRetryAfterHonoured
<1>1. ASSUME OwedInvariant, [Next]_gvars PROVE [RequestStarts => soloOwed = 0]_gvars
  <2> SUFFICES ASSUME Next, RequestStarts PROVE soloOwed = 0
    BY <1>1
  <2>1. PICK c \in Callers : pc[c] = "breaker" /\ pc'[c] = "request"
    BY DEF RequestStarts
  <2>2. /\ pc \in [Callers -> Places] /\ soloOwed \in Nat /\ wait \in Nat
    BY <1>1 DEF OwedInvariant, GuardInvariant, GuardType
  <2>3. ~ UNCHANGED pc
    BY <2>1
  <2>4. PICK d \in Callers : Call(d)
    BY <2>3 DEF Next, Tick, Midnight
  <2>5. d = c
    BY <2>1, <2>2, <2>3, <2>4
       DEF Call, CheckBudget, CheckBreaker, Answer, ResetBreaker, ClearDegradation,
           RateLimited, ApiError, Degrade, Raise, Go
  <2>6. CheckBreaker(c)
    BY <2>1, <2>4, <2>5
       DEF Call, CheckBudget, Answer, ResetBreaker, ClearDegradation,
           RateLimited, ApiError, Degrade, Raise, At
  <2>7. ~Open
    BY <2>1, <2>2, <2>6 DEF CheckBreaker, Go
  <2> QED BY <1>1, <2>2, <2>7 DEF Open, OwedInvariant, Owed
<1> QED BY <1>1, OwedInvariantHolds, PTL DEF Spec, SoloRetryAfterHonoured

-----------------------------------------------------------------------------
(* The feeds.                                                               *)

AskerStates ==
  [at : {"idle", "queue", "fetch", "store"}, saw : Versions \cup {NoData},
   got : Versions \cup {NoData}, ok : BOOLEAN, waited : 0..TTL]
Entries == [data : Versions \cup {NoData}, age : 0..TTL, tried : 0..Retry]

\* No data is newer than the source.
SourceLeads ==
  /\ entry.data <= latest
  /\ \A c \in Askers : caller[c].saw <= latest /\ caller[c].got <= latest

\* While requests do not overlap, the entry is as the one under way saw it.
LoneAsker ==
  alone => \A c \in Asking : caller[c].saw = entry.data /\ \A d \in Asking : d = c

\* One lock is kept over the lookup and the request, another one over the request.
LocksHold ==
  /\ KeepsLock => \A c, d \in Asking : c = d
  /\ FetchLock => \A c, d \in AskersAt("fetch") \cup AskersAt("store") : c = d

\* Where nothing overlaps, an answer is not older than what it will replace.
AnswersLead ==
  alone \/ Locked
    => \A c \in AskersAt("store") : caller[c].got # NoData => caller[c].got >= entry.data

FeedsInvariant == FeedsTyped /\ SourceLeads /\ LoneAsker /\ LocksHold /\ AnswersLead

\* What a request may leave in the entry: its answer, what its lookup saw, what is
\* there, or nothing; it is well formed.
LEMMA NewEntryData ==
  ASSUME FeedsTyped, NEW c \in Askers
  PROVE  /\ NewEntry(caller[c]) \in Entries
         /\ NewEntry(caller[c]).data \in
              {caller[c].got, entry.data, NoData}
              \cup (IF feed \in {"charts", "quotes", "comparison"} THEN {caller[c].saw} ELSE {})
<1> DEFINE me == caller[c]
<1>1. /\ me \in AskerStates /\ entry \in Entries /\ feed \in FeedNames
      /\ TTL \in Nat /\ Retry \in Nat
  BY FeedsAssumption DEF FeedsTyped, AskerStates, Entries
<1>2. 0 \in 0..TTL /\ 0 \in 0..Retry
  BY <1>1
<1> HIDE DEF me
<1>3. /\ me.got \in Versions \cup {NoData} /\ me.saw \in Versions \cup {NoData}
      /\ me.waited \in 0..TTL /\ entry.data \in Versions \cup {NoData}
  BY <1>1 DEF AskerStates, Entries
<1>4. ASSUME NEW data \in Versions \cup {NoData}, NEW age \in 0..TTL
      PROVE  Stored(data, age) \in Entries /\ Stored(data, age).data = data
  BY <1>2 DEF Stored, Entries
<1>5. [entry EXCEPT !.tried = 0] \in Entries /\ [entry EXCEPT !.tried = 0].data = entry.data
  BY <1>1, <1>2 DEF Entries
<1>6. /\ StoreOrKeepSeen(me) \in Entries
      /\ StoreOrKeepSeen(me).data \in {me.got, me.saw}
  BY <1>2, <1>3, <1>4 DEF StoreOrKeepSeen, Else
<1>7. /\ StoreAnswerOrKeepSeen(me) \in Entries
      /\ StoreAnswerOrKeepSeen(me).data \in {me.got, me.saw}
  BY <1>2, <1>3, <1>4 DEF StoreAnswerOrKeepSeen
<1>8. /\ StoreAnswer(me) \in Entries
      /\ StoreAnswer(me).data \in {me.got, entry.data}
  BY <1>1, <1>3, <1>4 DEF StoreAnswer
<1>9. /\ StoreOrKeepCurrent(me) \in Entries
      /\ StoreOrKeepCurrent(me).data \in {me.got, entry.data, NoData}
  BY <1>2, <1>3, <1>4, <1>5 DEF StoreOrKeepCurrent
<1>10. StoreWhatCame(me) \in Entries /\ StoreWhatCame(me).data = me.got
  BY <1>2, <1>3, <1>4 DEF StoreWhatCame
<1>11. CASE feed \in {"charts", "quotes"}
  BY <1>6, <1>11 DEF NewEntry, NegativeRetry, me
<1>12. CASE feed = "comparison"
  BY <1>7, <1>12 DEF NewEntry, NegativeRetry, me
<1>13. CASE feed = "macro"
  BY <1>8, <1>13 DEF NewEntry, NegativeRetry, me
<1>14. CASE NegativeRetry
  BY <1>9, <1>14 DEF NewEntry, NegativeRetry, me
<1>15. CASE feed \notin {"charts", "quotes", "comparison", "macro"} /\ ~NegativeRetry
  BY <1>10, <1>15 DEF NewEntry, me
<1> QED BY <1>11, <1>12, <1>13, <1>14, <1>15

\* Initially no entry, no request.
LEMMA FeedsInvariantInit == FeedsInit => FeedsInvariant
<1> SUFFICES ASSUME FeedsInit PROVE FeedsInvariant
  OBVIOUS
<1>1. TTL \in Nat /\ Retry \in Nat /\ MaxFailures \in Nat /\ YfPause \in Nat
      /\ MaxVersion \in Nat \ {0} /\ MaxEvictions \in Nat
  BY FeedsAssumption
<1>2. /\ Asking = {} /\ AskersAt("fetch") = {} /\ AskersAt("store") = {}
      /\ \A c \in Askers : caller[c] = Idle
  BY DEF FeedsInit, Asking, AskersAt, Idle
<1>3. FeedsTyped
  BY <1>1 DEF FeedsInit, FeedsTyped, Idle, NoData, Versions
<1> QED BY <1>2, <1>3 DEF FeedsInit, FeedsInvariant, SourceLeads, LoneAsker, LocksHold, AnswersLead,
                          Idle, NoData

\* A lookup that misses.
LEMMA BeginKeeps ==
  ASSUME FeedsInvariant, NEW c \in Askers, Begin(c)
  PROVE  FeedsInvariant'
<1> DEFINE new == [Idle EXCEPT !.at = IF FetchLock THEN "queue" ELSE "fetch",
                               !.saw = entry.data]
<1>1. /\ caller[c] = Idle /\ LockFree /\ caller' = [caller EXCEPT ![c] = new]
      /\ yfFailures' = FailuresSeen /\ alone' = (alone /\ Asking = {})
      /\ sent' \in {0, sent}
      /\ UNCHANGED <<feed, entry, pause, latest, up, evictions>>
  BY DEF Begin, Source
<1>2. /\ caller \in [Askers -> AskerStates] /\ entry \in Entries /\ latest \in Versions
      /\ TTL \in Nat /\ MaxFailures \in Nat /\ yfFailures \in 0..MaxFailures /\ alone \in BOOLEAN
  BY FeedsAssumption DEF FeedsInvariant, FeedsTyped, AskerStates, Entries
<1>3. /\ new \in AskerStates /\ new.at = (IF FetchLock THEN "queue" ELSE "fetch")
      /\ new.saw = entry.data /\ new.got = NoData
  <2>1. entry.data \in Versions \cup {NoData} /\ 0 \in 0..TTL
    BY <1>2 DEF Entries
  <2>2. Idle \in AskerStates /\ Idle.got = NoData
    BY <2>1 DEF Idle, AskerStates
  <2>3. (IF FetchLock THEN "queue" ELSE "fetch") \in {"idle", "queue", "fetch", "store"}
    OBVIOUS
  <2> QED BY <2>1, <2>2, <2>3 DEF AskerStates
<1> HIDE DEF new
<1>4. /\ caller' \in [Askers -> AskerStates] /\ caller'[c] = new
      /\ \A d \in Askers : d # c => caller'[d] = caller[d]
  BY <1>1, <1>2, <1>3
<1>5. Asking' = Asking \cup {c} /\ AskersAt("store")' = AskersAt("store")
      /\ (FetchLock => AskersAt("fetch")' = AskersAt("fetch"))
  BY <1>1, <1>3, <1>4 DEF Asking, AskersAt, Idle
<1>6. FeedsTyped'
  <2>1. sent' \in 0..TTL
    BY <1>1, <1>2 DEF FeedsInvariant, FeedsTyped
  <2> QED BY <1>1, <1>2, <1>4, <2>1 DEF FeedsInvariant, FeedsTyped, AskerStates, FailuresSeen
<1>7. SourceLeads'
  BY <1>1, <1>2, <1>3, <1>4 DEF FeedsInvariant, SourceLeads, NoData, Versions
<1>8. LoneAsker'
  BY <1>1, <1>3, <1>4, <1>5 DEF FeedsInvariant, LoneAsker
<1>9. LocksHold'
  BY <1>1, <1>5 DEF FeedsInvariant, LocksHold, LockFree, Locked, KeepsLock, FetchLock
<1>10. AnswersLead'
  BY <1>1, <1>3, <1>4, <1>5 DEF FeedsInvariant, AnswersLead, AskersAt, Locked, KeepsLock, FetchLock
<1> QED BY <1>6, <1>7, <1>8, <1>9, <1>10 DEF FeedsInvariant

\* The fetch lock is free.
LEMMA EnterKeeps ==
  ASSUME FeedsInvariant, NEW c \in Askers, Enter(c)
  PROVE  FeedsInvariant'
<1> DEFINE new == IF StillNeeded THEN [caller[c] EXCEPT !.at = "fetch"] ELSE Idle
<1>1. /\ caller[c].at = "queue" /\ AskersAt("fetch") \cup AskersAt("store") = {}
      /\ caller' = [caller EXCEPT ![c] = new] /\ sent' \in {0, sent}
      /\ UNCHANGED <<feed, entry, yfFailures, pause, latest, up, evictions, alone>>
  BY DEF Enter, Fetching, Breaker, Source
<1>2. /\ caller \in [Askers -> AskerStates] /\ latest \in Versions /\ TTL \in Nat
  BY FeedsAssumption DEF FeedsInvariant, FeedsTyped, AskerStates
<1>3. /\ new \in AskerStates
      /\ \/ new.at = "fetch" /\ new.saw = caller[c].saw /\ new.got = caller[c].got
         \/ new.at = "idle" /\ new.saw = NoData /\ new.got = NoData
  BY <1>2 DEF Idle, AskerStates, NoData
<1> HIDE DEF new
<1>4. /\ caller' \in [Askers -> AskerStates] /\ caller'[c] = new
      /\ \A d \in Askers : d # c => caller'[d] = caller[d]
  BY <1>1, <1>2, <1>3
<1>5. /\ c \in Asking /\ Asking' \subseteq Asking
      /\ AskersAt("store")' = {} /\ AskersAt("fetch")' \subseteq {c}
  BY <1>1, <1>3, <1>4 DEF Asking, AskersAt
<1>6. FeedsTyped'
  <2>1. sent' \in 0..TTL
    BY <1>1, <1>2 DEF FeedsInvariant, FeedsTyped
  <2> QED BY <1>1, <1>4, <2>1 DEF FeedsInvariant, FeedsTyped, AskerStates
<1>7. SourceLeads'
  BY <1>1, <1>2, <1>3, <1>4 DEF FeedsInvariant, SourceLeads, NoData, Versions
<1>8. LoneAsker'
  BY <1>1, <1>3, <1>4, <1>5 DEF FeedsInvariant, LoneAsker, Asking
<1>9. LocksHold'
  BY <1>1, <1>5 DEF FeedsInvariant, LocksHold, Locked, KeepsLock, FetchLock
<1>10. AnswersLead'
  BY <1>5 DEF AnswersLead
<1> QED BY <1>6, <1>7, <1>8, <1>9, <1>10 DEF FeedsInvariant

\* The source answers, with what it has, with nothing, or not at all.
LEMMA RespondKeeps ==
  ASSUME FeedsInvariant, NEW c \in Askers, Respond(c)
  PROVE  FeedsInvariant'
<1>1. PICK got \in {latest, NoData}, ok \in BOOLEAN :
        /\ Answered(c, got, ok)
        /\ IF UsesBreaker THEN RecordSuccess \/ RecordFailure ELSE UNCHANGED Breaker
  BY DEF Respond
<1> DEFINE new == [caller[c] EXCEPT !.at = "store", !.got = got, !.ok = ok]
<1>2. /\ caller[c].at = "fetch" /\ caller' = [caller EXCEPT ![c] = new]
      /\ UNCHANGED <<feed, entry, latest, up, evictions, alone, sent>>
  BY <1>1 DEF Respond, Answered, Source
<1>3. /\ caller \in [Askers -> AskerStates] /\ latest \in Versions /\ entry \in Entries
      /\ MaxFailures \in Nat \ {0} /\ yfFailures \in 0..MaxFailures
      /\ YfPause \in Nat /\ pause \in 0..YfPause
  BY FeedsAssumption DEF FeedsInvariant, FeedsTyped, AskerStates, Entries
<1>4. /\ new \in AskerStates /\ new.at = "store" /\ new.saw = caller[c].saw /\ new.got = got
  BY <1>3 DEF AskerStates
<1> HIDE DEF new
<1>5. /\ caller' \in [Askers -> AskerStates] /\ caller'[c] = new
      /\ \A d \in Askers : d # c => caller'[d] = caller[d]
  BY <1>2, <1>3, <1>4
<1>6. /\ c \in Asking /\ Asking' = Asking /\ c \in AskersAt("fetch")
      /\ AskersAt("store")' = AskersAt("store") \cup {c}
      /\ AskersAt("fetch")' \subseteq AskersAt("fetch")
  BY <1>2, <1>4, <1>5 DEF Asking, AskersAt
<1>7. yfFailures' \in 0..MaxFailures /\ pause' \in 0..YfPause
  BY <1>1, <1>3 DEF RecordSuccess, RecordFailure, Breaker
<1>8. FeedsTyped'
  BY <1>2, <1>5, <1>7 DEF FeedsInvariant, FeedsTyped, AskerStates
<1>9. SourceLeads'
  BY <1>2, <1>3, <1>4, <1>5 DEF FeedsInvariant, SourceLeads, NoData, Versions
<1>10. LoneAsker'
  BY <1>2, <1>4, <1>5, <1>6 DEF FeedsInvariant, LoneAsker
<1>11. LocksHold'
  BY <1>2, <1>6 DEF FeedsInvariant, LocksHold, Locked, KeepsLock, FetchLock
<1>12. AnswersLead'
  BY <1>2, <1>4, <1>5, <1>6 DEF FeedsInvariant, AnswersLead, SourceLeads, AskersAt, Locked, KeepsLock, FetchLock
<1> QED BY <1>8, <1>9, <1>10, <1>11, <1>12 DEF FeedsInvariant

\* A request ends.
LEMMA StoreKeeps ==
  ASSUME FeedsInvariant, NEW c \in Askers, Store(c)
  PROVE  FeedsInvariant'
<1>1. /\ caller[c].at = "store" /\ caller' = [caller EXCEPT ![c] = Idle]
      /\ entry' = NewEntry(caller[c]) /\ sent' \in {TTL, sent}
      /\ UNCHANGED <<feed, yfFailures, pause, latest, up, evictions, alone>>
  BY DEF Store, Breaker, Source
<1>2. /\ caller \in [Askers -> AskerStates] /\ latest \in Versions /\ TTL \in Nat
  BY FeedsAssumption DEF FeedsInvariant, FeedsTyped, AskerStates
<1>3. Idle \in AskerStates /\ Idle.at = "idle" /\ Idle.saw = NoData /\ Idle.got = NoData
  BY <1>2 DEF Idle, AskerStates, NoData
<1>4. /\ caller' \in [Askers -> AskerStates] /\ caller'[c] = Idle
      /\ \A d \in Askers : d # c => caller'[d] = caller[d]
  BY <1>1, <1>2, <1>3
<1>5. /\ entry' \in Entries
      /\ entry'.data \in {caller[c].got, caller[c].saw, entry.data, NoData}
  BY <1>1, NewEntryData DEF FeedsInvariant
<1>6. /\ c \in Asking /\ Asking' = Asking \ {c} /\ c \in AskersAt("store")
      /\ AskersAt("store")' = AskersAt("store") \ {c}
      /\ AskersAt("fetch")' \subseteq AskersAt("fetch")
  BY <1>1, <1>3, <1>4 DEF Asking, AskersAt
<1>7. FeedsTyped'
  <2>1. sent' \in 0..TTL
    BY <1>1, <1>2 DEF FeedsInvariant, FeedsTyped
  <2> QED BY <1>1, <1>4, <1>5, <2>1 DEF FeedsInvariant, FeedsTyped, AskerStates, Entries
<1>8. SourceLeads'
  BY <1>1, <1>2, <1>3, <1>4, <1>5 DEF FeedsInvariant, SourceLeads, NoData, Versions
<1>9. LoneAsker'
  BY <1>1, <1>6 DEF FeedsInvariant, LoneAsker
<1>10. LocksHold'
  BY <1>1, <1>6 DEF FeedsInvariant, LocksHold, Locked, KeepsLock, FetchLock
<1>11. AnswersLead'
  <2>1. ASSUME alone \/ KeepsLock \/ FetchLock PROVE AskersAt("store")' = {}
    BY <1>6, <2>1 DEF FeedsInvariant, LoneAsker, LocksHold, Asking, AskersAt
  <2> QED BY <1>1, <2>1 DEF AnswersLead, Locked, KeepsLock, FetchLock
<1> QED BY <1>7, <1>8, <1>9, <1>10, <1>11 DEF FeedsInvariant

\* The steps of the world: the other users of the breaker, another batch, time, the
\* source.
LEMMA WorldKeeps ==
  ASSUME FeedsInvariant, Elsewhere \/ Evict \/ FeedsTick \/ Publish \/ Outage
  PROVE  FeedsInvariant'
<1>1. /\ caller \in [Askers -> AskerStates] /\ latest \in Versions /\ entry \in Entries
      /\ MaxFailures \in Nat \ {0} /\ yfFailures \in 0..MaxFailures
      /\ YfPause \in Nat /\ pause \in 0..YfPause /\ up \in BOOLEAN
      /\ TTL \in Nat /\ Retry \in Nat /\ MaxVersion \in Nat /\ MaxEvictions \in Nat
      /\ evictions \in 0..MaxEvictions
  BY FeedsAssumption DEF FeedsInvariant, FeedsTyped, AskerStates, Entries
<1>2. CASE Elsewhere
  <2>1. UNCHANGED <<feed, entry, caller, latest, up, evictions, alone, sent>>
    BY <1>2 DEF Elsewhere, Source
  <2>2. yfFailures' \in 0..MaxFailures /\ pause' \in 0..YfPause
    BY <1>1, <1>2 DEF Elsewhere, RecordSuccess, RecordFailure, FailuresSeen
  <2> QED BY <2>1, <2>2 DEF FeedsInvariant, FeedsTyped, SourceLeads, LoneAsker, LocksHold,
                           AnswersLead, Asking, AskersAt, Locked, KeepsLock, FetchLock
<1>3. CASE Evict
  <2>1. /\ feed \in {"quotes", "correlation", "sectors"} /\ evictions' = evictions + 1
        /\ evictions < MaxEvictions /\ alone' = FALSE /\ sent' = TTL
        /\ UNCHANGED <<feed, caller, yfFailures, pause, latest, up>>
    BY <1>3 DEF Evict, Breaker, Source
  <2>2. PICK data \in {NoData, entry.data} :
          entry' = [data |-> data, age |-> TTL, tried |-> Retry]
    BY <1>3 DEF Evict
  <2>3. entry' \in Entries /\ entry'.data \in Nat /\ entry'.data <= entry.data
        /\ entry.data \in Nat
    BY <1>1, <2>2 DEF Entries, NoData, Versions
  <2>4. \A c \in Askers : caller[c].got \in Nat
    BY <1>1 DEF AskerStates, NoData, Versions
  <2>5. FeedsTyped'
    <3>1. evictions' \in 0..MaxEvictions /\ sent' \in 0..TTL
      BY <1>1, <2>1
    <3> QED BY <2>1, <2>3, <3>1 DEF FeedsInvariant, FeedsTyped, Entries
  <2>6. SourceLeads'
    <3>1. entry'.data <= latest
      BY <1>1, <2>3 DEF FeedsInvariant, SourceLeads, Versions
    <3> QED BY <2>1, <3>1 DEF FeedsInvariant, SourceLeads
  <2>7. LoneAsker' /\ LocksHold'
    BY <2>1 DEF FeedsInvariant, LoneAsker, LocksHold, Locked, KeepsLock, FetchLock, Asking, AskersAt
  <2>8. AnswersLead'
    <3>1. /\ alone' \/ KeepsLock' \/ FetchLock' => KeepsLock \/ FetchLock
          /\ AskersAt("store")' = AskersAt("store")
      BY <2>1 DEF Locked, KeepsLock, FetchLock, AskersAt
    <3>2. ASSUME NEW c \in AskersAt("store"), caller[c].got # NoData, KeepsLock \/ FetchLock
          PROVE  caller[c].got >= entry'.data
      <4>1. caller[c].got >= entry.data /\ caller[c].got \in Nat
        BY <2>4, <3>2 DEF FeedsInvariant, AnswersLead, Locked, AskersAt
      <4> QED BY <2>3, <4>1
    <3> QED BY <2>1, <3>1, <3>2 DEF AnswersLead, Locked
  <2> QED BY <2>5, <2>6, <2>7, <2>8 DEF FeedsInvariant
<1>4. CASE FeedsTick
  <2>1. /\ entry' = [entry EXCEPT !.age = Older(@, TTL), !.tried = Older(@, Retry)]
        /\ pause' = IF pause > 0 THEN pause - 1 ELSE 0
        /\ sent' = Older(sent, TTL)
        /\ UNCHANGED <<feed, yfFailures, latest, up, evictions, alone>>
    BY <1>4 DEF FeedsTick, Source
  <2>2. entry' \in Entries /\ entry'.data = entry.data
    <3>1. entry.age \in 0..TTL /\ entry.tried \in 0..Retry
      BY <1>1 DEF Entries
    <3>2. Older(entry.age, TTL) \in 0..TTL /\ Older(entry.tried, Retry) \in 0..Retry
      BY <1>1, <3>1 DEF Older
    <3> QED BY <1>1, <2>1, <3>2 DEF Entries
  <2>3. pause' \in 0..YfPause
    BY <1>1, <2>1
  <2>4. ASSUME NEW c \in Askers
        PROVE  /\ caller'[c] \in AskerStates /\ caller'[c].at = caller[c].at
               /\ caller'[c].saw = caller[c].saw /\ caller'[c].got = caller[c].got
    BY <1>1, <1>4 DEF FeedsTick, AskerStates, Older
  <2>5. caller' \in [Askers -> AskerStates]
    BY <1>4, <2>4 DEF FeedsTick
  <2>6. Asking' = Asking /\ \A place : AskersAt(place)' = AskersAt(place)
    BY <2>4 DEF Asking, AskersAt
  <2>7. FeedsTyped'
    <3>1. sent' \in 0..TTL
      BY <1>1, <2>1 DEF FeedsInvariant, FeedsTyped, Older
    <3> QED BY <2>1, <2>2, <2>3, <2>5, <3>1 DEF FeedsInvariant, FeedsTyped, AskerStates, Entries
  <2>8. SourceLeads' /\ LoneAsker'
    BY <2>1, <2>2, <2>4, <2>6 DEF FeedsInvariant, SourceLeads, LoneAsker, Asking
  <2>9. LocksHold' /\ AnswersLead'
    BY <2>1, <2>2, <2>4, <2>6 DEF FeedsInvariant, LocksHold, AnswersLead, Locked, KeepsLock, FetchLock,
                                 AskersAt
  <2> QED BY <2>7, <2>8, <2>9 DEF FeedsInvariant
<1>5. CASE Publish
  <2>1. /\ latest < MaxVersion /\ latest' = latest + 1
        /\ UNCHANGED <<feed, entry, caller, yfFailures, pause, up, evictions, alone, sent>>
    BY <1>5 DEF Publish, Breaker
  <2>2. latest' \in Versions
    BY <1>1, <2>1 DEF Versions
  <2>3. SourceLeads'
    BY <1>1, <2>1 DEF FeedsInvariant, SourceLeads, Versions, NoData, Entries, AskerStates
  <2> QED BY <2>1, <2>2, <2>3 DEF FeedsInvariant, FeedsTyped, LoneAsker, LocksHold,
                           AnswersLead, Asking, AskersAt, Locked, KeepsLock, FetchLock
<1>6. CASE Outage
  <2>1. up' \in BOOLEAN
        /\ UNCHANGED <<feed, entry, caller, yfFailures, pause, latest, evictions, alone,
                      sent>>
    BY <1>1, <1>6 DEF Outage, Breaker
  <2> QED BY <2>1 DEF FeedsInvariant, FeedsTyped, SourceLeads, LoneAsker, LocksHold,
                           AnswersLead, Asking, AskersAt, Locked, KeepsLock, FetchLock
<1> QED BY <1>2, <1>3, <1>4, <1>5, <1>6

\* Every step keeps the invariant.
LEMMA StepKeepsFeeds == FeedsInvariant /\ [FeedsNext]_fvars => FeedsInvariant'
<1> SUFFICES ASSUME FeedsInvariant, [FeedsNext]_fvars PROVE FeedsInvariant'
  OBVIOUS
<1>1. ASSUME NEW c \in Askers, Ask(c) PROVE FeedsInvariant'
  BY <1>1, BeginKeeps, EnterKeeps, RespondKeeps, StoreKeeps DEF Ask
<1>2. CASE Elsewhere \/ Evict \/ FeedsTick \/ Publish \/ Outage
  BY <1>2, WorldKeeps
<1>3. CASE UNCHANGED fvars
  BY <1>3 DEF fvars, FeedsInvariant, FeedsTyped, SourceLeads, LoneAsker, LocksHold,
              AnswersLead, Asking, AskersAt, Locked, KeepsLock, FetchLock
<1> QED BY <1>1, <1>2, <1>3 DEF FeedsNext

\* The invariant of the caches holds of any feed, any number of threads.
THEOREM FeedsInvariantHolds == FeedsSpec => []FeedsInvariant
BY FeedsInvariantInit, StepKeepsFeeds, PTL DEF FeedsSpec

\* Only the end of a request and another batch change the data of the entry.
LEMMA DataUnmoved ==
  ASSUME FeedsInvariant, [FeedsNext]_fvars, entry'.data # entry.data
  PROVE  (\E c \in Askers : Store(c)) \/ Evict
<1>1. entry \in Entries
  BY DEF FeedsInvariant, FeedsTyped, Entries
<1>2. ~FeedsTick
  BY <1>1 DEF FeedsTick, Entries
<1> QED BY <1>2 DEF FeedsNext, Ask, Begin, Enter, Respond, Elsewhere, Publish, Outage, fvars

\* What a failed fetch leaves of known data.
LEMMA StoreKeepsData ==
  ASSUME FeedsInvariant, NEW c \in Askers, Store(c), entry.data # NoData,
         \/ NegativeRetry
         \/ alone' /\ feed \in {"charts", "quotes"}
         \/ alone' /\ feed = "comparison" /\ StoresError
         \/ KeepsLock /\ StoresError
  PROVE  entry'.data # NoData
<1>1. /\ caller[c].at = "store" /\ caller' = [caller EXCEPT ![c] = Idle]
      /\ entry' = NewEntry(caller[c]) /\ alone' = alone
      /\ caller \in [Askers -> AskerStates] /\ entry \in Entries
  BY DEF Store, FeedsInvariant, FeedsTyped, AskerStates, Entries
<1>2. alone => caller[c].saw = entry.data
  BY <1>1 DEF FeedsInvariant, LoneAsker, Asking
<1>3. CASE NegativeRetry
  <2>1. entry' = StoreOrKeepCurrent(caller[c])
    BY <1>1, <1>3 DEF NewEntry, NegativeRetry
  <2> QED BY <1>1, <2>1 DEF StoreOrKeepCurrent, Stored, Entries
<1>4. CASE alone' /\ feed \in {"charts", "quotes"}
  <2>1. entry' = StoreOrKeepSeen(caller[c])
    BY <1>1, <1>4 DEF NewEntry, NegativeRetry
  <2> QED BY <1>1, <1>2, <1>4, <2>1 DEF StoreOrKeepSeen, Stored, Else
<1>5. CASE alone' /\ feed = "comparison" /\ StoresError
  <2>1. entry' = StoreAnswerOrKeepSeen(caller[c])
    BY <1>1, <1>5 DEF NewEntry, NegativeRetry
  <2>2. PICK d \in Askers : caller[d].at = "store" /\ ~caller[d].ok /\ caller'[d].at = "idle"
    BY <1>5 DEF StoresError
  <2>3. d = c
    BY <1>1, <2>2
  <2> QED BY <1>1, <1>2, <1>5, <2>1, <2>2, <2>3 DEF StoreAnswerOrKeepSeen, Stored
<1>6. CASE KeepsLock /\ StoresError
  <2>1. entry' = StoreAnswer(caller[c])
    BY <1>1, <1>6 DEF NewEntry, NegativeRetry, KeepsLock
  <2>2. PICK d \in Askers : caller[d].at = "store" /\ ~caller[d].ok /\ caller'[d].at = "idle"
    BY <1>6 DEF StoresError
  <2>3. d = c
    BY <1>1, <2>2
  <2> QED BY <2>1, <2>2, <2>3 DEF StoreAnswer
<1> QED BY <1>3, <1>4, <1>5, <1>6

\* An outage never erases what a feed that promises stale data knew, for any number
\* of threads, lifetimes and versions.
THEOREM KnownGoodAlwaysKept == FeedsSpec => KnownGoodKept
<1> DEFINE Kept ==
      /\ entry.data # NoData
      /\ \/ NegativeRetry
         \/ alone' /\ feed \in {"charts", "quotes"}
         \/ alone' /\ feed = "comparison" /\ StoresError
         \/ KeepsLock /\ StoresError
      => entry'.data # NoData
<1>1. ASSUME FeedsInvariant, [FeedsNext]_fvars PROVE Kept
  <2> SUFFICES ASSUME entry.data # NoData, entry'.data = NoData,
                      \/ NegativeRetry
                      \/ alone' /\ feed \in {"charts", "quotes"}
                      \/ alone' /\ feed = "comparison" /\ StoresError
                      \/ KeepsLock /\ StoresError
               PROVE  FALSE
    OBVIOUS
  <2>1. CASE \E c \in Askers : Store(c)
    BY <1>1, <2>1, StoreKeepsData
  <2>2. CASE Evict
    BY <2>2 DEF Evict, NegativeRetry, KeepsLock
  <2> QED BY <1>1, <2>1, <2>2, DataUnmoved
<1>2. FeedsInvariant /\ [FeedsNext]_fvars => [Kept]_fvars
  BY <1>1
<1> HIDE DEF Kept
<1>3. FeedsSpec => [][Kept]_fvars
  BY <1>2, FeedsInvariantHolds, PTL DEF FeedsSpec
<1> QED BY <1>3 DEF KnownGoodKept, Kept

\* Data is never replaced by older data where requests cannot overlap or did not.
THEOREM NeverGetsOlder == FeedsSpec => NeverOlder
<1> DEFINE Newer == (alone' \/ Locked) /\ entry'.data # NoData
                    => entry'.data >= entry.data
<1>1. ASSUME FeedsInvariant, [FeedsNext]_fvars PROVE Newer
  <2> SUFFICES ASSUME alone' \/ Locked, entry'.data # NoData
               PROVE  entry'.data >= entry.data
    OBVIOUS
  <2>1. entry.data \in Nat
    BY <1>1 DEF FeedsInvariant, FeedsTyped, Versions, NoData
  <2>2. ASSUME NEW c \in Askers, Store(c) PROVE entry'.data >= entry.data
    <3>1. /\ caller[c].at = "store" /\ alone' = alone /\ entry' = NewEntry(caller[c])
      BY <2>2 DEF Store
    <3>2. entry'.data \in {caller[c].got, entry.data, NoData}
                     \cup (IF feed \in {"charts", "quotes", "comparison"}
                           THEN {caller[c].saw} ELSE {})
      BY <1>1, <3>1, NewEntryData DEF FeedsInvariant
    <3>3. CASE entry'.data = caller[c].got
      BY <1>1, <3>1, <3>3 DEF FeedsInvariant, AnswersLead, AskersAt
    <3>4. CASE feed \in {"charts", "quotes", "comparison"} /\ entry'.data = caller[c].saw
      <4>1. alone
        BY <3>1, <3>4 DEF Locked, KeepsLock, FetchLock
      <4> QED BY <1>1, <2>1, <3>1, <3>4, <4>1 DEF FeedsInvariant, LoneAsker, Asking
    <3> QED BY <2>1, <3>2, <3>3, <3>4
  <2>3. CASE Evict
    <3>1. entry'.data \in {NoData, entry.data}
      BY <2>3 DEF Evict
    <3> QED BY <2>1, <3>1
  <2>4. CASE entry'.data = entry.data
    BY <2>1, <2>4
  <2> QED BY <1>1, <2>2, <2>3, <2>4, DataUnmoved
<1>2. FeedsInvariant /\ [FeedsNext]_fvars => [Newer]_fvars
  BY <1>1
<1> HIDE DEF Newer
<1>3. FeedsSpec => [][Newer]_fvars
  BY <1>2, FeedsInvariantHolds, PTL DEF FeedsSpec
<1> QED BY <1>3 DEF NeverOlder, Newer

\* Of the locked feeds: between requests the entry is no older than the request it
\* came from; macro dates its answer back to the request.
SentBounds ==
  /\ Locked /\ Fetching = {} => entry.age <= sent
  /\ KeepsLock => \A c \in Asking : caller[c].waited <= sent

\* A lookup that misses: macro sends its request at once, a caller of sectors waits.
LEMMA BeginKeepsSent ==
  ASSUME FeedsInvariant, SentBounds, NEW c \in Askers, Begin(c)
  PROVE  SentBounds'
<1> DEFINE new == [Idle EXCEPT !.at = IF FetchLock THEN "queue" ELSE "fetch",
                               !.saw = entry.data]
<1>1. /\ LockFree /\ caller[c] = Idle /\ caller' = [caller EXCEPT ![c] = new]
      /\ sent' = (IF KeepsLock THEN 0 ELSE sent) /\ entry' = entry /\ feed' = feed
      /\ caller \in [Askers -> AskerStates]
  BY DEF Begin, FeedsInvariant, FeedsTyped, AskerStates
<1>2. new.at = (IF FetchLock THEN "queue" ELSE "fetch") /\ new.waited = 0
  BY DEF Idle
<1> HIDE DEF new
<1>3. caller'[c] = new /\ \A d \in Askers : d # c => caller'[d] = caller[d]
  BY <1>1
<1>4. CASE KeepsLock
  <2>1. Asking = {} /\ ~FetchLock
    BY <1>1, <1>4 DEF LockFree, KeepsLock, FetchLock
  <2>2. c \in Fetching' /\ Asking' \subseteq {c}
    BY <1>2, <1>3, <2>1 DEF Fetching, Asking, AskersAt
  <2> QED BY <1>1, <1>2, <1>3, <1>4, <2>2 DEF SentBounds
<1>5. CASE ~KeepsLock
  <2>1. FetchLock => Fetching' = Fetching
    BY <1>1, <1>2, <1>3 DEF Fetching, AskersAt, Idle
  <2> QED BY <1>1, <1>5, <2>1 DEF SentBounds, Locked, KeepsLock, FetchLock
<1> QED BY <1>4, <1>5

\* The lock is free: a request is sent, or the caller is served.
LEMMA EnterKeepsSent ==
  ASSUME FeedsInvariant, SentBounds, NEW c \in Askers, Enter(c), FetchLock
  PROVE  SentBounds'
<1>1. /\ caller \in [Askers -> AskerStates] /\ Fetching = {}
      /\ entry' = entry /\ feed' = feed /\ ~KeepsLock
  BY DEF Enter, FeedsInvariant, FeedsTyped, AskerStates, KeepsLock, FetchLock
<1>2. CASE caller' = [caller EXCEPT ![c].at = "fetch"]
  <2>1. c \in Fetching'
    BY <1>1, <1>2 DEF Fetching, AskersAt, AskerStates
  <2> QED BY <1>1, <2>1 DEF SentBounds, KeepsLock
<1>3. CASE sent' = sent
  BY <1>1, <1>3 DEF SentBounds, Locked, KeepsLock, FetchLock
<1> QED BY <1>2, <1>3 DEF Enter

\* The answer is stored, or, after an error of macro, nothing is.
LEMMA StoreKeepsSent ==
  ASSUME FeedsInvariant, SentBounds, NEW c \in Askers, Store(c)
  PROVE  SentBounds'
<1>1. /\ caller[c].at = "store" /\ caller' = [caller EXCEPT ![c] = Idle]
      /\ entry' = NewEntry(caller[c]) /\ feed' = feed
      /\ sent' = (IF StoresNothing(caller[c]) THEN TTL ELSE sent)
      /\ caller \in [Askers -> AskerStates] /\ TTL \in Nat /\ sent \in 0..TTL
  BY FeedsAssumption DEF Store, FeedsInvariant, FeedsTyped, AskerStates
<1>2. entry'.age \in 0..TTL
  BY <1>1, NewEntryData DEF FeedsInvariant, Entries
<1>3. CASE KeepsLock
  <2>1. c \in Asking /\ caller[c].waited <= sent /\ caller[c].waited \in 0..TTL
    BY <1>1, <1>3 DEF SentBounds, Asking, AskerStates
  <2>2. \A d \in Asking : d = c
    BY <1>3, <2>1 DEF FeedsInvariant, LocksHold
  <2>3. Asking' = {}
    BY <1>1, <2>2 DEF Asking, Idle
  <2>4. entry'.age <= sent'
    <3>1. entry' = StoreAnswer(caller[c])
      BY <1>1, <1>3 DEF NewEntry, NegativeRetry, KeepsLock
    <3>2. CASE caller[c].ok
      BY <1>1, <2>1, <3>1, <3>2 DEF StoreAnswer, Stored, StoresNothing
    <3>3. CASE ~caller[c].ok
      BY <1>1, <1>2, <1>3, <3>3 DEF StoresNothing
    <3> QED BY <3>2, <3>3
  <2> QED BY <2>3, <2>4 DEF SentBounds
<1>4. CASE FetchLock
  <2>1. entry'.age = 0 /\ ~KeepsLock
    BY <1>1, <1>4 DEF NewEntry, NegativeRetry, StoreWhatCame, Stored, KeepsLock, FetchLock
  <2>2. sent' = sent
    BY <1>1, <2>1 DEF StoresNothing
  <2> QED BY <1>1, <2>1, <2>2 DEF SentBounds, KeepsLock
<1> QED BY <1>1, <1>3, <1>4 DEF SentBounds, Locked, KeepsLock, FetchLock

\* Entry, request and waiting caller age alike.
LEMMA TickKeepsSent ==
  ASSUME FeedsInvariant, SentBounds, FeedsTick
  PROVE  SentBounds'
<1>1. /\ entry \in Entries /\ caller \in [Askers -> AskerStates] /\ sent \in 0..TTL
      /\ TTL \in Nat /\ feed' = feed /\ sent' = Older(sent, TTL)
      /\ entry' = [entry EXCEPT !.age = Older(@, TTL), !.tried = Older(@, Retry)]
  BY FeedsAssumption DEF FeedsTick, FeedsInvariant, FeedsTyped, Entries, AskerStates
<1>2. ASSUME NEW m \in 0..TTL, m <= sent PROVE Older(m, TTL) <= Older(sent, TTL)
  BY <1>1, <1>2 DEF Older
<1>3. entry.age \in 0..TTL /\ entry'.age = Older(entry.age, TTL)
  BY <1>1 DEF Entries
<1>4. ASSUME NEW c \in Askers
      PROVE  /\ caller'[c].at = caller[c].at
             /\ KeepsLock /\ c \in Asking => caller'[c].waited = Older(caller[c].waited, TTL)
  BY <1>1 DEF FeedsTick, AskerStates
<1>5. Fetching' = Fetching /\ Asking' = Asking
  BY <1>4 DEF Fetching, AskersAt, Asking
<1>6. Locked /\ Fetching = {} => entry'.age <= sent'
  BY <1>1, <1>2, <1>3 DEF SentBounds
<1>7. ASSUME KeepsLock, NEW c \in Asking PROVE caller'[c].waited <= sent'
  <2>1. caller[c].waited \in 0..TTL /\ caller[c].waited <= sent /\ c \in Askers
    BY <1>1, <1>7 DEF SentBounds, Asking, AskerStates
  <2> QED BY <1>1, <1>2, <1>4, <1>7, <2>1
<1> QED BY <1>1, <1>5, <1>6, <1>7 DEF SentBounds, Locked, KeepsLock, FetchLock

\* Only callers of sectors wait in the queue.
OnlySectorsQueue == AskersAt("queue") # {} => FetchLock

\* Every step keeps the bounds.
LEMMA StepKeepsSent ==
  ASSUME FeedsInvariant, SentBounds, OnlySectorsQueue, [FeedsNext]_fvars
  PROVE  SentBounds' /\ OnlySectorsQueue'
<1>1. /\ caller \in [Askers -> AskerStates] /\ TTL \in Nat
  BY FeedsAssumption DEF FeedsInvariant, FeedsTyped, AskerStates
<1>2. OnlySectorsQueue'
  <2>1. feed' = feed
    BY DEF FeedsNext, Ask, Begin, Enter, Respond, Store, Elsewhere, Evict, FeedsTick, Publish,
           Outage, fvars
  <2>2. ASSUME NEW d \in Askers, caller'[d].at = "queue", caller[d].at # "queue" PROVE FetchLock
    <3>1. ~FeedsTick
      BY <1>1, <2>2 DEF FeedsTick, AskerStates
    <3>2. PICK c \in Askers : Ask(c)
      BY <2>2, <3>1 DEF FeedsNext, Elsewhere, Evict, Publish, Outage, fvars
    <3>3. CASE Begin(c)
      BY <1>1, <2>2, <3>3 DEF Begin, Idle
    <3>4. CASE Enter(c)
      BY <1>1, <2>2, <3>4 DEF Enter, Idle, AskerStates
    <3>5. CASE Respond(c)
      BY <1>1, <2>2, <3>5 DEF Respond, Answered, AskerStates
    <3>6. CASE Store(c)
      BY <1>1, <2>2, <3>6 DEF Store, Idle
    <3> QED BY <3>2, <3>3, <3>4, <3>5, <3>6 DEF Ask
  <2> QED BY <2>1, <2>2 DEF OnlySectorsQueue, AskersAt, FetchLock
<1>3. ASSUME NEW c \in Askers, Ask(c) PROVE SentBounds'
  <2>1. CASE Begin(c)
    BY <2>1, BeginKeepsSent
  <2>2. CASE Enter(c)
    <3>1. FetchLock
      BY <2>2 DEF Enter, OnlySectorsQueue, AskersAt
    <3> QED BY <2>2, <3>1, EnterKeepsSent
  <2>3. CASE Respond(c)
    <3>1. PICK got, ok : Answered(c, got, ok)
      BY <2>3 DEF Respond
    <3>2. /\ c \in Fetching'
          /\ \A d \in Askers : caller'[d].waited = caller[d].waited
                               /\ (d \in Asking' => d \in Asking)
      BY <1>1, <2>3, <3>1 DEF Respond, Answered, Fetching, Asking, AskersAt, AskerStates
    <3> QED BY <2>3, <3>2 DEF Respond, SentBounds, KeepsLock, Asking
  <2>4. CASE Store(c)
    BY <2>4, StoreKeepsSent
  <2> QED BY <1>3, <2>1, <2>2, <2>3, <2>4 DEF Ask
<1>4. CASE FeedsTick
  BY <1>2, <1>4, TickKeepsSent
<1>5. CASE Evict
  <2>1. entry'.age = TTL /\ sent' = TTL /\ UNCHANGED <<feed, caller>> /\ ~KeepsLock
    BY <1>5 DEF Evict, KeepsLock
  <2>2. entry'.age <= sent' /\ ~KeepsLock'
    BY <1>1, <2>1 DEF KeepsLock
  <2> QED BY <1>2, <2>2 DEF SentBounds
<1>6. CASE Elsewhere \/ Publish \/ Outage \/ UNCHANGED fvars
  <2>1. UNCHANGED <<feed, entry, caller, sent>>
    BY <1>6 DEF Elsewhere, Publish, Outage, fvars
  <2> QED BY <1>2, <2>1 DEF SentBounds, Locked, KeepsLock, FetchLock, Fetching, Asking, AskersAt
<1> QED BY <1>2, <1>3, <1>4, <1>5, <1>6 DEF FeedsNext

\* A feed that keeps a lock over its requests sends one at a time, and the next no
\* sooner than TTL ticks after the one whose answer it serves: a caller that waited
\* for the lock looks again (market_data/sectors.py, market_data/macro.py).
THEOREM RequestsAreShared == FeedsSpec => OneRequestPerTTL
<1> DEFINE Shared ==
      Locked => \A c \in Askers :
        caller[c].at # "fetch" /\ caller'[c].at = "fetch" => Fetching = {} /\ sent = TTL
<1>1. FeedsInit => SentBounds /\ OnlySectorsQueue
  BY FeedsAssumption DEF FeedsInit, SentBounds, OnlySectorsQueue, Asking, AskersAt, Idle
<1>2. FeedsInvariant /\ SentBounds /\ OnlySectorsQueue /\ [FeedsNext]_fvars
        => SentBounds' /\ OnlySectorsQueue'
  BY StepKeepsSent
<1>3. ASSUME FeedsInvariant, SentBounds, [FeedsNext]_fvars PROVE Shared
  <2> SUFFICES ASSUME Locked, NEW c \in Askers, caller[c].at # "fetch", caller'[c].at = "fetch"
               PROVE  Fetching = {} /\ sent = TTL
    OBVIOUS
  <2>1. caller \in [Askers -> AskerStates]
    BY <1>3 DEF FeedsInvariant, FeedsTyped, AskerStates
  <2>2. ~FeedsTick
    BY <2>1 DEF FeedsTick, AskerStates
  <2>3. PICK d \in Askers : Ask(d)
    BY <1>3, <2>2 DEF FeedsNext, Elsewhere, Evict, Publish, Outage, fvars
  <2>4. ~Respond(d) /\ ~Store(d)
    BY <2>1 DEF Respond, Answered, Store, Idle, AskerStates
  <2>5. Fetching = {} /\ ~Fresh
    <3>1. CASE Enter(d)
      BY <2>1, <3>1 DEF Enter, StillNeeded, Idle
    <3>2. CASE Begin(d)
      <4>1. d = c /\ ~FetchLock
        BY <2>1, <3>2 DEF Begin, Idle
      <4>2. Asking = {}
        BY <3>2, <4>1 DEF Begin, LockFree, Locked
      <4> QED BY <3>2, <4>2 DEF Begin, Fetching, Asking, AskersAt
    <3> QED BY <2>3, <2>4, <3>1, <3>2 DEF Ask
  <2>6. entry.age \in 0..TTL /\ ~(entry.age < TTL) /\ sent \in 0..TTL /\ TTL \in Nat
    BY <1>3, <2>5, FeedsAssumption DEF Fresh, Locked, KeepsLock, FetchLock, FeedsInvariant,
                                       FeedsTyped
  <2>7. entry.age <= sent
    BY <1>3, <2>5 DEF SentBounds
  <2> QED BY <2>5, <2>6, <2>7
<1>4. FeedsInvariant /\ SentBounds /\ [FeedsNext]_fvars => [Shared]_fvars
  BY <1>3
<1> HIDE DEF Shared
<1>5. FeedsSpec => [][Shared]_fvars
  BY <1>1, <1>2, <1>4, FeedsInvariantHolds, PTL DEF FeedsSpec
<1> QED BY <1>5 DEF OneRequestPerTTL, Shared

=============================================================================
