--------------------------- MODULE BulkheadProofs ---------------------------
(***************************************************************************)
(* Safety of Bulkhead, and that it implements BoundedPool, for every       *)
(* number of callers, every configuration and every width of the counters. *)
(***************************************************************************)
EXTENDS Bulkhead, FiniteSetTheorems, TLAPS

(* The inductive invariant: the semaphore and activeCount count the calls  *)
(* in two overlapping stretches of Execute, exactly; and only a bulkhead   *)
(* that waits has callers waiting, which is why an impatient one never     *)
(* refuses a call while it has a slot.                                     *)
WaitingIsAllowed == \A c \in Callers : pc[c] = "waiting" => Waits

IInv == TypeOK /\ TokensAreOwned /\ ActiveIsAccurate /\ WaitingIsAllowed

LEMMA CapacityType == ASSUME config \in Configs PROVE Capacity \in Nat \ {0}
BY ConfigAssumption DEF Capacity

LEMMA AtFinite ==
    ASSUME NEW places
    PROVE  IsFiniteSet(At(places)) /\ Cardinality(At(places)) \in Nat
BY CallersAssumption, FS_Subset, FS_CardinalityType DEF At

(* What one caller's move from one place to another does to the number of  *)
(* callers at given places.                                                *)
LEMMA MoveCounts ==
    ASSUME TypeOK, NEW c \in Callers, NEW from \in Places, NEW to \in Places, from # to,
           Goto(c, from, to), NEW places
    PROVE  Cardinality(At(places)') =
             IF from \in places
             THEN IF to \in places THEN Cardinality(At(places)) ELSE Cardinality(At(places)) - 1
             ELSE IF to \in places THEN Cardinality(At(places)) + 1 ELSE Cardinality(At(places))
<1>1. pc \in [Callers -> Places] /\ pc[c] = from /\ pc' = [pc EXCEPT ![c] = to]
  BY DEF TypeOK, Goto
<1>2. IsFiniteSet(At(places)) /\ Cardinality(At(places)) \in Nat
  BY AtFinite
<1>3. c \in At(places) <=> from \in places
  BY <1>1 DEF At
<1>4. CASE (from \in places) <=> (to \in places)
  <2>1. At(places)' = At(places)
    BY <1>1, <1>4 DEF At
  <2> QED
    BY <1>4, <2>1
<1>5. CASE from \in places /\ to \notin places
  <2>1. At(places)' = At(places) \ {c}
    BY <1>1, <1>5 DEF At
  <2> QED
    BY <1>2, <1>3, <1>5, <2>1, FS_RemoveElement
<1>6. CASE from \notin places /\ to \in places
  <2>1. At(places)' = At(places) \union {c}
    BY <1>1, <1>6 DEF At
  <2> QED
    BY <1>2, <1>3, <1>6, <2>1, FS_AddElement
<1> QED
  BY <1>4, <1>5, <1>6

Inside == {"acquired", "active", "running"}
Counted == {"active", "running", "released"}

LEMMA InvUnfolded ==
    ASSUME IInv
    PROVE  /\ TypeOK /\ semaphore = Cardinality(At(Inside))
           /\ activeCount = Cardinality(At(Counted))
           /\ Capacity \in Nat \ {0}
           /\ pc \in [Callers -> Places]
BY CapacityType DEF IInv, TokensAreOwned, ActiveIsAccurate, Inside, Counted, TypeOK

(* To show IInv after a step it is enough to follow the two counters.      *)
LEMMA InvFolded ==
    ASSUME IInv, config' = config, pc' \in [Callers -> Places],
           semaphore' = Cardinality(At(Inside)'), semaphore' <= Capacity,
           activeCount' = Cardinality(At(Counted)'),
           totalCalls' \in {totalCalls, Plus1(totalCalls)},
           totalRejected' \in {totalRejected, Plus1(totalRejected)},
           totalCompleted' \in {totalCompleted, Plus1(totalCompleted)},
           \A c \in Callers : pc'[c] = "waiting" => pc[c] = "waiting" \/ Waits
    PROVE  IInv'
<1>1. \A n \in 0 .. Word64 - 1 : Plus1(n) \in 0 .. Word64 - 1
  BY Word64Assumption DEF Plus1
<1>2. Capacity' = Capacity /\ Capacity \in Nat
  BY CapacityType DEF IInv, TypeOK, Capacity
<1>3. /\ Cardinality(At(Inside)') \in Nat
      /\ Cardinality(At(Counted)') \in Nat
      /\ Cardinality(At(Counted)') <= Cardinality(Callers)
      /\ Cardinality(Callers) \in Nat
  <2>1. /\ At(Inside)' \subseteq Callers
        /\ At(Counted)' \subseteq Callers
    BY DEF At
  <2> QED
    BY <2>1, CallersAssumption, FS_Subset, FS_CardinalityType
<1>4. semaphore' \in 0 .. Capacity' /\ activeCount' \in 0 .. Cardinality(Callers)
  BY <1>2, <1>3
<1>5. TypeOK'
  BY <1>1, <1>4 DEF IInv, TypeOK
<1>6. WaitingIsAllowed'
  BY DEF IInv, WaitingIsAllowed, Waits
<1> QED
  BY <1>5, <1>6 DEF IInv, TokensAreOwned, ActiveIsAccurate, Inside, Counted

LEMMA InitInv == Init => IInv
<1> SUFFICES ASSUME Init PROVE IInv
  OBVIOUS
<1>1. /\ Capacity \in Nat \ {0}
      /\ Cardinality(Callers) \in Nat
  BY CapacityType, CallersAssumption, FS_CardinalityType DEF Init
<1>2. At(Inside) = {} /\ At(Counted) = {}
  BY DEF Init, At, Inside, Counted
<1>3. TypeOK
  BY <1>1, Word64Assumption DEF Init, TypeOK, Places
<1> QED
  BY <1>2, <1>3, FS_EmptySet
  DEF Init, IInv, TokensAreOwned, ActiveIsAccurate, WaitingIsAllowed, Inside, Counted

(* Each move, by the stretches it enters and leaves.                       *)
LEMMA MoveInside ==
    ASSUME IInv, NEW c \in Callers, NEW from \in Places, NEW to \in Places, from # to,
           Goto(c, from, to)
    PROVE  /\ from \notin Inside /\ to \in Inside =>
                Cardinality(At(Inside)') = semaphore + 1
           /\ from \in Inside /\ to \notin Inside =>
                Cardinality(At(Inside)') = semaphore - 1
           /\ (from \in Inside <=> to \in Inside) =>
                Cardinality(At(Inside)') = semaphore
           /\ from \notin Counted /\ to \in Counted =>
                Cardinality(At(Counted)') = activeCount + 1
           /\ from \in Counted /\ to \notin Counted =>
                Cardinality(At(Counted)') = activeCount - 1
           /\ (from \in Counted <=> to \in Counted) =>
                Cardinality(At(Counted)') = activeCount
           /\ pc' \in [Callers -> Places]
           /\ \A d \in Callers :
                pc'[d] = "waiting" => pc[d] = "waiting" \/ to = "waiting"
<1>1. TypeOK /\ semaphore = Cardinality(At(Inside)) /\ activeCount = Cardinality(At(Counted))
  BY InvUnfolded
<1>2. Cardinality(At(Inside)') =
        IF from \in Inside
        THEN IF to \in Inside THEN semaphore ELSE semaphore - 1
        ELSE IF to \in Inside THEN semaphore + 1 ELSE semaphore
  BY <1>1, MoveCounts
<1>3. Cardinality(At(Counted)') =
        IF from \in Counted
        THEN IF to \in Counted THEN activeCount ELSE activeCount - 1
        ELSE IF to \in Counted THEN activeCount + 1 ELSE activeCount
  BY <1>1, MoveCounts
<1>4. /\ pc' \in [Callers -> Places]
      /\ \A d \in Callers :
            pc'[d] = "waiting" => pc[d] = "waiting" \/ to = "waiting"
  BY <1>1 DEF TypeOK, Goto
<1> QED
  BY <1>2, <1>3, <1>4

LEMMA StepInv ==
    ASSUME IInv, NEW c \in Callers, Arrive(c) \/ Proceed(c)
    PROVE  IInv'
<1>1. /\ semaphore \in Nat /\ semaphore <= Capacity /\ Capacity \in Nat
  BY InvUnfolded DEF TypeOK
<1>2. CASE TryAcquire(c)
  BY <1>1, <1>2, MoveInside, InvFolded
  DEF TryAcquire, Send, counters, Inside, Counted, Places
<1>3. CASE BulkheadFull(c)
  BY <1>1, <1>3, MoveInside, InvFolded
  DEF BulkheadFull, counters, Inside, Counted, Places
<1>4. CASE Wait(c)
  BY <1>1, <1>4, MoveInside, InvFolded
  DEF Wait, counters, Inside, Counted, Places
<1>5. CASE Acquire(c)
  BY <1>1, <1>5, MoveInside, InvFolded
  DEF Acquire, Send, counters, Inside, Counted, Places
<1>6. CASE GiveUp(c)
  BY <1>1, <1>6, MoveInside, InvFolded
  DEF GiveUp, counters, Inside, Counted, Places
<1>7. CASE CountActive(c)
  BY <1>1, <1>7, MoveInside, InvFolded
  DEF CountActive, Inside, Counted, Places
<1>8. CASE CountCall(c)
  BY <1>1, <1>8, MoveInside, InvFolded
  DEF CountCall, Inside, Counted, Places
<1>9. CASE Receive(c)
  BY <1>1, <1>9, MoveInside, InvFolded
  DEF Receive, counters, Inside, Counted, Places
<1>10. CASE CountCompleted(c)
  BY <1>1, <1>10, MoveInside, InvFolded
  DEF CountCompleted, Inside, Counted, Places
<1>11. CASE CountRejected(c)
  BY <1>1, <1>11, MoveInside, InvFolded
  DEF CountRejected, Inside, Counted, Places
<1> QED
  BY <1>2, <1>3, <1>4, <1>5, <1>6, <1>7, <1>8, <1>9, <1>10, <1>11 DEF Arrive, Proceed

LEMMA NextInv == IInv /\ [Next]_vars => IInv'
<1> SUFFICES ASSUME IInv, [Next]_vars PROVE IInv'
  OBVIOUS
<1>1. CASE Next
  BY <1>1, StepInv DEF Next
<1>2. CASE UNCHANGED vars
  BY <1>2 DEF vars, counters, IInv, TypeOK, TokensAreOwned, ActiveIsAccurate, WaitingIsAllowed,
     At, Capacity, Waits
<1> QED
  BY <1>1, <1>2

-----------------------------------------------------------------------------
(* The two counters of Execute: what separates them is the calls between   *)
(* them, and some number of wraps.                                         *)

LEMMA ProductOrder ==
    ASSUME NEW a \in Int, NEW b \in Int, NEW w \in Nat, a <= b
    PROVE  w * a <= w * b
<1>1. b - a \in Nat
  OBVIOUS
<1>2. w * (b - a) \in Nat /\ w * (b - a) = w * b - w * a
  BY <1>1, Z3
<1> QED
  BY <1>2

LEMMA ModFacts ==
    ASSUME NEW x \in Int, NEW w \in Nat \ {0}
    PROVE  /\ x % w \in 0 .. w - 1 /\ x \div w \in Int
           /\ x = w * (x \div w) + (x % w)
<1>1. x = w * (x \div w) + (x % w)
  BY Z3
<1>2. x % w \in Int /\ 0 <= x % w /\ x % w < w /\ x \div w \in Int
  BY Z3
<1> QED
  BY <1>1, <1>2

(* There is only one way to divide with a remainder.                       *)
LEMMA ModUnique ==
    ASSUME NEW x \in Int, NEW w \in Nat \ {0},
           NEW q \in Int, NEW m \in 0 .. w - 1, x = w * q + m
    PROVE  x % w = m
<1> DEFINE p == x \div w
           n == x % w
<1>1. p \in Int /\ n \in Int /\ 0 <= n /\ n < w /\ x = w * p + n
  <2>1. n \in 0 .. w - 1 /\ p \in Int /\ x = w * p + n
    BY ModFacts
  <2> HIDE DEF p, n
  <2> QED
    BY <2>1
<1> HIDE DEF p, n
<1>2. w * (p + 1) = w * p + w /\ w * (q + 1) = w * q + w /\ w * p \in Int /\ w * q \in Int
  BY <1>1, Z3
<1>3. CASE p < q
  BY <1>1, <1>2, <1>3, ProductOrder
<1>4. CASE p > q
  BY <1>1, <1>2, <1>4, ProductOrder
<1> QED
  BY <1>1, <1>3, <1>4 DEF n

LEMMA Plus1Wraps ==
    ASSUME NEW n \in 0 .. Word64 - 1
    PROVE  \E r \in {0, 1} : Plus1(n) = (n + 1) - Word64 * r
<1>1. CASE n + 1 < Word64
  BY <1>1, Word64Assumption DEF Plus1
<1>2. CASE n + 1 = Word64
  BY <1>2, Word64Assumption DEF Plus1
<1> QED
  BY <1>1, <1>2, Word64Assumption

Between == {"running", "released"}

BetweenCounters ==
    \E q \in Int : totalCalls - totalCompleted = Cardinality(At(Between)) + Word64 * q

LEMMA BetweenInit == Init => BetweenCounters
<1> SUFFICES ASSUME Init PROVE BetweenCounters
  OBVIOUS
<1>1. At(Between) = {} /\ totalCalls = 0 /\ totalCompleted = 0
  BY DEF Init, At, Between
<1>2. Word64 * 0 = 0 /\ 0 \in Int
  BY Word64Assumption
<1> QED
  BY <1>1, <1>2, FS_EmptySet DEF BetweenCounters

(* A counter that moves together with the calls between the two.           *)
LEMMA Wraps ==
    ASSUME NEW q \in Int, NEW r \in {0, 1}
    PROVE  /\ Word64 * q \in Int /\ Word64 * r \in Int
           /\ Word64 * (q - r) = Word64 * q - Word64 * r
           /\ Word64 * (q + r) = Word64 * q + Word64 * r
BY Word64Assumption, Z3

LEMMA BetweenStep ==
    ASSUME IInv, BetweenCounters, NEW c \in Callers, Arrive(c) \/ Proceed(c)
    PROVE  BetweenCounters'
<1>1. /\ TypeOK /\ totalCalls \in 0 .. Word64 - 1 /\ totalCompleted \in 0 .. Word64 - 1
      /\ Cardinality(At(Between)) \in Nat /\ Word64 \in Nat \ {0}
  BY AtFinite, Word64Assumption DEF IInv, TypeOK
<1>2. PICK q \in Int : totalCalls - totalCompleted = Cardinality(At(Between)) + Word64 * q
  BY DEF BetweenCounters
<1>3. CASE CountCall(c)
  <2>1. Goto(c, "active", "running") /\ totalCalls' = Plus1(totalCalls)
        /\ totalCompleted' = totalCompleted
    BY <1>3 DEF CountCall
  <2>2. Cardinality(At(Between)') = Cardinality(At(Between)) + 1
    BY <1>1, <2>1, MoveCounts DEF Between, Places
  <2>3. PICK r \in {0, 1} : Plus1(totalCalls) = (totalCalls + 1) - Word64 * r
    BY <1>1, Plus1Wraps
  <2>4. totalCalls' - totalCompleted' = Cardinality(At(Between)') + Word64 * (q - r)
    BY <1>1, <1>2, <2>1, <2>2, <2>3, Wraps
  <2> QED
    BY <2>4 DEF BetweenCounters
<1>4. CASE CountCompleted(c)
  <2>1. Goto(c, "released", "idle") /\ totalCompleted' = Plus1(totalCompleted)
        /\ totalCalls' = totalCalls
    BY <1>4 DEF CountCompleted
  <2>2. Cardinality(At(Between)') = Cardinality(At(Between)) - 1
    BY <1>1, <2>1, MoveCounts DEF Between, Places
  <2>3. PICK r \in {0, 1} : Plus1(totalCompleted) = (totalCompleted + 1) - Word64 * r
    BY <1>1, Plus1Wraps
  <2>4. totalCalls' - totalCompleted' = Cardinality(At(Between)') + Word64 * (q + r)
    BY <1>1, <1>2, <2>1, <2>2, <2>3, Wraps
  <2> QED
    BY <2>4 DEF BetweenCounters
<1>5. ASSUME NEW from \in Places, NEW to \in Places, from # to, Goto(c, from, to),
             from \in Between <=> to \in Between, UNCHANGED <<totalCalls, totalCompleted>>
      PROVE  BetweenCounters'
  <2>1. Cardinality(At(Between)') = Cardinality(At(Between))
    BY <1>1, <1>5, MoveCounts
  <2> QED
    BY <1>2, <1>5, <2>1 DEF BetweenCounters
<1>6. CASE TryAcquire(c) \/ BulkheadFull(c) \/ Wait(c) \/ Acquire(c) \/ GiveUp(c)
  BY <1>5, <1>6 DEF TryAcquire, BulkheadFull, Wait, Acquire, GiveUp, Send, counters, Places, Between
<1>7. CASE CountActive(c) \/ Receive(c) \/ CountRejected(c)
  BY <1>5, <1>7 DEF CountActive, Receive, CountRejected, counters, Places, Between
<1> QED
  BY <1>3, <1>4, <1>6, <1>7 DEF Arrive, Proceed

LEMMA BetweenNext == IInv /\ BetweenCounters /\ [Next]_vars => BetweenCounters'
<1> SUFFICES ASSUME IInv, BetweenCounters, [Next]_vars PROVE BetweenCounters'
  OBVIOUS
<1>1. CASE Next
  BY <1>1, BetweenStep DEF Next
<1>2. CASE UNCHANGED vars
  BY <1>2 DEF vars, counters, BetweenCounters, At
<1> QED
  BY <1>1, <1>2

-----------------------------------------------------------------------------
(* Refinement: a caller's send enters the pool, its receive leaves it, the *)
(* failure of acquire is a refusal, and every other step stutters.         *)

(* The instance has its own copy of FiniteSets.                            *)
LEMMA PoolCardinality == ASSUME NEW S PROVE Pool!Cardinality(S) = Cardinality(S)
BY DEF Pool!Cardinality, Cardinality

LEMMA PoolInit == Init => Pool!Init
BY CapacityType, AtFinite DEF Init, Pool!Init, At, Waits

LEMMA PoolStep ==
    ASSUME IInv, NEW c \in Callers, Arrive(c) \/ Proceed(c)
    PROVE  Pool!Next \/ UNCHANGED Pool!vars
<1> USE DEF At, Goto
<1>1. /\ pc \in [Callers -> Places] /\ TypeOK
      /\ semaphore = Cardinality({d \in Callers : pc[d] \in {"acquired", "active", "running"}})
      /\ WaitingIsAllowed
  BY DEF IInv, TypeOK, TokensAreOwned
<1>2. Capacity' = Capacity /\ Waits' = Waits
  BY DEF Arrive, Proceed, TryAcquire, Send, BulkheadFull, Wait, Acquire, GiveUp, CountActive,
     CountCall, Receive, CountCompleted, CountRejected, Capacity, Waits
<1>3. CASE TryAcquire(c) \/ Acquire(c)
  <2>1. Pool!Enter(c)
    BY <1>1, <1>2, <1>3, InvUnfolded, PoolCardinality
    DEF TryAcquire, Acquire, Send, Pool!Enter, Pool!Full, TypeOK
  <2> QED
    BY <2>1 DEF Pool!Next
<1>4. CASE BulkheadFull(c) \/ GiveUp(c)
  <2>1. Pool!Refuse(c)
    BY <1>1, <1>2, <1>4, InvUnfolded, PoolCardinality
    DEF BulkheadFull, GiveUp, WaitingIsAllowed, Pool!Refuse, Pool!Full, TypeOK
  <2> QED
    BY <2>1 DEF Pool!Next
<1>5. CASE Receive(c) \/ CountRejected(c)
  <2>1. Pool!Leave(c)
    BY <1>1, <1>2, <1>5 DEF Receive, CountRejected, Pool!Leave
  <2> QED
    BY <2>1 DEF Pool!Next
<1>6. CASE Wait(c) \/ CountActive(c) \/ CountCall(c) \/ CountCompleted(c)
  BY <1>1, <1>2, <1>6 DEF Wait, CountActive, CountCall, CountCompleted, Pool!vars
<1> QED
  BY <1>3, <1>4, <1>5, <1>6 DEF Arrive, Proceed

-----------------------------------------------------------------------------
(* The theorems.                                                           *)

(* IInv is an invariant.                                                   *)
THEOREM Invariance == Spec => []IInv
BY InitInv, NextInv, PTL DEF Spec

(* The channel never overflows, activeCount is never negative.             *)
THEOREM TypeCorrectness == Spec => []TypeOK
<1>1. IInv => TypeOK
  BY DEF IInv
<1> QED
  BY Invariance, <1>1, PTL

(* Every token belongs to one call: release cannot block or take another's. *)
THEOREM TokenSafety == Spec => []TokensAreOwned
<1>1. IInv => TokensAreOwned
  BY DEF IInv
<1> QED
  BY Invariance, <1>1, PTL

(* The counters add up at every moment, through their wrap-around.         *)
THEOREM CounterSafety == Spec => []CountersAddUp
<1>1. IInv /\ BetweenCounters => CountersAddUp
  <2> SUFFICES ASSUME IInv, BetweenCounters PROVE CountersAddUp
    OBVIOUS
  <2> DEFINE d == totalCalls - totalCompleted
             k == Cardinality(At(Between))
  <2>1. d \in Int /\ k \in Nat /\ Word64 \in Nat \ {0}
    BY AtFinite, Word64Assumption DEF IInv, TypeOK
  <2>2. PICK q \in Int : d = k + Word64 * q
    BY DEF BetweenCounters
  <2> HIDE DEF d, k
  <2>3. k % Word64 \in 0 .. Word64 - 1 /\ k \div Word64 \in Int
        /\ k = Word64 * (k \div Word64) + (k % Word64)
    BY <2>1, ModFacts
  <2> DEFINE p == k \div Word64
             m == k % Word64
  <2>4. p \in Int /\ m \in 0 .. Word64 - 1 /\ k = Word64 * p + m
    BY <2>3
  <2> HIDE DEF p, m
  <2>5. Word64 * (p + q) = Word64 * p + Word64 * q /\ Word64 * p \in Int /\ Word64 * q \in Int
    BY <2>1, <2>4, Z3
  <2>6. d = Word64 * (p + q) + m /\ p + q \in Int
    BY <2>1, <2>2, <2>4, <2>5
  <2>7. d % Word64 = m
    BY <2>1, <2>4, <2>6, ModUnique
  <2> QED
    BY <2>7 DEF IInv, CountersAddUp, Between, d, k, m
<1> QED
  BY Invariance, BetweenInit, BetweenNext, <1>1, PTL DEF Spec

(* activeCount exceeds the limit only by the calls inside release.         *)
THEOREM OvershootSafety == Spec => []OvershootIsReleases
<1>1. IInv => OvershootIsReleases
  <2> SUFFICES ASSUME IInv PROVE OvershootIsReleases
    OBVIOUS
  <2>1. At(Counted) \subseteq At(Inside) \union At({"released"})
    BY DEF At, Counted, Inside
  <2>2. /\ IsFiniteSet(At(Inside)) /\ IsFiniteSet(At({"released"}))
        /\ IsFiniteSet(At(Counted))
        /\ Cardinality(At(Inside)) \in Nat /\ Cardinality(At({"released"})) \in Nat
        /\ Cardinality(At(Counted)) \in Nat
    BY AtFinite
  <2>3. At(Inside) \intersect At({"released"}) = {}
    BY DEF At, Inside
  <2>4. /\ IsFiniteSet(At(Inside) \union At({"released"}))
        /\ Cardinality(At(Inside) \union At({"released"})) =
              Cardinality(At(Inside)) + Cardinality(At({"released"}))
    BY <2>2, <2>3, FS_EmptySet, FS_Union
  <2>5. Cardinality(At(Counted)) <= Cardinality(At(Inside)) + Cardinality(At({"released"}))
    BY <2>1, <2>4, FS_Subset
  <2>6. Cardinality(At(Inside)) <= Capacity /\ Capacity \in Nat
    BY InvUnfolded DEF TypeOK
  <2> QED
    BY <2>2, <2>5, <2>6, InvUnfolded DEF OvershootIsReleases
<1> QED
  BY Invariance, <1>1, PTL

(* No more calls than the capacity are between their send and their        *)
(* receive, and so in fn, at once.                                         *)
THEOREM ConcurrencyBounded == Spec => []Pool!NeverOverfull
<1>1. IInv => Pool!NeverOverfull
  BY InvUnfolded, PoolCardinality DEF Pool!NeverOverfull, TypeOK, Inside
<1> QED
  BY Invariance, <1>1, PTL

(* The bulkhead implements the bounded pool.                               *)
THEOREM Refinement == Spec => IsBoundedPool
<1>1. IInv /\ [Next]_vars => [Pool!Next]_Pool!vars
  <2> SUFFICES ASSUME IInv, [Next]_vars PROVE [Pool!Next]_Pool!vars
    OBVIOUS
  <2>1. CASE Next
    BY <2>1, PoolStep DEF Next
  <2>2. CASE UNCHANGED vars
    BY <2>2 DEF vars, counters, Pool!vars, At, Capacity, Waits
  <2> QED
    BY <2>1, <2>2
<1> QED
  BY Invariance, PoolInit, <1>1, PTL DEF Spec, IsBoundedPool, Pool!Spec
=============================================================================
