---------------------------- MODULE BreakerProofs ----------------------------
(***************************************************************************)
(* Safety of CircuitBreaker, and of AdaptiveBreaker around it, for every   *)
(* number of callers and readers, every configuration and every width of   *)
(* the counters.  The first part is about the operators on one breaker     *)
(* record, the second about the inductive invariant IInv.  The last part   *)
(* shows that what an adaptive breaker does to its inner breaker is        *)
(* something a program may do to a CircuitBreaker, so that what is proved  *)
(* of that one holds here too, and that its own counters add up.           *)
(***************************************************************************)
EXTENDS AdaptiveBreaker, FiniteSetTheorems, TLAPS

-----------------------------------------------------------------------------
(* The defaults of New leave no parameter at zero.                         *)
LEMMA ParameterTypes ==
    /\ Quota \in 1 .. Word32 - 1
    /\ OpenPeriod \in Nat \ {0}
    /\ WindowSize \in Nat \ {0}
BY ConfigAssumption DEF Quota, OpenPeriod, WindowSize, OrDefault

(* A uint32 stays in its range, and does not wrap below its maximum.       *)
LEMMA IncrementedType ==
    ASSUME NEW n \in 0 .. Word32 - 1, NEW when \in BOOLEAN
    PROVE  /\ Incremented(n, when) \in 0 .. Word32 - 1
           /\ ~when => Incremented(n, when) = n
           /\ when /\ n + 1 < Word32 => Incremented(n, when) = n + 1
BY ConfigAssumption DEF Incremented

(* An open breaker has an empty window; a half-open one has recorded fewer *)
(* than Quota results, all of them successes.                              *)
EmptyWindow(b) ==
    b.totalCalls = 0 /\ b.successes = 0 /\ b.failures = 0 /\ b.slowCalls = 0

CleanSlate(b) == b.failures = 0 /\ b.successes = b.totalCalls /\ b.totalCalls < Quota

BreakerInv(b) ==
    /\ b \in Breakers
    /\ b.state = "Open" => EmptyWindow(b)
    /\ b.state = "HalfOpen" => CleanSlate(b)

(* Clearing the window touches nothing else.                               *)
LEMMA ClearWindowFacts ==
    ASSUME NEW b \in Breakers
    PROVE  /\ ClearWindow(b) \in Breakers
           /\ EmptyWindow(ClearWindow(b))
           /\ ClearWindow(b).state = b.state
           /\ ClearWindow(b).halfOpenAllowed = b.halfOpenAllowed
           /\ ClearWindow(b).halfOpenCount = b.halfOpenCount
           /\ ClearWindow(b).sinceOpen = b.sinceOpen
<1>1. EmptyRing \in [Slots -> Results]
  BY DEF EmptyRing, Results, Unwritten
<1>2. 0 \in 0 .. WindowSize - 1 /\ 0 \in 0 .. Word32 - 1
  BY ParameterTypes, ConfigAssumption
<1> QED
  BY <1>1, <1>2 DEF ClearWindow, Breakers, EmptyWindow

LEMMA RefreshFacts ==
    ASSUME NEW b \in Breakers
    PROVE  /\ Refresh(b) \in Breakers
           /\ EmptyWindow(Refresh(b))
           /\ Refresh(b).state = b.state
           /\ Refresh(b).halfOpenAllowed = Quota
           /\ Refresh(b).halfOpenCount = 0
           /\ Refresh(b).sinceOpen = b.sinceOpen
<1> DEFINE w == ClearWindow(b)
<1>1. w \in Breakers /\ EmptyWindow(w) /\ w.state = b.state /\ w.sinceOpen = b.sinceOpen
  BY ClearWindowFacts
<1>2. 0 \in 0 .. Quota /\ Quota \in {0, Quota}
  BY ParameterTypes
<1> HIDE DEF w
<1>3. Refresh(b) = [w EXCEPT !.halfOpenAllowed = Quota, !.halfOpenCount = 0]
  BY DEF Refresh, w
<1> QED
  BY <1>1, <1>2, <1>3 DEF Breakers, EmptyWindow

(* The lazy transition: from an expired open breaker to a fresh half-open  *)
(* one, and nothing else.                                                  *)
LEMMA GetStateFacts ==
    ASSUME NEW b, BreakerInv(b)
    PROVE  /\ BreakerInv(GetStateUnsafe(b))
           /\ ~Expired(b) => GetStateUnsafe(b) = b
           /\ Expired(b) => /\ GetStateUnsafe(b).state = "HalfOpen"
                            /\ GetStateUnsafe(b).halfOpenAllowed = Quota
                            /\ GetStateUnsafe(b).halfOpenCount = 0
                            /\ EmptyWindow(GetStateUnsafe(b))
                            /\ GetStateUnsafe(b).sinceOpen = b.sinceOpen
<1>1. CASE ~Expired(b)
  BY <1>1 DEF GetStateUnsafe
<1>2. CASE Expired(b)
  <2> DEFINE h == [b EXCEPT !.state = "HalfOpen"]
  <2>1. h \in Breakers /\ h.state = "HalfOpen" /\ h.sinceOpen = b.sinceOpen
    BY DEF BreakerInv, Breakers, State
  <2> HIDE DEF h
  <2>2. GetStateUnsafe(b) = Refresh(h)
    BY <1>2 DEF GetStateUnsafe, h
  <2>3. CleanSlate(Refresh(h))
    BY <2>1, RefreshFacts, ParameterTypes DEF EmptyWindow, CleanSlate
  <2> QED
    BY <1>2, <2>1, <2>2, <2>3, RefreshFacts DEF BreakerInv
<1> QED
  BY <1>1, <1>2

LEMMA TransitionFacts ==
    ASSUME NEW b \in Breakers, NEW s \in {"Open", "Closed"}, b.state # s
    PROVE  /\ BreakerInv(TransitionTo(b, s))
           /\ TransitionTo(b, s).state = s
           /\ TransitionTo(b, s).sinceOpen = IF s = "Open" THEN 0 ELSE b.sinceOpen
<1> DEFINE w == ClearWindow(b)
           t == TransitionTo(b, s)
<1>1. w \in Breakers /\ EmptyWindow(w) /\ w.sinceOpen = b.sinceOpen /\ s \in State /\ 0 \in 0 .. OpenPeriod
  BY ClearWindowFacts, ParameterTypes DEF State
<1>2. t = [w EXCEPT !.state = s, !.sinceOpen = IF s = "Open" THEN 0 ELSE @]
  BY DEF TransitionTo
<1> HIDE DEF w, t
<1>3. /\ t \in Breakers /\ t.state = s /\ EmptyWindow(t)
      /\ t.sinceOpen = IF s = "Open" THEN 0 ELSE b.sinceOpen
  BY <1>1, <1>2 DEF Breakers, EmptyWindow
<1> QED
  BY <1>3 DEF BreakerInv, t

(* Recording a result changes the window alone.                            *)
LEMMA RecordFacts ==
    ASSUME NEW b \in Breakers, NEW failed \in BOOLEAN, NEW slow \in BOOLEAN
    PROVE  LET r == RecordResult(b, failed, slow) IN
           /\ r \in Breakers
           /\ r.state = b.state
           /\ r.halfOpenAllowed = b.halfOpenAllowed
           /\ r.halfOpenCount = b.halfOpenCount
           /\ r.sinceOpen = b.sinceOpen
           /\ r.totalCalls = Incremented(b.totalCalls, TRUE)
           /\ r.successes = Incremented(b.successes, ~failed)
           /\ r.failures = Incremented(b.failures, failed)
<1> DEFINE next == (b.ringIndex + 1) % WindowSize
           counted == [b EXCEPT !.totalCalls = Incremented(@, TRUE),
                                !.failures   = Incremented(@, failed),
                                !.successes  = Incremented(@, ~failed),
                                !.slowCalls  = Incremented(@, slow)]
<1>1. /\ Incremented(b.totalCalls, TRUE) \in 0 .. Word32 - 1
      /\ Incremented(b.failures, failed) \in 0 .. Word32 - 1
      /\ Incremented(b.successes, ~failed) \in 0 .. Word32 - 1
      /\ Incremented(b.slowCalls, slow) \in 0 .. Word32 - 1
  BY IncrementedType DEF Breakers
<1>2. /\ counted \in Breakers
      /\ counted.state = b.state
      /\ counted.halfOpenAllowed = b.halfOpenAllowed
      /\ counted.halfOpenCount = b.halfOpenCount
      /\ counted.sinceOpen = b.sinceOpen
      /\ counted.totalCalls = Incremented(b.totalCalls, TRUE)
      /\ counted.successes = Incremented(b.successes, ~failed)
      /\ counted.failures = Incremented(b.failures, failed)
  BY <1>1 DEF Breakers
<1>3. next \in 0 .. WindowSize - 1
  BY ParameterTypes DEF Breakers
<1>4. [failed |-> failed, slow |-> slow] \in Results
  BY DEF Results
<1>5. RecordResult(b, failed, slow) =
        IF CountWindow
        THEN [counted EXCEPT !.ring[b.ringIndex] = [failed |-> failed, slow |-> slow],
                             !.ringIndex = next,
                             !.ringFull  = @ \/ next = 0]
        ELSE counted
  BY DEF RecordResult
<1> HIDE DEF counted, next
<1>6. [counted.ring EXCEPT ![b.ringIndex] = [failed |-> failed, slow |-> slow]]
        \in [Slots -> Results]
  BY <1>2, <1>4 DEF Breakers
<1>7. (counted.ringFull \/ next = 0) \in BOOLEAN
  OBVIOUS
<1> QED
  BY <1>2, <1>3, <1>5, <1>6, <1>7 DEF Breakers

(* What a result does: nothing to a breaker that is shut; in a half-open   *)
(* period that goes on it was a success, and one more is recorded.         *)
LEMMA SettleFacts ==
    ASSUME NEW b, BreakerInv(b),
           b.state = "HalfOpen" => b.halfOpenAllowed = Quota,
           NEW failed \in BOOLEAN, NEW slow \in BOOLEAN
    PROVE  LET now == GetStateUnsafe(b)
               n   == Settle(b, failed, slow)
           IN  /\ BreakerInv(n)
               /\ now.state \in {"Open", "ForcedOpen"} => n = now
               /\ now.state = "Closed" => n.state \in {"Closed", "Open"}
               /\ now.state = "HalfOpen" =>
                    n.state = IF failed THEN "Open"
                              ELSE IF now.totalCalls + 1 < Quota THEN "HalfOpen" ELSE "Closed"
               /\ n.sinceOpen = IF n.state = "Open" /\ now.state # "Open"
                                THEN 0 ELSE now.sinceOpen
               /\ n.state = "HalfOpen" =>
                    /\ now.state = "HalfOpen"
                    /\ n.halfOpenAllowed = Quota
                    /\ n.halfOpenCount = now.halfOpenCount
                    /\ n.totalCalls = now.totalCalls + 1
<1> DEFINE now  == GetStateUnsafe(b)
           then == RecordResult(now, failed, slow)
           n    == Settle(b, failed, slow)
<1>1. BreakerInv(now) /\ now \in Breakers /\ now.state \in State
  BY GetStateFacts DEF BreakerInv, Breakers
<1>2. now.state = "HalfOpen" => now.halfOpenAllowed = Quota
  BY GetStateFacts DEF Expired
<1>3. /\ then \in Breakers
      /\ then.state = now.state
      /\ then.halfOpenAllowed = now.halfOpenAllowed
      /\ then.halfOpenCount = now.halfOpenCount
      /\ then.sinceOpen = now.sinceOpen
      /\ then.totalCalls = Incremented(now.totalCalls, TRUE)
      /\ then.successes = Incremented(now.successes, ~failed)
      /\ then.failures = Incremented(now.failures, failed)
  BY <1>1, RecordFacts
<1>4. n = CASE now.state = "Closed"              -> CheckThresholds(then)
            [] now.state = "HalfOpen" /\ failed  -> TransitionTo(then, "Open")
            [] now.state = "HalfOpen" /\ ~failed -> CheckHalfOpenSuccess(then)
            [] OTHER                             -> now
  BY DEF Settle
<1> HIDE DEF now, then, n
<1>5. CASE now.state = "Closed"
  <2>1. n = CheckThresholds(then)
    BY <1>4, <1>5
  <2>2. CASE ThresholdReached(then)
    BY <1>3, <1>5, <2>1, <2>2, TransitionFacts DEF CheckThresholds, now, n
  <2>3. CASE ~ThresholdReached(then)
    BY <1>3, <1>5, <2>1, <2>3 DEF CheckThresholds, BreakerInv, now, n
  <2> QED
    BY <2>2, <2>3
<1>6. CASE now.state = "HalfOpen" /\ failed
  <2>1. n = TransitionTo(then, "Open") /\ then.state # "Open"
    BY <1>3, <1>4, <1>6
  <2> QED
    BY <1>3, <1>6, <2>1, TransitionFacts DEF now, n
<1>7. CASE now.state = "HalfOpen" /\ ~failed
  <2>1. n = CheckHalfOpenSuccess(then)
    BY <1>4, <1>7
  <2>2. CleanSlate(now) /\ now.totalCalls \in 0 .. Word32 - 1
    BY <1>1, <1>7 DEF BreakerInv, Breakers
  <2>3. /\ then.totalCalls = now.totalCalls + 1
        /\ then.successes = then.totalCalls /\ then.failures = 0
    <3>1. now.totalCalls + 1 < Word32 /\ now.successes = now.totalCalls
      BY <2>2, ParameterTypes, ConfigAssumption DEF CleanSlate
    <3>2. Incremented(now.totalCalls, TRUE) = now.totalCalls + 1
      BY <2>2, <3>1, IncrementedType
    <3>3. Incremented(now.failures, FALSE) = now.failures
      BY DEF Incremented
    <3>4. failed = FALSE /\ (~failed) = TRUE
      BY <1>7
    <3> QED
      BY <1>3, <2>2, <3>1, <3>2, <3>3, <3>4 DEF CleanSlate
  <2>4. CASE then.totalCalls >= then.halfOpenAllowed
    <3>1. n = TransitionTo(then, "Closed") /\ then.state # "Closed"
      BY <1>3, <1>7, <2>1, <2>4 DEF CheckHalfOpenSuccess
    <3>2. ~(now.totalCalls + 1 < Quota)
      <4>1. then.halfOpenAllowed = Quota
        BY <1>2, <1>3, <1>7
      <4>2. now.totalCalls \in Int /\ Quota \in Int
        BY <2>2, ParameterTypes, ConfigAssumption
      <4> QED
        BY <2>3, <2>4, <4>1, <4>2
    <3> QED
      BY <1>3, <1>7, <3>1, <3>2, TransitionFacts DEF now, n
  <2>5. CASE ~(then.totalCalls >= then.halfOpenAllowed)
    <3>1. n = then
      BY <2>1, <2>5 DEF CheckHalfOpenSuccess
    <3>2. then.totalCalls < Quota
      <4>1. then.halfOpenAllowed = Quota
        BY <1>2, <1>3, <1>7
      <4>2. then.totalCalls \in Int /\ Quota \in Int
        BY <2>2, <2>3, ParameterTypes, ConfigAssumption
      <4> QED
        BY <2>5, <4>1, <4>2
    <3> QED
      BY <1>2, <1>3, <1>7, <2>3, <3>1, <3>2 DEF BreakerInv, CleanSlate, now, n
  <2> QED
    BY <2>4, <2>5
<1>8. CASE now.state \in {"Open", "ForcedOpen"}
  <2>1. n = now
    BY <1>4, <1>8
  <2> QED
    BY <1>1, <1>8, <2>1 DEF now, n
<1> QED
  BY <1>1, <1>5, <1>6, <1>7, <1>8 DEF State

-----------------------------------------------------------------------------
(* The inductive invariant.  Beyond the properties themselves it says that *)
(* probes are calls in flight and exist only while the breaker is          *)
(* half-open, and that an open breaker's window is empty: that is why a    *)
(* reader that finds the period expired has nothing to destroy.            *)

ProbesAreInFlight ==
    /\ \A c \in probes : pc[c] = "running"
    /\ probes # {} => cb.state = "HalfOpen"

IInv ==
    /\ TypeOK
    /\ BreakerInv(cb)
    /\ ProbesAreInFlight
    /\ ReaderRaceHarmless
    /\ HalfOpenQuotaRespected
    /\ NoSlotLeaked

LEMMA ProbesFinite == ASSUME TypeOK PROVE IsFiniteSet(probes) /\ Cardinality(probes) \in Nat
BY CallersAssumption, FS_Subset, FS_CardinalityType DEF TypeOK

(* Between readers the bookkeeping of a half-open period is in order.      *)
LEMMA LockedFacts ==
    ASSUME IInv, LockFree
    PROVE  /\ Settled
           /\ cb.state = "HalfOpen" => /\ cb.halfOpenAllowed = Quota
                                       /\ Cardinality(probes) <= cb.halfOpenCount
           /\ \A r \in Readers : rpc[r] = "idle"
BY DEF IInv, LockFree, Settled, HalfOpenQuotaRespected

LEMMA InitInv == Init => IInv
<1> SUFFICES ASSUME Init PROVE IInv
  OBVIOUS
<1>1. /\ 0 \in 0 .. WindowSize - 1 /\ 0 \in 0 .. Word32 - 1 /\ 0 \in 0 .. Word64 - 1
      /\ 0 \in 0 .. Quota /\ 0 \in 0 .. OpenPeriod /\ EmptyRing \in [Slots -> Results]
  BY ParameterTypes, ConfigAssumption, Word64Assumption
  DEF EmptyRing, Results, Unwritten
<1>2. cb \in Breakers /\ cb.state = "Closed"
  BY <1>1 DEF Init, NewBreaker, Breakers, State
<1>3. TypeOK
  BY <1>1, <1>2 DEF Init, TypeOK
<1>4. Cardinality(probes) = 0
  BY FS_EmptySet DEF Init
<1> QED
  BY <1>2, <1>3, <1>4, ParameterTypes
  DEF Init, IInv, BreakerInv, ProbesAreInFlight, ReaderRaceHarmless,
      HalfOpenQuotaRespected, NoSlotLeaked

(* The parts of IInv that are left to show once a step is known to give    *)
(* the breaker and the probes good values.                                 *)
LEMMA LockedStep ==
    ASSUME IInv, LockFree, rpc' = rpc, TypeOK', BreakerInv(cb)', ProbesAreInFlight',
           cb'.state = "HalfOpen" =>
               /\ cb'.halfOpenAllowed = Quota
               /\ Cardinality(probes') <= cb'.halfOpenCount
               /\ ~CanPanic =>
                    cb'.halfOpenCount <= Cardinality(probes') + cb'.totalCalls
    PROVE  IInv'
<1>1. ReaderRaceHarmless'
  BY DEF LockFree, ReaderRaceHarmless
<1>2. Cardinality(probes') <= Quota
  <2>1. CASE probes' = {}
    BY <2>1, FS_EmptySet, ParameterTypes, ConfigAssumption
  <2>2. CASE probes' # {}
    <3>1. /\ Cardinality(probes') <= cb'.halfOpenCount
          /\ cb'.halfOpenCount \in 0 .. Quota
      BY <2>2 DEF ProbesAreInFlight, TypeOK, Breakers
    <3>2. IsFiniteSet(probes') /\ Cardinality(probes') \in Nat
      BY CallersAssumption, FS_Subset, FS_CardinalityType DEF TypeOK
    <3> QED
      BY <3>1, <3>2, ParameterTypes, ConfigAssumption
  <2> QED
    BY <2>1, <2>2
<1> QED
  BY <1>1, <1>2 DEF IInv, HalfOpenQuotaRespected, NoSlotLeaked

LEMMA AdmitProbeInv ==
    ASSUME IInv, NEW c \in Callers, AdmitProbe(c)
    PROVE  IInv'
<1> DEFINE now == GetStateUnsafe(cb)
<1>1. BreakerInv(cb) /\ TypeOK /\ LockFree /\ ProbesAreInFlight
  BY DEF IInv, AdmitProbe
<1>2. /\ BreakerInv(now) /\ now.state = "HalfOpen" /\ now \in Breakers
      /\ now.halfOpenCount < now.halfOpenAllowed
  BY <1>1, GetStateFacts DEF AdmitProbe, HasSlot, BreakerInv
<1>3. /\ now.halfOpenAllowed = Quota
      /\ Cardinality(probes) <= now.halfOpenCount
      /\ ~CanPanic => now.halfOpenCount <= Cardinality(probes) + now.totalCalls
  <2>1. CASE Expired(cb)
    <3>1. probes = {} /\ Cardinality(probes) = 0
      BY <1>1, <2>1, FS_EmptySet DEF Expired, ProbesAreInFlight
    <3> QED
      BY <1>1, <2>1, <3>1, GetStateFacts DEF EmptyWindow
  <2>2. CASE ~Expired(cb)
    BY <1>1, <1>2, <2>2, GetStateFacts, LockedFacts DEF IInv, NoSlotLeaked
  <2> QED
    BY <2>1, <2>2
<1> HIDE DEF now
<1>4. /\ cb' = [now EXCEPT !.halfOpenCount = @ + 1]
      /\ probes' = probes \union {c} /\ pc[c] = "idle"
      /\ pc' = [pc EXCEPT ![c] = "running"]
      /\ UNCHANGED <<totalRejected, loaded, rpc>>
  BY DEF AdmitProbe, now
<1>5. now.halfOpenCount + 1 \in 0 .. Quota
  BY <1>2, <1>3, ParameterTypes, ConfigAssumption DEF Breakers
<1>6. /\ cb' \in Breakers /\ cb'.state = "HalfOpen"
      /\ cb'.halfOpenAllowed = Quota
      /\ cb'.halfOpenCount = now.halfOpenCount + 1
      /\ cb'.totalCalls = now.totalCalls
  BY <1>2, <1>3, <1>4, <1>5 DEF Breakers
<1>7. BreakerInv(cb)'
  BY <1>2, <1>4, <1>6 DEF BreakerInv, CleanSlate
<1>8. TypeOK'
  BY <1>1, <1>4, <1>6 DEF TypeOK
<1>9. ProbesAreInFlight'
  BY <1>1, <1>4, <1>6 DEF ProbesAreInFlight, TypeOK
<1>10. Cardinality(probes') = Cardinality(probes) + 1
  BY <1>1, <1>4, FS_AddElement, ProbesFinite DEF ProbesAreInFlight
<1>11. /\ Cardinality(probes) \in Nat /\ now.halfOpenCount \in Nat
       /\ now.totalCalls \in Nat
  BY <1>1, <1>2, ProbesFinite DEF Breakers
<1>12. /\ Cardinality(probes') <= cb'.halfOpenCount
       /\ ~CanPanic => cb'.halfOpenCount <= Cardinality(probes') + cb'.totalCalls
  BY <1>3, <1>6, <1>10, <1>11
<1> QED
  BY <1>1, <1>4, <1>6, <1>7, <1>8, <1>9, <1>12, LockedStep

LEMMA RefuseInv ==
    ASSUME IInv, NEW c \in Callers, Refuse(c)
    PROVE  IInv'
<1>1. BreakerInv(cb) /\ TypeOK /\ LockFree /\ ProbesAreInFlight
  BY DEF IInv, Refuse
<1>2. ~Expired(cb)
  BY <1>1, GetStateFacts, ParameterTypes, ConfigAssumption
  DEF Refuse, Refusing, HasSlot
<1>3. cb' = cb /\ UNCHANGED <<totalRejected, loaded, rpc, probes>>
  BY <1>1, <1>2, GetStateFacts DEF Refuse
<1>4. pc[c] = "idle" /\ pc' = [pc EXCEPT ![c] = "rejected"]
  BY DEF Refuse
<1>5. TypeOK' /\ ProbesAreInFlight'
  BY <1>1, <1>3, <1>4 DEF TypeOK, ProbesAreInFlight
<1> QED
  BY <1>3, <1>5 DEF IInv, ReaderRaceHarmless, HalfOpenQuotaRespected, NoSlotLeaked,
     BreakerInv, CleanSlate, EmptyWindow, Settled, Expired

LEMMA AfterCallInv ==
    ASSUME IInv, NEW c \in Callers, NEW failed \in BOOLEAN, NEW slow \in BOOLEAN,
           AfterCall(c, failed, slow)
    PROVE  IInv'
<1> DEFINE now == GetStateUnsafe(cb)
<1>1. BreakerInv(cb) /\ TypeOK /\ LockFree /\ ProbesAreInFlight
  BY DEF IInv, AfterCall
<1>2. /\ pc[c] = "running" /\ pc' = [pc EXCEPT ![c] = "idle"]
      /\ cb' = Settle(cb, failed, slow)
      /\ probes' = IF cb'.state = "HalfOpen" THEN probes \ {c} ELSE {}
      /\ UNCHANGED <<totalRejected, loaded, rpc>>
  BY DEF AfterCall, EndPeriod
<1>3. /\ BreakerInv(cb)'
      /\ cb'.state = "HalfOpen" =>
            /\ now.state = "HalfOpen"
            /\ cb'.halfOpenAllowed = Quota
            /\ cb'.halfOpenCount = now.halfOpenCount
            /\ cb'.totalCalls = now.totalCalls + 1
  BY <1>1, <1>2, SettleFacts, LockedFacts DEF BreakerInv, CleanSlate, EmptyWindow
<1>4. TypeOK'
  BY <1>1, <1>2, <1>3 DEF TypeOK, BreakerInv
<1>5. ProbesAreInFlight'
  BY <1>1, <1>2 DEF ProbesAreInFlight, TypeOK
<1>6. ASSUME cb'.state = "HalfOpen"
      PROVE  /\ Cardinality(probes') <= cb'.halfOpenCount
             /\ ~CanPanic => cb'.halfOpenCount <= Cardinality(probes') + cb'.totalCalls
  <2>1. /\ probes' = probes \ {c}
        /\ IsFiniteSet(probes) /\ Cardinality(probes) \in Nat
        /\ Cardinality(probes') =
              IF c \in probes THEN Cardinality(probes) - 1 ELSE Cardinality(probes)
    BY <1>1, <1>2, <1>6, ProbesFinite, FS_RemoveElement
  <2>2. /\ Cardinality(probes) <= now.halfOpenCount
        /\ ~CanPanic => now.halfOpenCount <= Cardinality(probes) + now.totalCalls
    <3>1. CASE Expired(cb)
      <4>1. probes = {} /\ Cardinality(probes) = 0
        BY <1>1, <3>1, FS_EmptySet DEF Expired, ProbesAreInFlight
      <4> QED
        BY <1>1, <3>1, <4>1, GetStateFacts DEF EmptyWindow
    <3>2. CASE ~Expired(cb)
      BY <1>1, <1>3, <1>6, <3>2, GetStateFacts, LockedFacts DEF IInv, NoSlotLeaked
    <3> QED
      BY <3>1, <3>2
  <2>3. now.halfOpenCount \in Nat /\ now.totalCalls \in Nat
    BY <1>1, GetStateFacts DEF BreakerInv, Breakers
  <2> HIDE DEF now
  <2> QED
    BY <1>3, <1>6, <2>1, <2>2, <2>3
<1> QED
  BY <1>1, <1>2, <1>3, <1>4, <1>5, <1>6, LockedStep

LEMMA PanicInv ==
    ASSUME IInv, NEW c \in Callers, Panic(c)
    PROVE  IInv'
<1>1. /\ CanPanic /\ pc[c] = "running" /\ pc' = [pc EXCEPT ![c] = "idle"]
      /\ probes' = probes \ {c}
      /\ UNCHANGED <<cb, totalRejected, loaded, rpc>>
  BY DEF Panic
<1>2. TypeOK' /\ ProbesAreInFlight'
  BY <1>1 DEF IInv, TypeOK, ProbesAreInFlight
<1>3. Cardinality(probes') <= Cardinality(probes) /\ Cardinality(probes') \in Nat
  BY <1>1, ProbesFinite, FS_RemoveElement, FS_CardinalityType DEF IInv
<1>4. HalfOpenQuotaRespected'
  <2>1. cb.halfOpenCount \in Nat /\ Cardinality(probes) \in Nat /\ Quota \in Nat
    BY ProbesFinite, ParameterTypes, ConfigAssumption DEF IInv, TypeOK, Breakers
  <2> QED
    BY <1>1, <1>3, <2>1 DEF IInv, HalfOpenQuotaRespected, Settled
<1> QED
  BY <1>1, <1>2, <1>4
  DEF IInv, ReaderRaceHarmless, NoSlotLeaked, BreakerInv, CleanSlate, EmptyWindow, Expired

LEMMA ResetInv == ASSUME IInv, Reset PROVE IInv'
<1> DEFINE w == ClearWindow(cb)
<1>1. TypeOK /\ LockFree /\ cb \in Breakers
  BY DEF IInv, Reset, TypeOK
<1>2. w \in Breakers /\ EmptyWindow(w)
  BY <1>1, ClearWindowFacts
<1> HIDE DEF w
<1>3. /\ cb' = [w EXCEPT !.state = "Closed", !.halfOpenCount = 0]
      /\ probes' = IF cb'.state = "HalfOpen" THEN probes ELSE {}
      /\ UNCHANGED <<totalRejected, pc, loaded, rpc>>
  BY DEF Reset, EndPeriod, w
<1>4. 0 \in 0 .. Quota
  BY ParameterTypes, ConfigAssumption
<1>5. cb' \in Breakers /\ cb'.state = "Closed"
  BY <1>2, <1>3, <1>4 DEF Breakers, State
<1>6. TypeOK' /\ BreakerInv(cb)' /\ ProbesAreInFlight'
  BY <1>1, <1>3, <1>5 DEF TypeOK, BreakerInv, ProbesAreInFlight
<1> QED
  BY <1>1, <1>3, <1>5, <1>6, LockedStep

LEMMA ForceOpenInv == ASSUME IInv, ForceOpen PROVE IInv'
<1>1. TypeOK /\ LockFree /\ cb \in Breakers
  BY DEF IInv, ForceOpen, TypeOK
<1>2. /\ cb' = [cb EXCEPT !.state = "ForcedOpen"]
      /\ probes' = IF cb'.state = "HalfOpen" THEN probes ELSE {}
      /\ UNCHANGED <<totalRejected, pc, loaded, rpc>>
  BY DEF ForceOpen, EndPeriod
<1>3. cb' \in Breakers /\ cb'.state = "ForcedOpen"
  BY <1>1, <1>2 DEF Breakers, State
<1>4. TypeOK' /\ BreakerInv(cb)' /\ ProbesAreInFlight'
  BY <1>1, <1>2, <1>3 DEF TypeOK, BreakerInv, ProbesAreInFlight
<1> QED
  BY <1>1, <1>2, <1>3, <1>4, LockedStep

LEMMA TickInv == ASSUME IInv, Tick PROVE IInv'
<1>1. /\ cb \in Breakers /\ cb.state = "Open" /\ cb.sinceOpen < OpenPeriod
      /\ cb' = [cb EXCEPT !.sinceOpen = @ + 1]
      /\ UNCHANGED <<totalRejected, pc, loaded, rpc, probes>>
  BY DEF IInv, TypeOK, Tick
<1>2. cb.sinceOpen + 1 \in 0 .. OpenPeriod
  BY <1>1, ParameterTypes DEF Breakers
<1>3. /\ cb' \in Breakers /\ cb'.state = "Open"
      /\ EmptyWindow(cb) => EmptyWindow(cb)'
  BY <1>1, <1>2 DEF Breakers, EmptyWindow
<1>4. \A r \in Readers : rpc[r] \notin {"transition", "refresh"}
  BY <1>1, ParameterTypes DEF IInv, ReaderRaceHarmless, Expired, Breakers
<1>5. TypeOK' /\ BreakerInv(cb)' /\ ProbesAreInFlight'
  BY <1>1, <1>3 DEF IInv, TypeOK, BreakerInv, ProbesAreInFlight, EmptyWindow
<1> QED
  BY <1>1, <1>3, <1>4, <1>5
  DEF IInv, ReaderRaceHarmless, HalfOpenQuotaRespected, NoSlotLeaked

(* A reader that finds the period expired finds nothing to destroy.        *)
LEMMA ReadStateInv == ASSUME IInv, NEW r \in Readers, ReadState(r) PROVE IInv'
<1>1. /\ rpc[r] = "idle" /\ rpc \in [Readers -> {"idle", "transition", "refresh", "reading"}]
      /\ rpc' = [rpc EXCEPT ![r] = IF Expired(cb) THEN "transition" ELSE "reading"]
      /\ UNCHANGED <<cb, totalRejected, pc, loaded, probes>>
  BY DEF IInv, TypeOK, ReadState
<1>2. TypeOK' /\ BreakerInv(cb)' /\ ProbesAreInFlight'
  BY <1>1 DEF IInv, TypeOK, ProbesAreInFlight, BreakerInv, CleanSlate, EmptyWindow
<1>3. Settled' = Settled
  BY <1>1 DEF Settled
<1>4. ReaderRaceHarmless'
  BY <1>1 DEF IInv, ReaderRaceHarmless, Expired, BreakerInv, EmptyWindow, ProbesAreInFlight
<1> QED
  BY <1>1, <1>2, <1>3, <1>4 DEF IInv, HalfOpenQuotaRespected, NoSlotLeaked

LEMMA WriteStateInv == ASSUME IInv, NEW r \in Readers, WriteState(r) PROVE IInv'
<1>1. /\ rpc[r] = "transition" /\ rpc \in [Readers -> {"idle", "transition", "refresh", "reading"}]
      /\ rpc' = [rpc EXCEPT ![r] = "refresh"] /\ cb \in Breakers
      /\ cb' = [cb EXCEPT !.state = "HalfOpen"]
      /\ UNCHANGED <<totalRejected, pc, loaded, probes>>
  BY DEF IInv, TypeOK, WriteState
<1>2. cb' \in Breakers /\ cb'.state = "HalfOpen"
  BY <1>1 DEF Breakers, State
<1>3. /\ probes = {}
      /\ EmptyWindow(cb)
  BY <1>1 DEF IInv, ReaderRaceHarmless, BreakerInv, EmptyWindow, CleanSlate, Expired
<1>4. EmptyWindow(cb)'
  BY <1>1, <1>3 DEF EmptyWindow, Breakers
<1>5. TypeOK' /\ ProbesAreInFlight'
  BY <1>1, <1>2, <1>3 DEF IInv, TypeOK, ProbesAreInFlight
<1>6. BreakerInv(cb)'
  BY <1>2, <1>4, ParameterTypes, ConfigAssumption DEF BreakerInv, EmptyWindow, CleanSlate
<1>7. ReaderRaceHarmless'
  BY <1>1, <1>2, <1>3, <1>4 DEF ReaderRaceHarmless, EmptyWindow
<1>8. ~Settled' /\ Cardinality(probes') <= Quota
  BY <1>1, <1>3, FS_EmptySet, ParameterTypes, ConfigAssumption DEF Settled
<1> QED
  BY <1>5, <1>6, <1>7, <1>8 DEF IInv, HalfOpenQuotaRespected, NoSlotLeaked

LEMMA WriteRestInv == ASSUME IInv, NEW r \in Readers, WriteRest(r) PROVE IInv'
<1>1. /\ rpc[r] = "refresh" /\ rpc \in [Readers -> {"idle", "transition", "refresh", "reading"}]
      /\ rpc' = [rpc EXCEPT ![r] = "reading"] /\ cb \in Breakers
      /\ cb' = Refresh(cb)
      /\ UNCHANGED <<totalRejected, pc, loaded, probes>>
  BY DEF IInv, TypeOK, WriteRest
<1>2. /\ cb.state = "HalfOpen" /\ probes = {}
  BY <1>1 DEF IInv, ReaderRaceHarmless
<1>3. /\ cb' \in Breakers /\ EmptyWindow(cb)' /\ cb'.state = "HalfOpen"
      /\ cb'.halfOpenAllowed = Quota /\ cb'.halfOpenCount = 0
  BY <1>1, <1>2, RefreshFacts DEF EmptyWindow
<1>4. TypeOK' /\ ProbesAreInFlight'
  BY <1>1, <1>2, <1>3 DEF IInv, TypeOK, ProbesAreInFlight
<1>5. BreakerInv(cb)'
  BY <1>3, ParameterTypes, ConfigAssumption DEF BreakerInv, EmptyWindow, CleanSlate
<1>6. ReaderRaceHarmless'
  BY <1>1, <1>2, <1>3 DEF ReaderRaceHarmless, EmptyWindow
<1>7. Cardinality(probes') = 0 /\ cb'.totalCalls = 0
  BY <1>1, <1>2, <1>3, FS_EmptySet DEF EmptyWindow
<1> QED
  BY <1>3, <1>4, <1>5, <1>6, <1>7, ParameterTypes, ConfigAssumption
  DEF IInv, HalfOpenQuotaRespected, NoSlotLeaked

LEMMA RUnlockInv == ASSUME IInv, NEW r \in Readers, RUnlock(r) PROVE IInv'
<1>1. /\ rpc[r] = "reading" /\ rpc \in [Readers -> {"idle", "transition", "refresh", "reading"}]
      /\ rpc' = [rpc EXCEPT ![r] = "idle"]
      /\ UNCHANGED <<cb, totalRejected, pc, loaded, probes>>
  BY DEF IInv, TypeOK, RUnlock
<1>2. TypeOK' /\ BreakerInv(cb)' /\ ProbesAreInFlight'
  BY <1>1 DEF IInv, TypeOK, ProbesAreInFlight, BreakerInv, CleanSlate, EmptyWindow
<1>3. Settled' = Settled
  BY <1>1 DEF Settled
<1>4. ReaderRaceHarmless'
  BY <1>1 DEF IInv, ReaderRaceHarmless, Expired
<1> QED
  BY <1>1, <1>2, <1>3, <1>4 DEF IInv, HalfOpenQuotaRespected, NoSlotLeaked

(* Steps that move one caller and leave the breaker and the probes alone.  *)
LEMMA CallerMoveInv ==
    ASSUME IInv, UNCHANGED <<cb, rpc, probes>>, TypeOK', ProbesAreInFlight'
    PROVE  IInv'
BY DEF IInv, BreakerInv, CleanSlate, EmptyWindow, ReaderRaceHarmless, Expired,
       HalfOpenQuotaRespected, NoSlotLeaked, Settled

LEMMA NextInv == IInv /\ [Next]_vars => IInv'
<1> SUFFICES ASSUME IInv, [Next]_vars PROVE IInv'
  OBVIOUS
<1> USE DEF IInv
<1>1. ASSUME NEW c \in Callers, AdmitNormal(c) PROVE IInv'
  <2>1. TypeOK' /\ ProbesAreInFlight' /\ UNCHANGED <<cb, rpc, probes>>
    BY <1>1 DEF AdmitNormal, TypeOK, ProbesAreInFlight
  <2> QED
    BY <2>1, CallerMoveInv
<1>2. ASSUME NEW c \in Callers, LoadRejected(c) PROVE IInv'
  <2>1. TypeOK' /\ ProbesAreInFlight' /\ UNCHANGED <<cb, rpc, probes>>
    BY <1>2 DEF LoadRejected, TypeOK, ProbesAreInFlight
  <2> QED
    BY <2>1, CallerMoveInv
<1>3. ASSUME NEW c \in Callers, StoreRejected(c) PROVE IInv'
  <2>1. (loaded[c] + 1) % Word64 \in 0 .. Word64 - 1
    BY Word64Assumption DEF TypeOK
  <2>2. TypeOK' /\ ProbesAreInFlight' /\ UNCHANGED <<cb, rpc, probes>>
    BY <1>3, <2>1 DEF StoreRejected, TypeOK, ProbesAreInFlight
  <2> QED
    BY <2>2, CallerMoveInv
<1>4. ASSUME NEW c \in Callers, BeforeCall(c) PROVE IInv'
  BY <1>1, <1>4, AdmitProbeInv, RefuseInv DEF BeforeCall
<1>5. ASSUME NEW c \in Callers, Return(c) PROVE IInv'
  <2> PICK failed \in BOOLEAN, slow \in SlowOutcomes : AfterCall(c, failed, slow)
    BY <1>5 DEF Return
  <2> QED
    BY AfterCallInv DEF SlowOutcomes
<1>6. ASSUME NEW c \in Callers, CallerStep(c) PROVE IInv'
  BY <1>2, <1>3, <1>4, <1>5, <1>6, PanicInv DEF CallerStep
<1>7. ASSUME NEW r \in Readers, ReadState(r) \/ Inspect(r) PROVE IInv'
  BY <1>7, ReadStateInv, WriteStateInv, WriteRestInv, RUnlockInv DEF Inspect
<1>8. CASE UNCHANGED vars
  BY <1>8, CallerMoveInv DEF vars, TypeOK, ProbesAreInFlight
<1> QED
  BY <1>6, <1>7, <1>8, TickInv, ResetInv, ForceOpenInv DEF Next

(* A shut breaker gives its own state back to every handler.               *)
LEMMA ShutFacts ==
    ASSUME IInv, Shut
    PROVE  /\ GetStateUnsafe(cb) = cb /\ cb.state \in {"Open", "ForcedOpen"}
           /\ LockFree => \A failed, slow \in BOOLEAN : Settle(cb, failed, slow) = cb
           /\ \A r \in Readers : rpc[r] \notin {"transition", "refresh"}
<1>1. BreakerInv(cb) /\ ~Expired(cb) /\ cb.state \in {"Open", "ForcedOpen"}
  BY DEF IInv, Shut, Expired
<1>2. GetStateUnsafe(cb) = cb
  BY <1>1, GetStateFacts
<1>3. \A failed, slow \in BOOLEAN : Settle(cb, failed, slow) = cb
  BY <1>1, <1>2, SettleFacts
<1>4. \A r \in Readers : rpc[r] \notin {"transition", "refresh"}
  BY <1>1 DEF IInv, ReaderRaceHarmless
<1> QED
  BY <1>1, <1>2, <1>3, <1>4

LEMMA ShutStep ==
    ASSUME IInv, Next, Shut
    PROVE  /\ \A c \in Callers : pc[c] = "idle" => pc'[c] # "running"
           /\ cb'.state = cb.state \/ Reset \/ ForceOpen
<1> DEFINE Stays == /\ \A c \in Callers : pc[c] = "idle" => pc'[c] # "running"
                    /\ cb'.state = cb.state
<1>1. pc \in [Callers -> {"idle", "running", "rejected", "counting"}]
  BY DEF IInv, TypeOK
<1>2. ASSUME NEW d \in Callers, BeforeCall(d) PROVE Stays
  <2>1. ~AdmitNormal(d) /\ ~AdmitProbe(d)
    BY ShutFacts DEF AdmitNormal, AdmitProbe, HasSlot
  <2>2. cb' = cb /\ pc' = [pc EXCEPT ![d] = "rejected"]
    BY <1>2, <2>1, ShutFacts DEF BeforeCall, Refuse
  <2> QED
    BY <1>1, <2>2
<1>3. ASSUME NEW d \in Callers, Return(d) PROVE Stays
  <2>1. PICK failed \in BOOLEAN, slow \in SlowOutcomes : AfterCall(d, failed, slow)
    BY <1>3 DEF Return
  <2>2. slow \in BOOLEAN
    BY DEF SlowOutcomes
  <2>3. cb' = cb /\ pc' = [pc EXCEPT ![d] = "idle"]
    BY <2>1, <2>2, ShutFacts DEF AfterCall
  <2> QED
    BY <1>1, <2>3
<1>4. ASSUME NEW d \in Callers, Panic(d) \/ LoadRejected(d) \/ StoreRejected(d) PROVE Stays
  BY <1>1, <1>4 DEF Panic, LoadRejected, StoreRejected
<1>5. ASSUME NEW r \in Readers, ReadState(r) \/ Inspect(r) PROVE Stays
  BY <1>5, ShutFacts DEF ReadState, Inspect, WriteState, WriteRest, RUnlock
<1>6. ASSUME Tick PROVE Stays
  BY <1>6 DEF Tick, IInv, TypeOK, Breakers
<1>7. ASSUME Reset \/ ForceOpen PROVE pc' = pc
  BY <1>7 DEF Reset, ForceOpen
<1> QED
  BY <1>2, <1>3, <1>4, <1>5, <1>6, <1>7 DEF Next, CallerStep

-----------------------------------------------------------------------------
(* Refinement of BreakerProtocol.  A reader that is late finds no slot     *)
(* handed out, so that its write of 0 to halfOpenCount changes nothing.    *)
LateReaders ==
    \A r \in Readers :
        rpc[r] = "transition" /\ cb.state = "HalfOpen" /\ Settled => cb.halfOpenCount = 0

LEMMA LateReadersStep == ASSUME IInv, LateReaders, [Next]_vars PROVE LateReaders'
<1>1. rpc \in [Readers -> {"idle", "transition", "refresh", "reading"}]
  BY DEF IInv, TypeOK
<1>2. ASSUME rpc' = rpc, cb' = cb PROVE LateReaders'
  BY <1>2 DEF LateReaders, Settled
<1>3. ASSUME rpc' = rpc, LockFree PROVE LateReaders'
  BY <1>3 DEF LateReaders, LockFree
<1>4. ASSUME Tick PROVE LateReaders'
  BY <1>4 DEF Tick, LateReaders, IInv, TypeOK, Breakers
<1>5. ASSUME NEW r \in Readers, ReadState(r) PROVE LateReaders'
  BY <1>1, <1>5 DEF ReadState, LateReaders, Settled, Expired
<1>6. ASSUME NEW r \in Readers, WriteState(r) PROVE LateReaders'
  <2>1. rpc'[r] = "refresh"
    BY <1>1, <1>6 DEF WriteState
  <2> QED
    BY <2>1 DEF LateReaders, Settled
<1>7. ASSUME NEW r \in Readers, WriteRest(r) PROVE LateReaders'
  <2>1. cb' = Refresh(cb) /\ cb \in Breakers
    BY <1>7 DEF WriteRest, IInv, TypeOK
  <2> QED
    BY <2>1, RefreshFacts DEF LateReaders
<1>8. ASSUME NEW r \in Readers, RUnlock(r) PROVE LateReaders'
  BY <1>1, <1>8 DEF RUnlock, LateReaders, Settled
<1>9. ASSUME NEW c \in Callers, CallerStep(c) PROVE LateReaders'
  BY <1>2, <1>3, <1>9 DEF CallerStep, BeforeCall, AdmitNormal, AdmitProbe, Refuse, Return, AfterCall,
     Panic, LoadRejected, StoreRejected
<1>10. CASE Reset \/ ForceOpen
  BY <1>3, <1>10 DEF Reset, ForceOpen
<1>11. CASE UNCHANGED vars
  BY <1>2, <1>11 DEF vars
<1> QED
  BY <1>4, <1>5, <1>6, <1>7, <1>8, <1>9, <1>10, <1>11 DEF Next, Inspect

(* What the refinement mapping puts for the variables of the protocol.     *)
TrialSlots == IF cb.state = "HalfOpen" /\ Settled THEN cb.halfOpenCount ELSE 0
TrialPassed == IF cb.state = "HalfOpen" THEN cb.totalCalls ELSE 0
Running == {c \in Callers : pc[c] = "running"}
TurnedAway == {c \in Callers : pc[c] \in {"rejected", "counting"}}

LEMMA MappedSets ==
    ASSUME IInv, NEW c \in Callers, NEW to \in {"idle", "running", "rejected", "counting"},
           pc' = [pc EXCEPT ![c] = to]
    PROVE  /\ to = "running" => Running' = Running \cup {c}
           /\ to # "running" => Running' = Running \ {c}
           /\ pc[c] # "running" /\ to # "running" => Running' = Running
           /\ to \in {"rejected", "counting"} => TurnedAway' = TurnedAway \cup {c}
           /\ to \notin {"rejected", "counting"} => TurnedAway' = TurnedAway \ {c}
           /\ (pc[c] \in {"rejected", "counting"} <=> to \in {"rejected", "counting"}) =>
                TurnedAway' = TurnedAway
           /\ c \in Running <=> pc[c] = "running"
           /\ c \in TurnedAway <=> pc[c] \in {"rejected", "counting"}
<1>1. /\ pc'[c] = to
      /\ \A d \in Callers \ {c} : pc'[d] = pc[d]
  BY DEF IInv, TypeOK
<1>2. /\ \A d : d \in Running <=> d \in Callers /\ pc[d] = "running"
      /\ \A d : d \in Running' <=> d \in Callers /\ pc'[d] = "running"
      /\ \A d : d \in TurnedAway <=> d \in Callers /\ pc[d] \in {"rejected", "counting"}
      /\ \A d : d \in TurnedAway' <=> d \in Callers /\ pc'[d] \in {"rejected", "counting"}
  BY DEF Running, TurnedAway
<1> QED
  BY <1>1, <1>2

LEMMA SameSets == ASSUME pc' = pc PROVE Running' = Running /\ TurnedAway' = TurnedAway
BY DEF Running, TurnedAway

(* Between readers the mapping shows the breaker as it is.                 *)
LEMMA LockedMapping ==
    ASSUME IInv, LockFree, rpc' = rpc
    PROVE  /\ cb.state = "HalfOpen" => TrialSlots = cb.halfOpenCount /\ TrialPassed = cb.totalCalls
           /\ cb.state # "HalfOpen" => TrialSlots = 0 /\ TrialPassed = 0
           /\ cb'.state = "HalfOpen" =>
                TrialSlots' = cb'.halfOpenCount /\ TrialPassed' = cb'.totalCalls
           /\ cb'.state # "HalfOpen" => TrialSlots' = 0 /\ TrialPassed' = 0
BY DEF LockFree, Settled, TrialSlots, TrialPassed

(* The lazy transition, as the mapping shows it.                           *)
LEMMA NowFacts ==
    ASSUME IInv, LockFree, rpc' = rpc, NEW now, now = GetStateUnsafe(cb)
    PROVE  /\ now.state = "HalfOpen" =>
                /\ Protocol!OnTrial /\ now.halfOpenCount = TrialSlots
                /\ now.totalCalls = TrialPassed /\ now.halfOpenAllowed = Quota
           /\ now.state # "HalfOpen" => now = cb
           /\ now.state \in {"Open", "ForcedOpen"} => Protocol!Shut
           /\ now.sinceOpen = cb.sinceOpen
           /\ now.state \in State /\ now.totalCalls \in Nat
           /\ now.halfOpenCount \in 0 .. Quota
<1>1. BreakerInv(cb) /\ BreakerInv(now)
  BY GetStateFacts DEF IInv
<1>2. now.state \in State /\ now.totalCalls \in Nat /\ now.halfOpenCount \in 0 .. Quota
  BY <1>1, ConfigAssumption DEF BreakerInv, Breakers
<1>3. CASE Expired(cb)
  <2>1. /\ now.state = "HalfOpen" /\ now.halfOpenAllowed = Quota /\ now.halfOpenCount = 0
        /\ now.totalCalls = 0 /\ now.sinceOpen = cb.sinceOpen
    BY <1>1, <1>3, GetStateFacts DEF EmptyWindow
  <2>2. TrialSlots = 0 /\ TrialPassed = 0
    BY <1>3, LockedMapping DEF Expired
  <2>3. Protocol!OnTrial
    BY <1>3 DEF Expired, Protocol!OnTrial, Protocol!Lapsed
  <2> QED
    BY <1>2, <2>1, <2>2, <2>3
<1>4. CASE ~Expired(cb)
  <2>1. now = cb
    BY <1>1, <1>4, GetStateFacts
  <2>2. cb.state = "HalfOpen" => cb.halfOpenAllowed = Quota
    BY LockedFacts
  <2>3. cb.state \in {"Open", "ForcedOpen"} => Protocol!Shut
    BY <1>4 DEF Expired, Protocol!Shut, Protocol!Lapsed
  <2>4. cb.state = "HalfOpen" => Protocol!OnTrial
    BY DEF Protocol!OnTrial
  <2> QED
    BY <1>2, <2>1, <2>2, <2>3, <2>4, LockedMapping
<1> QED
  BY <1>3, <1>4

LEMMA BeforeCallKeeps ==
    ASSUME IInv, NEW c \in Callers, BeforeCall(c)
    PROVE  Protocol!Next
<1> DEFINE now == GetStateUnsafe(cb)
<1>1. LockFree /\ rpc' = rpc /\ pc[c] = "idle"
  BY DEF BeforeCall, AdmitNormal, AdmitProbe, Refuse
<1>2. CASE AdmitNormal(c)
  <2>1. /\ Running' = Running \cup {c} /\ TurnedAway' = TurnedAway
        /\ c \notin Running /\ c \notin TurnedAway
    BY <1>1, <1>2, MappedSets DEF AdmitNormal
  <2>2. cb' = cb /\ cb.state = "Closed" /\ TrialSlots' = TrialSlots /\ TrialPassed' = TrialPassed
    BY <1>1, <1>2, LockedMapping DEF AdmitNormal
  <2>3. Protocol!Admit(c)
    BY <2>1, <2>2
    DEF Protocol!Admit, Protocol!Enters, TrialSlots, TrialPassed, Running, TurnedAway
  <2> QED
    BY <2>3 DEF Protocol!Next
<1>3. CASE AdmitProbe(c)
  <2>1. /\ Running' = Running \cup {c} /\ TurnedAway' = TurnedAway
        /\ c \notin Running /\ c \notin TurnedAway
    BY <1>1, <1>3, MappedSets DEF AdmitProbe
  <2>2. /\ now.state = "HalfOpen" /\ now.halfOpenCount < now.halfOpenAllowed
        /\ cb' = [now EXCEPT !.halfOpenCount = @ + 1]
    BY <1>3 DEF AdmitProbe, HasSlot
  <2>3. now \in Breakers
    BY GetStateFacts DEF IInv, BreakerInv
  <2> HIDE DEF now
  <2>4. /\ Protocol!OnTrial /\ now.halfOpenCount = TrialSlots
        /\ now.totalCalls = TrialPassed /\ now.halfOpenAllowed = Quota
        /\ now.sinceOpen = cb.sinceOpen
    BY <1>1, <2>2, NowFacts DEF now
  <2>5. /\ cb'.state = "HalfOpen" /\ cb'.halfOpenCount = now.halfOpenCount + 1
        /\ cb'.totalCalls = now.totalCalls /\ cb'.sinceOpen = cb.sinceOpen
    BY <2>2, <2>3, <2>4 DEF Breakers
  <2>6. TrialSlots < Quota /\ TrialSlots' = TrialSlots + 1 /\ TrialPassed' = TrialPassed
    BY <1>1, <2>2, <2>4, <2>5, LockedMapping
  <2>7. Protocol!Probe(c)
    BY <2>1, <2>4, <2>5, <2>6
    DEF Protocol!Probe, Protocol!Enters, TrialSlots, TrialPassed, Running, TurnedAway
  <2> QED
    BY <2>7 DEF Protocol!Next
<1>4. CASE Refuse(c)
  <2>1. /\ Running' = Running /\ TurnedAway' = TurnedAway \cup {c}
        /\ c \notin Running /\ c \notin TurnedAway
    BY <1>1, <1>4, MappedSets DEF Refuse
  <2>2. now.state # "Closed" /\ ~HasSlot(now) /\ cb' = now
    BY <1>4 DEF Refuse, Refusing
  <2> HIDE DEF now
  <2>3. CASE now.state = "HalfOpen"
    <3>1. /\ Protocol!OnTrial /\ now.halfOpenCount = TrialSlots /\ now.halfOpenAllowed = Quota
          /\ now.halfOpenCount \in 0 .. Quota
      BY <1>1, <2>3, NowFacts DEF now
    <3>2. TrialSlots = Quota /\ Quota \in Nat \ {0}
      BY <2>2, <2>3, <3>1, ParameterTypes, ConfigAssumption DEF HasSlot
    <3>3. cb.state = "HalfOpen"
      BY <3>2 DEF TrialSlots
    <3>4. cb' = cb
      BY <2>2, <3>3, GetStateFacts DEF Expired, IInv, now
    <3>5. TrialSlots' = TrialSlots /\ TrialPassed' = TrialPassed
      BY <1>1, <3>3, <3>4, LockedMapping
    <3>6. Protocol!Refuse(c)
      BY <2>1, <3>2, <3>3, <3>4, <3>5
      DEF Protocol!Refuse, TrialSlots, TrialPassed, Running, TurnedAway
    <3> QED
      BY <3>6 DEF Protocol!Next
  <2>4. CASE now.state # "HalfOpen"
    <3>1. cb' = cb /\ Protocol!Shut /\ cb.state # "HalfOpen"
      BY <1>1, <2>2, <2>4, NowFacts DEF now, State
    <3>2. TrialSlots' = TrialSlots /\ TrialPassed' = TrialPassed
      BY <1>1, <3>1, LockedMapping
    <3>3. Protocol!Refuse(c)
      BY <2>1, <3>1, <3>2
      DEF Protocol!Refuse, TrialSlots, TrialPassed, Running, TurnedAway
    <3> QED
      BY <3>3 DEF Protocol!Next
  <2> QED
    BY <2>3, <2>4
<1> QED
  BY <1>2, <1>3, <1>4 DEF BeforeCall

LEMMA AfterCallKeeps ==
    ASSUME IInv, NEW c \in Callers, NEW failed \in BOOLEAN, NEW slow \in BOOLEAN,
           AfterCall(c, failed, slow)
    PROVE  Protocol!Next
<1> DEFINE now == GetStateUnsafe(cb)
           n == Settle(cb, failed, slow)
<1>1. LockFree /\ rpc' = rpc /\ pc[c] = "running" /\ pc' = [pc EXCEPT ![c] = "idle"] /\ cb' = n
  BY DEF AfterCall
<1>2. Running' = Running \ {c} /\ TurnedAway' = TurnedAway /\ c \in Running
  BY <1>1, MappedSets
<1>3. /\ now.state \in {"Open", "ForcedOpen"} => n = now
      /\ now.state = "Closed" => n.state \in {"Closed", "Open"}
      /\ now.state = "HalfOpen" =>
           n.state = IF failed THEN "Open"
                     ELSE IF now.totalCalls + 1 < Quota THEN "HalfOpen" ELSE "Closed"
      /\ n.sinceOpen = IF n.state = "Open" /\ now.state # "Open" THEN 0 ELSE now.sinceOpen
      /\ n.state = "HalfOpen" => /\ now.state = "HalfOpen"
                                 /\ n.halfOpenCount = now.halfOpenCount
                                 /\ n.totalCalls = now.totalCalls + 1
  BY <1>1, LockedFacts, SettleFacts DEF IInv
<1> HIDE DEF now, n
<1>4. /\ now.state = "HalfOpen" =>
           /\ Protocol!OnTrial /\ now.halfOpenCount = TrialSlots /\ now.totalCalls = TrialPassed
      /\ now.state # "HalfOpen" => now = cb
      /\ now.state \in {"Open", "ForcedOpen"} => Protocol!Shut
      /\ now.sinceOpen = cb.sinceOpen /\ now.state \in State /\ now.totalCalls \in Nat
  BY <1>1, NowFacts DEF now
<1>5. Protocol!Returns(c)
  BY <1>2 DEF Protocol!Returns, Running, TurnedAway
<1>6. CASE now.state \in {"Open", "ForcedOpen"}
  <2>1. cb' = cb /\ Protocol!Shut /\ cb.state # "HalfOpen"
    BY <1>1, <1>3, <1>4, <1>6
  <2>2. TrialSlots' = TrialSlots /\ TrialPassed' = TrialPassed
    BY <1>1, <2>1, LockedMapping
  <2>3. Protocol!Unheard(c)
    BY <1>5, <2>1, <2>2 DEF Protocol!Unheard, TrialSlots, TrialPassed
  <2> QED
    BY <2>3 DEF Protocol!Next
<1>7. CASE now.state = "Closed" /\ n.state = "Closed"
  <2>1. cb.state = "Closed" /\ cb'.state = "Closed" /\ cb'.sinceOpen = cb.sinceOpen
    BY <1>1, <1>3, <1>4, <1>7
  <2>2. TrialSlots' = TrialSlots /\ TrialPassed' = TrialPassed
    BY <1>1, <2>1, LockedMapping
  <2>3. Protocol!Unheard(c)
    BY <1>5, <2>1, <2>2 DEF Protocol!Unheard, TrialSlots, TrialPassed
  <2> QED
    BY <2>3 DEF Protocol!Next
<1>8. CASE now.state = "Closed" /\ n.state = "Open"
  <2>1. cb.state = "Closed" /\ cb'.state = "Open" /\ cb'.sinceOpen = 0
    BY <1>1, <1>3, <1>4, <1>8
  <2>2. TrialSlots' = 0 /\ TrialPassed' = 0
    BY <1>1, <2>1, LockedMapping
  <2>3. Protocol!Trip(c)
    BY <1>5, <2>1, <2>2 DEF Protocol!Trip, Protocol!Turn, TrialSlots, TrialPassed
  <2> QED
    BY <2>3 DEF Protocol!Next
<1>9. CASE now.state = "HalfOpen" /\ failed
  <2>1. Protocol!OnTrial /\ cb'.state = "Open" /\ cb'.sinceOpen = 0
    BY <1>1, <1>3, <1>4, <1>9
  <2>2. TrialSlots' = 0 /\ TrialPassed' = 0
    BY <1>1, <2>1, LockedMapping
  <2>3. Protocol!Fail(c)
    BY <1>5, <2>1, <2>2 DEF Protocol!Fail, Protocol!Turn, TrialSlots, TrialPassed
  <2> QED
    BY <2>3 DEF Protocol!Next
<1>10. CASE now.state = "HalfOpen" /\ ~failed /\ now.totalCalls + 1 < Quota
  <2>1. /\ Protocol!OnTrial /\ cb'.state = "HalfOpen" /\ cb'.sinceOpen = cb.sinceOpen
        /\ cb'.halfOpenCount = TrialSlots /\ cb'.totalCalls = TrialPassed + 1
        /\ TrialPassed + 1 < Quota
    BY <1>1, <1>3, <1>4, <1>10
  <2>2. TrialSlots' = TrialSlots /\ TrialPassed' = TrialPassed + 1
    BY <1>1, <2>1, LockedMapping
  <2>3. Protocol!Pass(c)
    BY <1>5, <2>1, <2>2 DEF Protocol!Pass, TrialSlots, TrialPassed
  <2> QED
    BY <2>3 DEF Protocol!Next
<1>11. CASE now.state = "HalfOpen" /\ ~failed /\ ~(now.totalCalls + 1 < Quota)
  <2>1. now.totalCalls < Quota
    BY <1>11, GetStateFacts DEF IInv, BreakerInv, CleanSlate, now
  <2>2. TrialPassed + 1 = Quota
    BY <1>4, <1>11, <2>1, ParameterTypes, ConfigAssumption
  <2>3. Protocol!OnTrial /\ cb'.state = "Closed" /\ cb'.sinceOpen = cb.sinceOpen
    BY <1>1, <1>3, <1>4, <1>11
  <2>4. TrialSlots' = 0 /\ TrialPassed' = 0
    BY <1>1, <2>3, LockedMapping
  <2>5. Protocol!LastPass(c)
    BY <1>5, <2>2, <2>3, <2>4 DEF Protocol!LastPass, Protocol!Turn, TrialSlots, TrialPassed
  <2> QED
    BY <2>5 DEF Protocol!Next
<1> QED
  BY <1>3, <1>4, <1>6, <1>7, <1>8, <1>9, <1>10, <1>11 DEF State

LEMMA OrderKeeps == ASSUME IInv, Reset \/ ForceOpen PROVE Protocol!Next
<1>1. LockFree /\ rpc' = rpc /\ pc' = pc /\ cb \in Breakers
  BY DEF Reset, ForceOpen, IInv, TypeOK
<1>2. cb'.state \in {"Closed", "ForcedOpen"} /\ cb'.sinceOpen = cb.sinceOpen
  <2>1. CASE Reset
    <3>1. ClearWindow(cb) \in Breakers /\ ClearWindow(cb).sinceOpen = cb.sinceOpen
      BY <1>1, ClearWindowFacts
    <3> QED
      BY <2>1, <3>1 DEF Reset, Breakers
  <2>2. CASE ForceOpen
    BY <1>1, <2>2 DEF ForceOpen, Breakers
  <2> QED
    BY <2>1, <2>2
<1>3. TrialSlots' = 0 /\ TrialPassed' = 0
  BY <1>1, <1>2, LockedMapping
<1>4. Protocol!Order
  BY <1>1, <1>2, <1>3, SameSets
  DEF Protocol!Order, Protocol!Turn, TrialSlots, TrialPassed, Running, TurnedAway
<1> QED
  BY <1>4 DEF Protocol!Next

(* The steps that take no lock.                                            *)
LEMMA UnlockedKeeps ==
    ASSUME IInv, NEW c \in Callers, Panic(c) \/ LoadRejected(c) \/ StoreRejected(c)
    PROVE  [Protocol!Next]_Protocol!vars
<1>1. cb' = cb /\ rpc' = rpc
  BY DEF Panic, LoadRejected, StoreRejected
<1>2. TrialSlots' = TrialSlots /\ TrialPassed' = TrialPassed
  BY <1>1 DEF TrialSlots, TrialPassed, Settled
<1>3. CASE Panic(c)
  <2>1. CanPanic /\ c \in Running /\ Running' = Running \ {c} /\ TurnedAway' = TurnedAway
    BY <1>3, MappedSets DEF Panic
  <2>2. Protocol!Unheard(c)
    BY <1>1, <1>2, <2>1
    DEF Protocol!Unheard, Protocol!Returns, TrialSlots, TrialPassed, Running, TurnedAway
  <2> QED
    BY <2>2 DEF Protocol!Next
<1>4. CASE LoadRejected(c)
  <2>1. Running' = Running /\ TurnedAway' = TurnedAway
    BY <1>4, MappedSets DEF LoadRejected
  <2> QED
    BY <1>1, <1>2, <2>1 DEF Protocol!vars, TrialSlots, TrialPassed, Running, TurnedAway
<1>5. CASE StoreRejected(c)
  <2>1. Running' = Running /\ TurnedAway' = TurnedAway \ {c}
    BY <1>5, MappedSets DEF StoreRejected
  <2>2. Protocol!Depart(c)
    BY <1>1, <1>2, <2>1 DEF Protocol!Depart, TrialSlots, TrialPassed, Running, TurnedAway
  <2> QED
    BY <2>2 DEF Protocol!Next
<1> QED
  BY <1>3, <1>4, <1>5

LEMMA TickKeeps == ASSUME IInv, Tick PROVE Protocol!Next
<1>1. /\ cb.state = "Open" /\ cb'.state = "Open" /\ cb'.sinceOpen = cb.sinceOpen + 1
      /\ ~(cb.sinceOpen >= OpenPeriod) /\ pc' = pc
  BY ParameterTypes DEF Tick, IInv, TypeOK, Breakers
<1>2. TrialSlots' = TrialSlots /\ TrialPassed' = TrialPassed
  BY <1>1 DEF TrialSlots, TrialPassed
<1>3. Protocol!Wait
  BY <1>1, <1>2, SameSets
  DEF Protocol!Wait, Protocol!Lapsed, TrialSlots, TrialPassed, Running, TurnedAway
<1> QED
  BY <1>3 DEF Protocol!Next

(* Of a reader the protocol sees the first of several to set the state.    *)
LEMMA ReaderKeeps ==
    ASSUME IInv, LateReaders, NEW r \in Readers, ReadState(r) \/ Inspect(r)
    PROVE  [Protocol!Next]_Protocol!vars
<1>1. rpc \in [Readers -> {"idle", "transition", "refresh", "reading"}] /\ cb \in Breakers /\ pc' = pc
  BY DEF IInv, TypeOK, ReadState, Inspect, WriteState, WriteRest, RUnlock
<1>2. ASSUME cb'.state = cb.state, cb'.sinceOpen = cb.sinceOpen,
             TrialSlots' = TrialSlots, TrialPassed' = TrialPassed
      PROVE  UNCHANGED Protocol!vars
  BY <1>1, <1>2, SameSets DEF Protocol!vars, TrialSlots, TrialPassed, Running, TurnedAway
<1>3. CASE ReadState(r) \/ RUnlock(r)
  <2>1. cb' = cb
    BY <1>3 DEF ReadState, RUnlock
  <2>2. Settled' = Settled
    BY <1>1, <1>3 DEF ReadState, RUnlock, Settled
  <2> QED
    BY <1>2, <2>1, <2>2 DEF TrialSlots, TrialPassed
<1>4. CASE WriteState(r)
  <2>1. rpc[r] = "transition" /\ cb' = [cb EXCEPT !.state = "HalfOpen"] /\ rpc'[r] = "refresh"
    BY <1>1, <1>4 DEF WriteState
  <2>2. /\ cb'.state = "HalfOpen" /\ cb'.sinceOpen = cb.sinceOpen /\ cb.totalCalls = 0
        /\ cb'.totalCalls = 0 /\ (Expired(cb) \/ cb.state = "HalfOpen")
    BY <1>1, <2>1 DEF IInv, ReaderRaceHarmless, Breakers
  <2>3. ~Settled'
    BY <2>1 DEF Settled
  <2>4. TrialSlots = 0
    BY <2>1 DEF TrialSlots, LateReaders
  <2>5. TrialSlots' = 0 /\ TrialPassed' = 0 /\ TrialPassed = 0
    BY <2>2, <2>3 DEF TrialSlots, TrialPassed
  <2>6. CASE cb.state = "HalfOpen"
    BY <1>2, <2>2, <2>4, <2>5, <2>6
  <2>7. CASE Expired(cb)
    <3>1. Protocol!BeginTrial
      BY <1>1, <2>2, <2>5, <2>7, SameSets
      DEF Protocol!BeginTrial, Protocol!Lapsed, Protocol!Turn, Expired, TrialSlots, TrialPassed,
          Running, TurnedAway
    <3> QED
      BY <3>1 DEF Protocol!Next
  <2> QED
    BY <2>2, <2>6, <2>7
<1>5. CASE WriteRest(r)
  <2>1. rpc[r] = "refresh" /\ cb' = Refresh(cb)
    BY <1>5 DEF WriteRest
  <2>2. /\ cb.state = "HalfOpen" /\ cb.totalCalls = 0 /\ cb'.state = "HalfOpen"
        /\ cb'.halfOpenCount = 0 /\ cb'.sinceOpen = cb.sinceOpen /\ cb'.totalCalls = 0
    BY <1>1, <2>1, RefreshFacts DEF IInv, ReaderRaceHarmless, EmptyWindow
  <2>3. ~Settled
    BY <2>1 DEF Settled
  <2>4. TrialSlots = 0 /\ TrialSlots' = 0 /\ TrialPassed = 0 /\ TrialPassed' = 0
    BY <2>2, <2>3 DEF TrialSlots, TrialPassed
  <2> QED
    BY <1>2, <2>2, <2>4
<1> QED
  BY <1>3, <1>4, <1>5 DEF Inspect

LEMMA ProtocolStep ==
    ASSUME IInv, LateReaders, [Next]_vars
    PROVE  [Protocol!Next]_Protocol!vars
<1>1. ASSUME NEW c \in Callers, Return(c) PROVE Protocol!Next
  <2>1. PICK failed \in BOOLEAN, slow \in SlowOutcomes : AfterCall(c, failed, slow)
    BY <1>1 DEF Return
  <2>2. slow \in BOOLEAN
    BY DEF SlowOutcomes
  <2> QED
    BY <2>1, <2>2, AfterCallKeeps
<1>2. ASSUME NEW c \in Callers, CallerStep(c) PROVE [Protocol!Next]_Protocol!vars
  BY <1>1, <1>2, BeforeCallKeeps, UnlockedKeeps DEF CallerStep
<1>3. CASE UNCHANGED vars
  <2>1. cb' = cb /\ pc' = pc /\ rpc' = rpc
    BY <1>3 DEF vars
  <2> QED
    BY <2>1 DEF Protocol!vars, Settled
<1> QED
  BY <1>2, <1>3, OrderKeeps, TickKeeps, ReaderKeeps DEF Next

-----------------------------------------------------------------------------
(* RingMatchesCounters is inductive with IInv, as an invariant of the      *)
(* record: as long as the ring is not full the index has not wrapped round,*)
(* and neither have the counters, provided that a counter can count as far *)
(* as the ring reaches.                                                    *)
RingInv(b) ==
    CountWindow /\ ~b.ringFull =>
        LET written == 0 .. b.ringIndex - 1 IN
        /\ b.totalCalls = b.ringIndex
        /\ b.failures  = Cardinality({s \in written : b.ring[s].failed})
        /\ b.slowCalls = Cardinality({s \in written : b.ring[s].slow})

LEMMA UnwrittenRing ==
    ASSUME NEW b, b.ringIndex = 0, b.totalCalls = 0, b.failures = 0, b.slowCalls = 0
    PROVE  RingInv(b)
<1>1. 0 .. b.ringIndex - 1 = {}
  OBVIOUS
<1>2. /\ {s \in 0 .. b.ringIndex - 1 : b.ring[s].failed} = {}
      /\ {s \in 0 .. b.ringIndex - 1 : b.ring[s].slow} = {}
  BY <1>1
<1> QED
  BY <1>2, FS_EmptySet DEF RingInv

LEMMA ClearWindowRing ==
    ASSUME NEW b \in Breakers
    PROVE  RingInv(ClearWindow(b)) /\ RingInv(Refresh(b))
<1> DEFINE w == ClearWindow(b)
           f == Refresh(b)
<1>1. w.ringIndex = 0 /\ w.totalCalls = 0 /\ w.failures = 0 /\ w.slowCalls = 0
  BY DEF ClearWindow, Breakers
<1>2. f.ringIndex = 0 /\ f.totalCalls = 0 /\ f.failures = 0 /\ f.slowCalls = 0
  BY DEF Refresh, ClearWindow, Breakers
<1> HIDE DEF w, f
<1> QED
  BY <1>1, <1>2, UnwrittenRing DEF w, f

(* Fields that have nothing to do with the window do not matter.           *)
SameWindow(b, other) ==
    /\ other.ring = b.ring /\ other.ringIndex = b.ringIndex
    /\ other.ringFull = b.ringFull /\ other.totalCalls = b.totalCalls
    /\ other.failures = b.failures /\ other.slowCalls = b.slowCalls

LEMMA SameWindowRing ==
    ASSUME NEW b, NEW other, RingInv(b), SameWindow(b, other)
    PROVE  RingInv(other)
BY DEF RingInv, SameWindow

LEMMA GetStateRing ==
    ASSUME NEW b \in Breakers, RingInv(b)
    PROVE  RingInv(GetStateUnsafe(b))
<1>1. [b EXCEPT !.state = "HalfOpen"] \in Breakers
  BY DEF Breakers, State
<1> QED
  BY <1>1, ClearWindowRing DEF GetStateUnsafe

LEMMA TransitionRing ==
    ASSUME NEW b \in Breakers, RingInv(b), NEW s
    PROVE  RingInv(TransitionTo(b, s))
<1> DEFINE w == ClearWindow(b)
           t == TransitionTo(b, s)
<1>1. CASE b.state = s
  BY <1>1 DEF TransitionTo
<1>2. CASE b.state # s
  <2>1. w \in Breakers /\ RingInv(w)
    BY ClearWindowFacts, ClearWindowRing
  <2>2. t = [w EXCEPT !.state = s, !.sinceOpen = IF s = "Open" THEN 0 ELSE @]
    BY <1>2 DEF TransitionTo
  <2> HIDE DEF w, t
  <2>3. SameWindow(w, t)
    BY <2>1, <2>2 DEF SameWindow, Breakers
  <2>4. RingInv(t)
    BY <2>1, <2>3, SameWindowRing
  <2> QED
    BY <2>4 DEF t
<1> QED
  BY <1>1, <1>2

(* One more slot is written and one more result counted.                   *)
LEMMA OneMoreSlot ==
    ASSUME NEW n \in Nat, NEW P \in SUBSET (0 .. n - 1)
    PROVE  /\ Cardinality(P) \in Nat /\ Cardinality(P) <= n
           /\ Cardinality(P \union {n}) = Cardinality(P) + 1
<1> DEFINE before == 0 .. n - 1
<1>1. IsFiniteSet(before) /\ Cardinality(before) = n
  <2>1. n - 1 \in Int /\ (0 > n - 1 <=> n = 0) /\ (n - 1) - 0 + 1 = n
    OBVIOUS
  <2> QED
    BY <2>1, FS_Interval
<1>2. n \notin before /\ P \subseteq before
  OBVIOUS
<1> HIDE DEF before
<1>3. IsFiniteSet(P) /\ Cardinality(P) <= Cardinality(before)
  BY <1>1, <1>2, FS_Subset
<1>4. n \notin P
  BY <1>2
<1> QED
  BY <1>1, <1>3, <1>4, FS_AddElement, FS_CardinalityType

LEMMA RecordRing ==
    ASSUME WindowSize <= Word32, NEW b \in Breakers, RingInv(b),
           NEW failed \in BOOLEAN, NEW slow \in BOOLEAN
    PROVE  RingInv(RecordResult(b, failed, slow))
<1> DEFINE r == RecordResult(b, failed, slow)
           i == b.ringIndex
           next == (i + 1) % WindowSize
           result == [failed |-> failed, slow |-> slow]
           counted == [b EXCEPT !.totalCalls = Incremented(@, TRUE),
                                !.failures   = Incremented(@, failed),
                                !.successes  = Incremented(@, ~failed),
                                !.slowCalls  = Incremented(@, slow)]
<1>1. /\ counted.ring = b.ring /\ counted.ringFull = b.ringFull
      /\ counted.ringIndex = i
      /\ counted.totalCalls = Incremented(b.totalCalls, TRUE)
      /\ counted.failures = Incremented(b.failures, failed)
      /\ counted.slowCalls = Incremented(b.slowCalls, slow)
      /\ counted = [counted EXCEPT !.ring = @]
  BY DEF Breakers
<1>2. /\ i \in 0 .. WindowSize - 1 /\ b.ringFull \in BOOLEAN /\ b.ring \in [Slots -> Results]
      /\ WindowSize \in Nat \ {0} /\ Word32 \in Nat
      /\ b.totalCalls \in 0 .. Word32 - 1 /\ b.failures \in 0 .. Word32 - 1
      /\ b.slowCalls \in 0 .. Word32 - 1
  BY ParameterTypes, ConfigAssumption DEF Breakers
<1> SUFFICES ASSUME CountWindow PROVE RingInv(r)
  BY DEF RingInv
<1>3. r = [counted EXCEPT !.ring[i] = result, !.ringIndex = next, !.ringFull = @ \/ next = 0]
  BY DEF RecordResult
<1>4. /\ r.ring = [counted.ring EXCEPT ![i] = result] /\ r.ringIndex = next
      /\ r.ringFull = (counted.ringFull \/ next = 0)
      /\ r.totalCalls = counted.totalCalls /\ r.failures = counted.failures
      /\ r.slowCalls = counted.slowCalls
  <2>1. counted \in Breakers
    <3>1. /\ Incremented(b.totalCalls, TRUE) \in 0 .. Word32 - 1
          /\ Incremented(b.failures, failed) \in 0 .. Word32 - 1
          /\ Incremented(b.successes, ~failed) \in 0 .. Word32 - 1
          /\ Incremented(b.slowCalls, slow) \in 0 .. Word32 - 1
      BY IncrementedType DEF Breakers
    <3> QED
      BY <3>1 DEF Breakers
  <2> HIDE DEF counted, r, next, result
  <2> QED
    BY <1>3, <2>1 DEF Breakers
<1> HIDE DEF r, counted
<1> SUFFICES ASSUME ~r.ringFull PROVE RingInv(r)
  BY DEF RingInv
<1>5. ~b.ringFull /\ next # 0
  BY <1>1, <1>4
<1>6. i + 1 < WindowSize /\ next = i + 1
  <2>1. CASE i + 1 = WindowSize
    <3>1. WindowSize % WindowSize = 0
      BY <1>2, Z3
    <3> QED
      BY <1>5, <2>1, <3>1
  <2>2. CASE i + 1 # WindowSize
    BY <1>2, <2>2
  <2> QED
    BY <2>1, <2>2
<1> HIDE DEF i, next, result
<1> DEFINE old == 0 .. i - 1
           new == 0 .. next - 1
           oldFailed == {s \in old : b.ring[s].failed}
           newFailed == {s \in new : r.ring[s].failed}
           oldSlow == {s \in old : b.ring[s].slow}
           newSlow == {s \in new : r.ring[s].slow}
<1>7. /\ b.totalCalls = i /\ b.failures = Cardinality(oldFailed)
      /\ b.slowCalls = Cardinality(oldSlow)
  BY <1>5 DEF RingInv, i
<1>8. new = old \union {i} /\ i \notin old /\ new \subseteq Slots
  BY <1>2, <1>6 DEF Slots
<1>9. /\ r.ring[i] = result
      /\ \A s \in old : r.ring[s] = b.ring[s]
  BY <1>1, <1>2, <1>4, <1>8
<1>10. result.failed = failed /\ result.slow = slow
  BY DEF result
<1>11. /\ newFailed = IF failed THEN oldFailed \union {i} ELSE oldFailed
       /\ newSlow = IF slow THEN oldSlow \union {i} ELSE oldSlow
  BY <1>8, <1>9, <1>10
<1>12. i \in Nat /\ oldFailed \in SUBSET old /\ oldSlow \in SUBSET old
  BY <1>2
<1> HIDE DEF oldFailed, newFailed, oldSlow, newSlow
<1>13. /\ Cardinality(oldFailed) \in Nat /\ Cardinality(oldSlow) \in Nat
       /\ Cardinality(newFailed) = IF failed THEN Cardinality(oldFailed) + 1
                                             ELSE Cardinality(oldFailed)
       /\ Cardinality(newSlow) = IF slow THEN Cardinality(oldSlow) + 1
                                         ELSE Cardinality(oldSlow)
  <2>1. /\ Cardinality(oldFailed) \in Nat
        /\ Cardinality(oldFailed \union {i}) = Cardinality(oldFailed) + 1
    BY <1>12, OneMoreSlot
  <2>2. /\ Cardinality(oldSlow) \in Nat
        /\ Cardinality(oldSlow \union {i}) = Cardinality(oldSlow) + 1
    BY <1>12, OneMoreSlot
  <2> QED
    BY <1>11, <2>1, <2>2
<1>14. Cardinality(oldFailed) <= i /\ Cardinality(oldSlow) <= i
  BY <1>12, OneMoreSlot
<1>15. i + 1 < Word32 /\ Cardinality(oldFailed) + 1 < Word32 /\ Cardinality(oldSlow) + 1 < Word32
  BY <1>2, <1>6, <1>12, <1>13, <1>14
<1>16. /\ r.totalCalls = i + 1
       /\ r.failures = Cardinality(newFailed) /\ r.slowCalls = Cardinality(newSlow)
  <2>1. Incremented(b.totalCalls, TRUE) = i + 1
    BY <1>2, <1>7, <1>15, IncrementedType
  <2>2. Incremented(b.failures, failed) =
          IF failed THEN Cardinality(oldFailed) + 1 ELSE Cardinality(oldFailed)
    BY <1>2, <1>7, <1>15, IncrementedType
  <2>3. Incremented(b.slowCalls, slow) =
          IF slow THEN Cardinality(oldSlow) + 1 ELSE Cardinality(oldSlow)
    BY <1>2, <1>7, <1>15, IncrementedType
  <2> QED
    BY <1>1, <1>4, <1>13, <2>1, <2>2, <2>3
<1> QED
  BY <1>4, <1>6, <1>16 DEF RingInv, newFailed, newSlow

LEMMA SettleRing ==
    ASSUME WindowSize <= Word32, NEW b \in Breakers, RingInv(b),
           NEW failed \in BOOLEAN, NEW slow \in BOOLEAN
    PROVE  RingInv(Settle(b, failed, slow))
<1> DEFINE now  == GetStateUnsafe(b)
           then == RecordResult(now, failed, slow)
<1>1. now \in Breakers /\ RingInv(now)
  <2>1. [b EXCEPT !.state = "HalfOpen"] \in Breakers
    BY DEF Breakers, State
  <2> QED
    BY <2>1, RefreshFacts, GetStateRing DEF GetStateUnsafe
<1> HIDE DEF now
<1>2. then \in Breakers /\ RingInv(then)
  BY <1>1, RecordFacts, RecordRing
<1>3. Settle(b, failed, slow) =
        CASE now.state = "Closed"              -> CheckThresholds(then)
          [] now.state = "HalfOpen" /\ failed  -> TransitionTo(then, "Open")
          [] now.state = "HalfOpen" /\ ~failed -> CheckHalfOpenSuccess(then)
          [] OTHER                             -> now
  BY DEF Settle, now
<1> HIDE DEF then
<1>4. /\ RingInv(CheckThresholds(then)) /\ RingInv(TransitionTo(then, "Open"))
      /\ RingInv(CheckHalfOpenSuccess(then))
  BY <1>2, TransitionRing DEF CheckThresholds, CheckHalfOpenSuccess
<1> QED
  BY <1>1, <1>3, <1>4

LEMMA NextRing ==
    ASSUME WindowSize <= Word32, IInv, RingInv(cb), [Next]_vars
    PROVE  RingInv(cb')
<1>1. cb \in Breakers
  BY DEF IInv, TypeOK
<1>2. RingInv(GetStateUnsafe(cb)) /\ GetStateUnsafe(cb) \in Breakers
  BY <1>1, GetStateRing, GetStateFacts DEF IInv, BreakerInv
<1>3. ASSUME NEW c \in Callers, BeforeCall(c) PROVE RingInv(cb')
  <2> DEFINE now == GetStateUnsafe(cb)
  <2>1. CASE AdmitProbe(c)
    <3>1. cb' = [now EXCEPT !.halfOpenCount = @ + 1]
      BY <2>1 DEF AdmitProbe
    <3> HIDE DEF now
    <3>2. SameWindow(now, cb')
      BY <1>2, <3>1 DEF SameWindow, Breakers, now
    <3> QED
      BY <1>2, <3>2, SameWindowRing DEF now
  <2> QED
    BY <1>2, <1>3, <2>1 DEF BeforeCall, AdmitNormal, Refuse
<1>4. ASSUME NEW c \in Callers, Return(c) PROVE RingInv(cb')
  BY <1>1, <1>4, SettleRing DEF Return, AfterCall, SlowOutcomes
<1>5. CASE Reset
  <2> DEFINE w == ClearWindow(cb)
  <2>1. w \in Breakers /\ RingInv(w)
    BY <1>1, ClearWindowFacts, ClearWindowRing
  <2>2. cb' = [w EXCEPT !.state = "Closed", !.halfOpenCount = 0]
    BY <1>5 DEF Reset
  <2> HIDE DEF w
  <2>3. SameWindow(w, cb')
    BY <2>1, <2>2 DEF SameWindow, Breakers
  <2> QED
    BY <2>1, <2>3, SameWindowRing
<1>6. CASE ForceOpen \/ Tick \/ (\E r \in Readers : WriteState(r))
  <2>1. SameWindow(cb, cb')
    BY <1>1, <1>6 DEF ForceOpen, Tick, WriteState, SameWindow, Breakers
  <2> QED
    BY <2>1, SameWindowRing
<1>7. ASSUME NEW r \in Readers, WriteRest(r) PROVE RingInv(cb')
  BY <1>1, <1>7, ClearWindowRing DEF WriteRest
<1>8. CASE cb' = cb
  BY <1>8
<1> QED
  BY <1>3, <1>4, <1>5, <1>6, <1>7, <1>8
  DEF Next, CallerStep, Inspect, Panic, LoadRejected, StoreRejected, ReadState, RUnlock, vars

-----------------------------------------------------------------------------
(* The theorems.                                                           *)

(* IInv is an invariant.                                                   *)
THEOREM Invariance == Spec => []IInv
BY InitInv, NextInv, PTL DEF Spec

(* Every counter, index and program counter stays in range, with counters  *)
(* of any width that wrap round.                                           *)
THEOREM TypeCorrectness == Spec => []TypeOK
<1>1. IInv => TypeOK
  BY DEF IInv
<1> QED
  BY Invariance, <1>1, PTL

(* At most MaxRequests calls of a half-open period are in flight.          *)
THEOREM QuotaSafety == Spec => []HalfOpenQuotaRespected
<1>1. IInv => HalfOpenQuotaRespected
  BY DEF IInv
<1> QED
  BY Invariance, <1>1, PTL

(* Without panics no half-open slot is lost.                               *)
THEOREM SlotSafety == Spec => []NoSlotLeaked
<1>1. IInv => NoSlotLeaked
  BY DEF IInv
<1> QED
  BY Invariance, <1>1, PTL

(* What BlockingIsTemporary rests on: without panics, whoever is refused   *)
(* by a half-open breaker is refused because of a probe that is in flight, *)
(* whose result will free a slot or end the trial.                         *)
BlockedByProbes == ~CanPanic /\ cb.state = "HalfOpen" /\ Settled /\ Refusing(cb) => probes # {}

THEOREM BlockedSafety == Spec => []BlockedByProbes
<1>1. IInv => BlockedByProbes
  <2> SUFFICES ASSUME IInv, ~CanPanic, cb.state = "HalfOpen", Settled, Refusing(cb), probes = {}
               PROVE  FALSE
    BY DEF BlockedByProbes
  <2>1. cb \in Breakers /\ GetStateUnsafe(cb) = cb
    BY DEF IInv, TypeOK, GetStateUnsafe, Expired
  <2>2. cb.halfOpenCount >= Quota
    BY <2>1, ParameterTypes DEF Refusing, HasSlot, IInv, HalfOpenQuotaRespected, Breakers
  <2>3. cb.halfOpenCount <= cb.totalCalls
    BY <2>1, FS_EmptySet DEF IInv, NoSlotLeaked, Breakers
  <2> QED
    BY <2>1, <2>2, <2>3, ParameterTypes DEF IInv, BreakerInv, CleanSlate, Breakers
<1> QED
  BY Invariance, <1>1, PTL

(* A half-open breaker has seen successes only, and fewer than it needs.   *)
THEOREM CleanSlateSafety == Spec => []HalfOpenCleanSlate
<1>1. IInv => HalfOpenCleanSlate
  BY DEF IInv, BreakerInv, CleanSlate, HalfOpenCleanSlate
<1> QED
  BY Invariance, <1>1, PTL

(* However many readers write the breaker under the read lock, no probe    *)
(* and no result is lost to them.                                          *)
THEOREM ReaderRaceSafety == Spec => []ReaderRaceHarmless
<1>1. IInv => ReaderRaceHarmless
  BY DEF IInv
<1> QED
  BY Invariance, <1>1, PTL

(* A shut breaker admits nothing and is moved only by Reset and ForceOpen. *)
THEOREM ShutSafety == Spec => StaysShut
<1>1. IInv /\ [Next]_vars =>
        [Shut => /\ \A c \in Callers : pc[c] = "idle" => pc'[c] # "running"
                 /\ cb'.state = cb.state \/ Reset \/ ForceOpen]_vars
  BY ShutStep
<1> QED
  BY Invariance, <1>1, PTL DEF Spec, StaysShut

(* The breaker implements BreakerProtocol: locks, windows, the lazy        *)
(* transition and the readers that race to make it cannot be told from a   *)
(* machine that opens, waits and holds trials one step at a time.          *)
THEOREM Refinement == Spec => KeepsProtocol
<1>1. Init => Protocol!Init /\ LateReaders
  BY DEF Init, NewBreaker, Protocol!Init, LateReaders
<1>2. IInv /\ LateReaders /\ [Next]_vars => LateReaders'
  BY LateReadersStep
<1>3. IInv /\ LateReaders /\ [Next]_vars => [Protocol!Next]_Protocol!vars
  BY ProtocolStep
<1> QED
  BY Invariance, <1>1, <1>2, <1>3, PTL DEF Spec, KeepsProtocol, Protocol!Spec

(* Until the ring has been filled once the counters say what it holds: the *)
(* index and the counters move together through results, trips, resets and *)
(* the late writes of readers.  For every window size that a counter can   *)
(* reach, which the code's uint32 always can.                              *)
THEOREM RingSafety == ASSUME WindowSize <= Word32 PROVE Spec => []RingMatchesCounters
<1>1. Init => RingInv(cb)
  BY UnwrittenRing DEF Init, NewBreaker
<1>2. IInv /\ RingInv(cb) /\ [Next]_vars => RingInv(cb)'
  BY NextRing
<1>3. RingInv(cb) => RingMatchesCounters
  BY DEF RingInv, RingMatchesCounters
<1> QED
  BY Invariance, <1>1, <1>2, <1>3, PTL DEF Spec

-----------------------------------------------------------------------------
(* Thresholds.                                                             *)

(* The clamped threshold is between its bounds.                            *)
LEMMA ThresholdFacts ==
    /\ Unit \in Nat \ {0}
    /\ \A ema \in 0 .. Whole :
         AdaptThreshold(ema) \in MinThreshold * Unit .. MaxThreshold * Unit
<1>1. Unit \in Nat \ {0}
  BY AdaptiveAssumption DEF Unit
<1> DEFINE low == MinThreshold * Unit
           high == MaxThreshold * Unit
<1>2. low \in Int /\ high \in Int /\ low <= high
  BY <1>1, AdaptiveAssumption
<1>3. \A ema \in 0 .. Whole : TargetThreshold(ema) \in Int
  BY <1>1, AdaptiveAssumption DEF TargetThreshold
<1> HIDE DEF low, high
<1>4. ASSUME NEW ema \in 0 .. Whole PROVE AdaptThreshold(ema) \in low .. high
  <2> DEFINE target == TargetThreshold(ema)
  <2>1. target \in Int
    BY <1>3
  <2> HIDE DEF target
  <2>2. AdaptThreshold(ema) =
          CASE target < low -> low [] target > high -> high [] OTHER -> target
    BY DEF AdaptThreshold, low, high, target
  <2> QED
    BY <1>2, <2>1, <2>2
<1> QED
  BY <1>1, <1>4 DEF low, high

-----------------------------------------------------------------------------
(* The inner breaker.                                                      *)

LEMMA InnerInit == AdaptiveInit => Init
BY DEF AdaptiveInit

LEMMA InnerNext == [AdaptiveNext]_adaptiveVars => [Next]_vars
<1> SUFFICES ASSUME [AdaptiveNext]_adaptiveVars PROVE [Next]_vars
  OBVIOUS
<1>1. ASSUME NEW c \in Callers, ExecuteStep(c) PROVE [Next]_vars
  <2>1. CASE Check(c) \/ Track(c)
    BY <2>1 DEF Check, Track
  <2>2. CASE OpenAtLimit(c)
    BY <2>2 DEF OpenAtLimit, Next
  <2>3. CASE Enter(c)
    BY <2>3 DEF Enter, Next, CallerStep
  <2>4. CASE Leave(c)
    <3> PICK outcome \in {"nil", "error", "rejection"}, slow \in SlowOutcomes :
               AfterCall(c, outcome # "nil", slow)
      BY <2>4 DEF Leave
    <3>1. (outcome # "nil") \in BOOLEAN
      OBVIOUS
    <3>2. Return(c)
      BY <3>1 DEF Return
    <3> QED
      BY <3>2 DEF Next, CallerStep
  <2>5. CASE Abandon(c) \/ Rejected(c)
    BY <2>5 DEF Abandon, Rejected, Next, CallerStep
  <2> QED
    BY <1>1, <2>1, <2>2, <2>3, <2>4, <2>5 DEF ExecuteStep
<1>2. CASE TripCallback \/ UpdateEMAs \/ ClearFields \/ ZeroTrips
  BY <1>2 DEF TripCallback, UpdateEMAs, ClearFields, ZeroTrips
<1>3. CASE ResetInner \/ UserForceOpen \/ InnerStep
  BY <1>3 DEF ResetInner, UserForceOpen, InnerStep, Next
<1>4. CASE UNCHANGED adaptiveVars
  BY <1>4 DEF adaptiveVars
<1> QED
  BY <1>1, <1>2, <1>3, <1>4 DEF AdaptiveNext, ResetStep

-----------------------------------------------------------------------------
(* The inductive invariant of what AdaptiveBreaker adds.  It does not need *)
(* that of the inner breaker.                                              *)

Places == {"idle", "checked", "forcing", "inner", "failed", "succeeded"}

OwnTypeOK ==
    /\ ab \in Adaptives
    /\ ab.emaInitialized =>
         ab.currentThreshold \in MinThreshold * Unit .. MaxThreshold * Unit
    /\ tripCount \in 0 .. Word32 - 1
    /\ callbacks \in 0 .. MaxCallbacks
    /\ apc \in [Callers -> Places]
    /\ resetting \in {"no", "cleared", "zeroed"}

AInv == OwnTypeOK /\ OvershootIsInFlight

LEMMA ClearedFacts ==
    /\ Cleared \in Adaptives /\ ~Cleared.emaInitialized
    /\ Cleared.consecutiveFailures = 0
BY ThresholdFacts, ConfigAssumption, AdaptiveAssumption DEF Cleared, Adaptives, Thresholds

LEMMA PastCheckFinite ==
    /\ IsFiniteSet(PastCheck) /\ Cardinality(PastCheck) \in Nat
    /\ Cardinality(Callers) \in Nat /\ Cardinality(PastCheck) <= Cardinality(Callers)
BY CallersAssumption, FS_Subset, FS_CardinalityType DEF PastCheck

LEMMA AInvInit == AdaptiveInit => AInv
<1> SUFFICES ASSUME AdaptiveInit PROVE AInv
  OBVIOUS
<1>1. OwnTypeOK
  BY ClearedFacts, ConfigAssumption, AdaptiveAssumption DEF AdaptiveInit, OwnTypeOK, Places
<1>2. PastCheck = {}
  BY DEF AdaptiveInit, PastCheck
<1>3. OvershootIsInFlight
  BY <1>2, ClearedFacts, PastCheckFinite, FS_EmptySet, AdaptiveAssumption
  DEF OvershootIsInFlight, AdaptiveInit
<1> QED
  BY <1>1, <1>3 DEF AInv

(* A step that lets nobody past the check and adds no failure.             *)
LEMMA NobodyPasses ==
    ASSUME AInv, OwnTypeOK', PastCheck' \subseteq PastCheck,
           \/ ab'.consecutiveFailures = ab.consecutiveFailures
           \/ ab'.consecutiveFailures = 0
    PROVE  OvershootIsInFlight'
<1>1. /\ IsFiniteSet(PastCheck) /\ Cardinality(PastCheck) \in Nat
      /\ Cardinality(PastCheck) <= Cardinality(Callers) /\ Cardinality(Callers) \in Nat
  BY PastCheckFinite
<1>2. Cardinality(PastCheck') \in Nat /\ Cardinality(PastCheck') <= Cardinality(PastCheck)
  BY <1>1, FS_Subset, FS_CardinalityType
<1>3. ab.consecutiveFailures \in Nat /\ ConsecutiveFailureLimit \in Nat
  BY AdaptiveAssumption DEF AInv, OwnTypeOK, Adaptives
<1> QED
  BY <1>1, <1>2, <1>3 DEF AInv, OvershootIsInFlight

LEMMA CheckInv ==
    ASSUME AInv, NEW c \in Callers, Check(c)
    PROVE  AInv'
<1>1. OwnTypeOK' /\ ab' = ab
  BY DEF AInv, OwnTypeOK, Check, Move, Places
<1>2. CASE LimitReached
  <2>1. PastCheck' = PastCheck
    BY <1>2 DEF AInv, OwnTypeOK, Check, Move, PastCheck
  <2> QED
    BY <1>1, <2>1, NobodyPasses DEF AInv
<1>3. CASE ~LimitReached
  <2>1. /\ Cardinality(PastCheck') \in Nat /\ Cardinality(Callers) \in Nat
        /\ Cardinality(PastCheck') <= Cardinality(Callers)
    BY CallersAssumption, FS_Subset, FS_CardinalityType DEF PastCheck
  <2>2. ab.consecutiveFailures \in Nat /\ ConsecutiveFailureLimit \in Nat
    BY AdaptiveAssumption DEF AInv, OwnTypeOK, Adaptives
  <2>3. OvershootIsInFlight'
    BY <1>1, <1>3, <2>1, <2>2 DEF LimitReached, OvershootIsInFlight
  <2> QED
    BY <1>1, <2>3 DEF AInv
<1> QED
  BY <1>2, <1>3

LEMMA TrackInv ==
    ASSUME AInv, NEW c \in Callers, Track(c)
    PROVE  AInv'
<1> DEFINE n == ab.consecutiveFailures
           failed == apc[c] = "failed"
<1>1. /\ ab' = [ab EXCEPT !.consecutiveFailures =
                              IF failed THEN Incremented(n, TRUE) ELSE 0,
                          !.windowHasCalls = TRUE]
      /\ n \in 0 .. Word32 - 1 /\ ab \in Adaptives
  BY DEF Track, AInv, OwnTypeOK, Adaptives
<1>2. Incremented(n, TRUE) \in 0 .. Word32 - 1 /\ 0 \in 0 .. Word32 - 1
  <2>1. n \in 0 .. Word32 - 1
    BY <1>1
  <2> HIDE DEF n
  <2>2. Incremented(n, TRUE) \in 0 .. Word32 - 1
    BY <2>1, IncrementedType
  <2>3. 0 \in 0 .. Word32 - 1
    BY ConfigAssumption
  <2> QED
    BY <2>2, <2>3
<1>3. /\ ab' \in Adaptives /\ ab'.emaInitialized = ab.emaInitialized
      /\ ab'.currentThreshold = ab.currentThreshold
      /\ ab'.consecutiveFailures = IF failed THEN Incremented(n, TRUE) ELSE 0
  BY <1>1, <1>2 DEF Adaptives
<1>4. OwnTypeOK'
  BY <1>3 DEF AInv, OwnTypeOK, Track, Move, Places
<1>5. c \in PastCheck /\ PastCheck' = PastCheck \ {c}
  BY DEF AInv, OwnTypeOK, Track, Move, PastCheck
<1>6. CASE failed /\ ConsecutiveFailureLimit > 0
  <2> DEFINE p == Cardinality(PastCheck)
  <2>1. p \in Nat /\ p > 0 /\ Cardinality(PastCheck') = p - 1
    <3>1. IsFiniteSet(PastCheck) /\ p \in Nat
      BY PastCheckFinite
    <3>2. Cardinality(PastCheck \ {c}) = p - 1 /\ IsFiniteSet(PastCheck \ {c})
      BY <1>5, <3>1, FS_RemoveElement
    <3>3. Cardinality(PastCheck \ {c}) \in Nat
      BY <3>2, FS_CardinalityType
    <3> QED
      BY <1>5, <3>1, <3>2, <3>3
  <2>2. n + p < ConsecutiveFailureLimit + Cardinality(Callers)
    BY <1>6 DEF AInv, OvershootIsInFlight
  <2>3. n + 1 < Word32
    BY <1>1, <2>1, <2>2, PastCheckFinite, AdaptiveAssumption, ConfigAssumption
  <2>4. ab'.consecutiveFailures = n + 1
    BY <1>1, <1>3, <1>6, <2>3, IncrementedType
  <2> HIDE DEF n, p
  <2>5. n \in Int /\ ConsecutiveFailureLimit \in Int /\ Cardinality(Callers) \in Int
    BY <1>1, PastCheckFinite, AdaptiveAssumption DEF n
  <2>6. OvershootIsInFlight'
    BY <2>1, <2>2, <2>4, <2>5 DEF OvershootIsInFlight
  <2> QED
    BY <1>4, <2>6 DEF AInv
<1>7. CASE ~failed
  BY <1>3, <1>4, <1>5, <1>7, NobodyPasses DEF AInv
<1>8. CASE ~(ConsecutiveFailureLimit > 0)
  BY <1>4, <1>8 DEF AInv, OvershootIsInFlight
<1> QED
  BY <1>6, <1>7, <1>8

LEMMA LeaveInv ==
    ASSUME AInv, NEW c \in Callers, Leave(c)
    PROVE  AInv'
<1>1. PICK place \in {"succeeded", "failed", "idle"} : Move(c, place)
  BY DEF Leave
<1>2. apc' \in [Callers -> Places] /\ PastCheck' \subseteq PastCheck
  BY <1>1 DEF AInv, OwnTypeOK, Leave, Move, Places, PastCheck
<1>3. callbacks \in 0 .. MaxCallbacks /\ callbacks < MaxCallbacks /\ MaxCallbacks \in Nat
  BY AdaptiveAssumption DEF AInv, OwnTypeOK, Leave
<1>4. callbacks' \in 0 .. MaxCallbacks
  BY <1>3 DEF Leave
<1>5. OwnTypeOK' /\ ab' = ab
  BY <1>2, <1>4 DEF AInv, OwnTypeOK, Leave
<1> QED
  BY <1>2, <1>5, NobodyPasses DEF AInv

LEMMA TripCallbackInv ==
    ASSUME AInv, TripCallback
    PROVE  AInv'
<1>1. /\ tripCount \in 0 .. Word32 - 1 /\ Word32 \in Nat /\ Word32 > 1
      /\ callbacks \in 0 .. MaxCallbacks /\ callbacks > 0 /\ MaxCallbacks \in Nat
      /\ callbacks' = callbacks - 1 /\ tripCount' = (tripCount + 1) % Word32
  BY ConfigAssumption, AdaptiveAssumption DEF AInv, OwnTypeOK, TripCallback
<1>2. tripCount' \in 0 .. Word32 - 1 /\ callbacks' \in 0 .. MaxCallbacks
  BY <1>1
<1>3. OwnTypeOK' /\ ab' = ab /\ PastCheck' = PastCheck
  BY <1>2 DEF AInv, OwnTypeOK, TripCallback, PastCheck
<1> QED
  BY <1>3, NobodyPasses DEF AInv

LEMMA UpdateEMAsInv ==
    ASSUME AInv, UpdateEMAs
    PROVE  AInv'
<1>1. PICK ema \in 0 .. Whole :
        ab' = [ab EXCEPT !.windowHasCalls = FALSE, !.emaInitialized = TRUE,
                         !.currentThreshold = AdaptThreshold(ema)]
  BY DEF UpdateEMAs
<1> DEFINE t == AdaptThreshold(ema)
<1>2. t \in MinThreshold * Unit .. MaxThreshold * Unit /\ t \in Thresholds
  BY ThresholdFacts DEF Thresholds
<1> HIDE DEF t
<1>3. /\ ab' \in Adaptives /\ ab'.currentThreshold = t
      /\ ab'.consecutiveFailures = ab.consecutiveFailures
  BY <1>1, <1>2 DEF AInv, OwnTypeOK, Adaptives, t
<1>4. OwnTypeOK' /\ PastCheck' = PastCheck
  BY <1>2, <1>3 DEF AInv, OwnTypeOK, UpdateEMAs, PastCheck
<1> QED
  BY <1>3, <1>4, NobodyPasses DEF AInv

LEMMA ResetStepInv ==
    ASSUME AInv, ResetStep
    PROVE  AInv'
<1>1. PastCheck' = PastCheck
  BY DEF ResetStep, ClearFields, ZeroTrips, ResetInner, PastCheck
<1>2. CASE ClearFields
  <2>1. OwnTypeOK' /\ ab'.consecutiveFailures = 0
    BY <1>2, ClearedFacts DEF ClearFields, AInv, OwnTypeOK
  <2> QED
    BY <1>1, <2>1, NobodyPasses DEF AInv
<1>3. CASE ZeroTrips
  <2>1. OwnTypeOK' /\ ab' = ab
    BY <1>3, ConfigAssumption DEF ZeroTrips, AInv, OwnTypeOK
  <2> QED
    BY <1>1, <2>1, NobodyPasses DEF AInv
<1>4. CASE ResetInner
  <2>1. OwnTypeOK' /\ ab' = ab
    BY <1>4 DEF ResetInner, AInv, OwnTypeOK
  <2> QED
    BY <1>1, <2>1, NobodyPasses DEF AInv
<1> QED
  BY <1>2, <1>3, <1>4 DEF ResetStep

(* Steps that touch nothing but the inner breaker and a caller's place.    *)
LEMMA OtherInv ==
    ASSUME AInv, UNCHANGED <<ab, tripCount, callbacks, resetting>>,
           apc' \in [Callers -> Places], PastCheck' \subseteq PastCheck
    PROVE  AInv'
<1>1. OwnTypeOK'
  BY DEF AInv, OwnTypeOK
<1> QED
  BY <1>1, NobodyPasses DEF AInv

LEMMA AInvNext == AInv /\ [AdaptiveNext]_adaptiveVars => AInv'
<1> SUFFICES ASSUME AInv, [AdaptiveNext]_adaptiveVars PROVE AInv'
  OBVIOUS
<1>1. apc \in [Callers -> Places]
  BY DEF AInv, OwnTypeOK
<1>2. ASSUME NEW c \in Callers, OpenAtLimit(c) \/ Enter(c) \/ Abandon(c) \/ Rejected(c)
      PROVE  AInv'
  <2>1. UNCHANGED <<ab, tripCount, callbacks, resetting>>
    BY <1>2 DEF OpenAtLimit, Enter, Abandon, Rejected
  <2>2. apc' \in [Callers -> Places] /\ PastCheck' \subseteq PastCheck
    BY <1>1, <1>2 DEF OpenAtLimit, Enter, Abandon, Rejected, Move, PastCheck, Places
  <2> QED
    BY <2>1, <2>2, OtherInv
<1>3. ASSUME NEW c \in Callers, ExecuteStep(c) PROVE AInv'
  BY <1>2, <1>3, CheckInv, TrackInv, LeaveInv DEF ExecuteStep
<1>4. CASE UserForceOpen \/ InnerStep \/ UNCHANGED adaptiveVars
  <2>1. UNCHANGED <<ab, tripCount, callbacks, apc, resetting>>
    BY <1>4 DEF UserForceOpen, InnerStep, adaptiveVars
  <2>2. PastCheck' = PastCheck
    BY <2>1 DEF PastCheck
  <2> QED
    BY <1>1, <2>1, <2>2, OtherInv
<1> QED
  BY <1>3, <1>4, TripCallbackInv, UpdateEMAsInv, ResetStepInv DEF AdaptiveNext

-----------------------------------------------------------------------------
(* The theorems.                                                           *)

(* The inner breaker of an adaptive one behaves as a circuit breaker: the  *)
(* adaptive layer calls its methods and does nothing else to it, so every  *)
(* theorem about Spec above holds of it (Execute 168-205).                 *)
THEOREM Implements == AdaptiveSpec => Spec
BY InnerInit, InnerNext, PTL DEF AdaptiveSpec, Spec

(* AInv is an invariant.                                                   *)
THEOREM AdaptiveInvariance == AdaptiveSpec => []AInv
BY AInvInit, AInvNext, PTL DEF AdaptiveSpec

(* Types, with the threshold inside its bounds once it is initialized.     *)
THEOREM AdaptiveTypeCorrectness == AdaptiveSpec => []AdaptiveTypeOK
<1>1. AInv /\ TypeOK => AdaptiveTypeOK
  BY DEF AInv, OwnTypeOK, Places, AdaptiveTypeOK
<1> QED
  BY <1>1, Implements, TypeCorrectness, AdaptiveInvariance, PTL

(* Failures in a row exceed the limit by no more than the calls that were  *)
(* on their way when it was reached, and never wrap round.                 *)
THEOREM OvershootSafety == AdaptiveSpec => []OvershootIsInFlight
<1>1. AInv => OvershootIsInFlight
  BY DEF AInv
<1> QED
  BY <1>1, AdaptiveInvariance, PTL

(* Once the limit is reached and the calls past the check have come back,  *)
(* nobody gets past it again before the next Reset clears the row, whoever *)
(* calls Execute, ForceOpen, UpdateEMAs or State meanwhile (adaptive.go    *)
(* 171-180, 325-340).                                                      *)
THEOREM LimitSafety == AdaptiveSpec => LimitIsFinal
<1> DEFINE Final == LimitReached /\ PastCheck = {}
                      => (LimitReached' /\ PastCheck' = {}) \/ ClearFields
<1>1. AInv /\ [AdaptiveNext]_adaptiveVars => [Final]_adaptiveVars
  <2> SUFFICES ASSUME AInv, [AdaptiveNext]_adaptiveVars, LimitReached, PastCheck = {}
               PROVE  (LimitReached' /\ PastCheck' = {}) \/ ClearFields
    OBVIOUS
  <2>1. apc \in [Callers -> Places] /\ \A c \in Callers : apc[c] \in {"idle", "forcing"}
    BY DEF AInv, OwnTypeOK, Places, PastCheck
  <2>2. ASSUME NEW c \in Callers, ExecuteStep(c) PROVE LimitReached' /\ PastCheck' = {}
    <3>1. Check(c) \/ OpenAtLimit(c)
      BY <2>1, <2>2 DEF ExecuteStep, Enter, Leave, Abandon, Rejected, Track
    <3>2. ab' = ab /\ \E to \in {"idle", "forcing"} : apc' = [apc EXCEPT ![c] = to]
      BY <3>1 DEF Check, OpenAtLimit, Move
    <3> QED
      BY <2>1, <3>2 DEF LimitReached, PastCheck
  <2>3. CASE UpdateEMAs
    BY <2>3 DEF UpdateEMAs, LimitReached, PastCheck, AInv, OwnTypeOK, Adaptives
  <2>4. CASE TripCallback \/ ZeroTrips \/ ResetInner \/ UserForceOpen \/ InnerStep
             \/ UNCHANGED adaptiveVars
    BY <2>4 DEF TripCallback, ZeroTrips, ResetInner, UserForceOpen, InnerStep, adaptiveVars,
       LimitReached, PastCheck
  <2> QED
    BY <2>2, <2>3, <2>4 DEF AdaptiveNext, ResetStep
<1> QED
  BY <1>1, AdaptiveInvariance, PTL DEF AdaptiveSpec, LimitIsFinal

(* The quota of a half-open period holds behind the adaptive layer too.    *)
THEOREM AdaptiveQuotaSafety == AdaptiveSpec => []HalfOpenQuotaRespected
BY Implements, QuotaSafety, PTL

(* What the callers of an adaptive breaker see is BreakerProtocol: trips   *)
(* forced by the count of failures in a row, resets in three steps and     *)
(* late callbacks only ever do what some caller might have asked for.      *)
THEOREM AdaptiveRefinement == AdaptiveSpec => KeepsProtocol
BY Implements, Refinement, PTL
=============================================================================
