--------------------------- MODULE CircuitBreaker ---------------------------
(***************************************************************************)
(* internal/breaker/breaker.go: one CircuitBreaker shared by goroutines    *)
(* that call Execute (Callers) and goroutines that call State or           *)
(* GetMetrics (Readers).                                                   *)
(*                                                                         *)
(* Everything a method does under cb.mutex.Lock() is one atomic step.      *)
(* State and GetMetrics take only RLock() and still write the breaker      *)
(* (getStateUnsafe, lines 140-154), so a reader's check, its write of      *)
(* state and its other writes are separate steps that the steps of other   *)
(* readers may separate.  totalRejected is incremented with no lock at all *)
(* (line 161): a load and a store.                                         *)
(*                                                                         *)
(* Abstracted: counters that the code only reports (totalSuccesses,        *)
(* totalFailures, totalSlowCalls, totalCallsAll, stateTransitions), the    *)
(* result of fn beyond "failed" and "slow", the timestamp in callResult,   *)
(* and floating-point rounding in the rates.  OnStateChange is user code   *)
(* started on a goroutine of its own and touches no field of the breaker.  *)
(***************************************************************************)
EXTENDS Integers, FiniteSets

CONSTANTS
    Callers,                \* goroutines that call Execute
    Readers,                \* goroutines that call State or GetMetrics
    MaxRequests,            \* the Config fields, as given to New
    Timeout,                \* in ticks
    FailureRateThreshold,
    SlowCallRateThreshold,
    MinimumNumberOfCalls,
    SlidingWindowSize,
    CountWindow,            \* SlidingWindowType = SlidingWindowCount
    TracksSlow,             \* SlowCallDuration > 0
    CanPanic,               \* may the protected function panic
    Word32, Word64          \* moduli of uint32 and uint64

ASSUME ConfigAssumption ==
    /\ Word32 \in Nat /\ Word32 > 1
    /\ MaxRequests \in 0 .. Word32 - 1
    /\ MinimumNumberOfCalls \in 0 .. Word32 - 1
    /\ SlidingWindowSize \in 0 .. Word32 - 1
    /\ FailureRateThreshold \in 0 .. 255
    /\ SlowCallRateThreshold \in 0 .. 255
    /\ Timeout \in Nat
    /\ CountWindow \in BOOLEAN /\ TracksSlow \in BOOLEAN /\ CanPanic \in BOOLEAN

ASSUME Word64Assumption == Word64 \in Nat /\ Word64 > 0

ASSUME CallersAssumption == IsFiniteSet(Callers)

(* New replaces the zero value of a field by its default.                  *)
OrDefault(value, default) == IF value = 0 THEN default ELSE value

Quota      == OrDefault(MaxRequests, 1)
OpenPeriod == OrDefault(Timeout, 60)
FailureMax == OrDefault(FailureRateThreshold, 50)
SlowMax    == OrDefault(SlowCallRateThreshold, 100)
MinCalls   == OrDefault(MinimumNumberOfCalls, 10)
WindowSize == OrDefault(SlidingWindowSize, 100)

State   == {"Closed", "Open", "HalfOpen", "ForcedOpen"}
Slots   == IF CountWindow THEN 0 .. WindowSize - 1 ELSE {}
Results == [failed : BOOLEAN, slow : BOOLEAN]

(* A callResult no call has written yet.  Its success field is Go's false, *)
(* but nothing reads a slot before the slot is written.                    *)
Unwritten == [failed |-> FALSE, slow |-> FALSE]

VARIABLES
    cb,             \* the fields that mutex protects
    totalRejected,  \* the field that nothing protects
    pc,             \* where each caller is in Execute
    loaded,         \* the value of totalRejected a caller has loaded
    rpc,            \* where each reader is in State or GetMetrics
    probes          \* history: calls the current half-open period admitted
                    \* that have not returned

vars == <<cb, totalRejected, pc, loaded, rpc, probes>>

Breakers ==
    [state : State,
     totalCalls : 0 .. Word32 - 1, successes : 0 .. Word32 - 1,
     failures : 0 .. Word32 - 1, slowCalls : 0 .. Word32 - 1,
     ring : [Slots -> Results], ringIndex : 0 .. WindowSize - 1, ringFull : BOOLEAN,
     halfOpenAllowed : {0, Quota}, halfOpenCount : 0 .. Quota,
     sinceOpen : 0 .. OpenPeriod]    \* time.Since(openSince), saturating

(* The type invariant.  It also says that every counter and index stays in *)
(* the range its users rely on: ringIndex inside the ring, halfOpenCount   *)
(* at most MaxRequests.                                                    *)
TypeOK ==
    /\ cb \in Breakers
    /\ totalRejected \in 0 .. Word64 - 1
    /\ pc \in [Callers -> {"idle", "running", "rejected", "counting"}]
    /\ loaded \in [Callers -> 0 .. Word64 - 1]
    /\ rpc \in [Readers -> {"idle", "transition", "refresh", "reading"}]
    /\ probes \subseteq Callers

-----------------------------------------------------------------------------
(* The breaker's fields, as functions of a record.                         *)

EmptyRing == [s \in Slots |-> Unwritten]

NewBreaker ==
    [state |-> "Closed", totalCalls |-> 0, successes |-> 0, failures |-> 0,
     slowCalls |-> 0, ring |-> EmptyRing, ringIndex |-> 0, ringFull |-> FALSE,
     halfOpenAllowed |-> 0, halfOpenCount |-> 0, sinceOpen |-> 0]

(* Mutation: the ring is left behind when the counters are cleared.        *)
ClearCountersOnly(b) ==
    [b EXCEPT !.totalCalls = 0, !.successes = 0, !.failures = 0, !.slowCalls = 0]

ClearWindow(b) ==
    [b EXCEPT !.totalCalls = 0, !.successes = 0, !.failures = 0, !.slowCalls = 0,
              !.ring = EmptyRing, !.ringIndex = 0, !.ringFull = FALSE]

Expired(b) == b.state = "Open" /\ b.sinceOpen >= OpenPeriod

(* Mutation: the probes of the previous half-open period stay counted.     *)
RefreshKeepingCount(b) == [ClearWindow(b) EXCEPT !.halfOpenAllowed = Quota]

(* What getStateUnsafe assigns after state, when it moves to half-open.    *)
Refresh(b) ==
    [ClearWindow(b) EXCEPT !.halfOpenAllowed = Quota, !.halfOpenCount = 0]

GetStateUnsafe(b) ==
    IF Expired(b) THEN Refresh([b EXCEPT !.state = "HalfOpen"]) ELSE b

(* transitionTo is only ever called with StateOpen and StateClosed.        *)
TransitionTo(b, newState) ==
    IF b.state = newState THEN b
    ELSE [ClearWindow(b) EXCEPT !.state = newState,
                                !.sinceOpen = IF newState = "Open" THEN 0 ELSE @]

Incremented(n, when) == IF when THEN (n + 1) % Word32 ELSE n

(* Mutation: the ring index does not wrap round.                           *)
RecordResultNoWrap(b, failed, slow) ==
    [b EXCEPT !.totalCalls = Incremented(@, TRUE),
              !.failures   = Incremented(@, failed),
              !.successes  = Incremented(@, ~failed),
              !.slowCalls  = Incremented(@, slow),
              !.ringIndex  = @ + 1]

RecordResult(b, failed, slow) ==
    LET next    == (b.ringIndex + 1) % WindowSize
        counted == [b EXCEPT !.totalCalls = Incremented(@, TRUE),
                             !.failures   = Incremented(@, failed),
                             !.successes  = Incremented(@, ~failed),
                             !.slowCalls  = Incremented(@, slow)]
    IN  IF CountWindow
        THEN [counted EXCEPT !.ring[b.ringIndex] = [failed |-> failed, slow |-> slow],
                             !.ringIndex = next,
                             !.ringFull  = @ \/ next = 0]
        ELSE counted

(* part / whole * 100 >= threshold, without the division.                  *)
Reaches(part, whole, threshold) == part * 100 >= threshold * whole

ThresholdReached(b) ==
    /\ b.totalCalls >= MinCalls
    /\ \/ TracksSlow /\ Reaches(b.slowCalls, b.totalCalls, SlowMax)
       \/ Reaches(b.failures, b.totalCalls, FailureMax)

CheckThresholds(b) ==
    IF ThresholdReached(b) THEN TransitionTo(b, "Open") ELSE b

(* Mutation: one success more than MaxRequests is asked for.               *)
CheckHalfOpenSuccessLate(b) ==
    IF b.totalCalls > b.halfOpenAllowed THEN TransitionTo(b, "Closed") ELSE b

CheckHalfOpenSuccess(b) ==
    IF b.totalCalls >= b.halfOpenAllowed THEN TransitionTo(b, "Closed") ELSE b

(* Mutation: a late success closes a breaker that is open.                 *)
SettleWhenOpen(b, failed, slow) ==
    LET now  == GetStateUnsafe(b)
        then == RecordResult(now, failed, slow)
    IN  IF now.state = "Closed" THEN CheckThresholds(then)
        ELSE TransitionTo(then, IF failed THEN "Open" ELSE "Closed")

(* Mutation: a half-open breaker does not record a success.                *)
SettleUnrecorded(b, failed, slow) ==
    LET now  == GetStateUnsafe(b)
        then == RecordResult(now, failed, slow)
    IN  CASE now.state = "Closed"             -> CheckThresholds(then)
          [] now.state = "HalfOpen" /\ failed -> TransitionTo(then, "Open")
          [] OTHER                            -> CheckHalfOpenSuccess(now)

Settle(b, failed, slow) ==
    LET now  == GetStateUnsafe(b)
        then == RecordResult(now, failed, slow)
    IN  CASE now.state = "Closed"              -> CheckThresholds(then)
          [] now.state = "HalfOpen" /\ failed  -> TransitionTo(then, "Open")
          [] now.state = "HalfOpen" /\ ~failed -> CheckHalfOpenSuccess(then)
          [] OTHER                             -> now

-----------------------------------------------------------------------------
(* Steps that take mutex.Lock(): no reader holds the lock.                 *)

(* Mutation: Execute and Reset take only the read lock.                    *)
LockShared == TRUE

LockFree == \A r \in Readers : rpc[r] = "idle"

(* A half-open period ends when the breaker leaves HalfOpen.               *)
EndPeriod(running) == IF cb'.state = "HalfOpen" THEN running ELSE {}

AdmitNormal(c) ==
    /\ pc[c] = "idle" /\ LockFree
    /\ cb.state = "Closed"
    /\ pc' = [pc EXCEPT ![c] = "running"]
    /\ UNCHANGED <<cb, totalRejected, loaded, rpc, probes>>

(* Mutation: off by one.                                                   *)
HasSlotOffByOne(b) == b.state = "HalfOpen" /\ b.halfOpenCount <= b.halfOpenAllowed

HasSlot(b) == b.state = "HalfOpen" /\ b.halfOpenCount < b.halfOpenAllowed

AdmitProbe(c) ==
    LET now == GetStateUnsafe(cb) IN
    /\ pc[c] = "idle" /\ LockFree
    /\ HasSlot(now)
    /\ cb' = [now EXCEPT !.halfOpenCount = @ + 1]
    /\ probes' = probes \union {c}
    /\ pc' = [pc EXCEPT ![c] = "running"]
    /\ UNCHANGED <<totalRejected, loaded, rpc>>

(* beforeCall would return an error.                                       *)
Refusing(b) ==
    LET now == GetStateUnsafe(b) IN now.state # "Closed" /\ ~HasSlot(now)

Refuse(c) ==
    /\ pc[c] = "idle" /\ LockFree
    /\ Refusing(cb)
    /\ cb' = GetStateUnsafe(cb)
    /\ pc' = [pc EXCEPT ![c] = "rejected"]
    /\ UNCHANGED <<totalRejected, loaded, rpc, probes>>

BeforeCall(c) == AdmitNormal(c) \/ AdmitProbe(c) \/ Refuse(c)

AfterCall(c, failed, slow) ==
    /\ pc[c] = "running" /\ LockFree
    /\ cb' = Settle(cb, failed, slow)
    /\ probes' = EndPeriod(probes \ {c})
    /\ pc' = [pc EXCEPT ![c] = "idle"]
    /\ UNCHANGED <<totalRejected, loaded, rpc>>

Reset ==
    /\ LockFree
    /\ cb' = [ClearWindow(cb) EXCEPT !.state = "Closed", !.halfOpenCount = 0]
    /\ probes' = EndPeriod(probes)
    /\ UNCHANGED <<totalRejected, pc, loaded, rpc>>

ForceOpen ==
    /\ LockFree
    /\ cb' = [cb EXCEPT !.state = "ForcedOpen"]
    /\ probes' = EndPeriod(probes)
    /\ UNCHANGED <<totalRejected, pc, loaded, rpc>>

-----------------------------------------------------------------------------
(* Steps that take no exclusive lock.                                      *)

(* fn panics: afterCall is a plain call, not a deferred one, so it is      *)
(* skipped.  The panic is recovered above Execute, as net/http does.       *)
Panic(c) ==
    /\ CanPanic
    /\ pc[c] = "running"
    /\ pc' = [pc EXCEPT ![c] = "idle"]
    /\ probes' = probes \ {c}
    /\ UNCHANGED <<cb, totalRejected, loaded, rpc>>

LoadRejected(c) ==
    /\ pc[c] = "rejected"
    /\ loaded' = [loaded EXCEPT ![c] = totalRejected]
    /\ pc' = [pc EXCEPT ![c] = "counting"]
    /\ UNCHANGED <<cb, totalRejected, rpc, probes>>

StoreRejected(c) ==
    /\ pc[c] = "counting"
    /\ totalRejected' = (loaded[c] + 1) % Word64
    /\ pc' = [pc EXCEPT ![c] = "idle"]
    /\ UNCHANGED <<cb, loaded, rpc, probes>>

(* RLock, then the condition of getStateUnsafe.                            *)
ReadState(r) ==
    /\ rpc[r] = "idle"
    /\ rpc' = [rpc EXCEPT ![r] = IF Expired(cb) THEN "transition" ELSE "reading"]
    /\ UNCHANGED <<cb, totalRejected, pc, loaded, probes>>

WriteState(r) ==
    /\ rpc[r] = "transition"
    /\ cb' = [cb EXCEPT !.state = "HalfOpen"]
    /\ rpc' = [rpc EXCEPT ![r] = "refresh"]
    /\ UNCHANGED <<totalRejected, pc, loaded, probes>>

WriteRest(r) ==
    /\ rpc[r] = "refresh"
    /\ cb' = Refresh(cb)
    /\ rpc' = [rpc EXCEPT ![r] = "reading"]
    /\ UNCHANGED <<totalRejected, pc, loaded, probes>>

RUnlock(r) ==
    /\ rpc[r] = "reading"
    /\ rpc' = [rpc EXCEPT ![r] = "idle"]
    /\ UNCHANGED <<cb, totalRejected, pc, loaded, probes>>

Tick ==
    /\ cb.state = "Open" /\ cb.sinceOpen < OpenPeriod
    /\ cb' = [cb EXCEPT !.sinceOpen = @ + 1]
    /\ UNCHANGED <<totalRejected, pc, loaded, rpc, probes>>

-----------------------------------------------------------------------------
Init ==
    /\ cb = NewBreaker
    /\ totalRejected = 0
    /\ pc = [c \in Callers |-> "idle"]
    /\ loaded = [c \in Callers |-> 0]
    /\ rpc = [r \in Readers |-> "idle"]
    /\ probes = {}

SlowOutcomes == IF TracksSlow THEN BOOLEAN ELSE {FALSE}

Return(c) == \E failed \in BOOLEAN, slow \in SlowOutcomes : AfterCall(c, failed, slow)

CallerStep(c) ==
    BeforeCall(c) \/ Return(c) \/ Panic(c) \/ LoadRejected(c) \/ StoreRejected(c)

Inspect(r) == WriteState(r) \/ WriteRest(r) \/ RUnlock(r)

Next ==
    \/ \E c \in Callers : CallerStep(c)
    \/ \E r \in Readers : ReadState(r) \/ Inspect(r)
    \/ Tick \/ Reset \/ ForceOpen

(* Time passes; a reader that holds the lock finishes; a call in flight    *)
(* returns or panics, and calls keep arriving.  The steps that take        *)
(* mutex.Lock() are enabled only between readers, and Go's RWMutex lets no *)
(* new reader in front of a waiting writer: strong fairness.  Nobody has   *)
(* to call Reset, ForceOpen, State or GetMetrics.                          *)
Fairness ==
    /\ WF_vars(Tick)
    /\ \A r \in Readers : WF_vars(Inspect(r))
    /\ \A c \in Callers : /\ SF_vars(Return(c) \/ Panic(c))
                          /\ WF_vars(LoadRejected(c) \/ StoreRejected(c))
    /\ SF_vars(\E c \in Callers : BeforeCall(c))

Spec == Init /\ [][Next]_vars

FairSpec == Spec /\ Fairness

-----------------------------------------------------------------------------
(* Properties.                                                             *)

Settled == \A r \in Readers : rpc[r] # "refresh"

(* At no moment are more than MaxRequests of a half-open period's calls in *)
(* flight, whichever of beforeCall and State() moved the breaker to        *)
(* half-open and however many readers raced to do so (beforeCall           *)
(* 183-188, getStateUnsafe 140-148); and halfOpenCount never forgets a     *)
(* call that is still in flight.                                           *)
HalfOpenQuotaRespected ==
    /\ Cardinality(probes) <= Quota
    /\ cb.state = "HalfOpen" /\ Settled =>
         /\ cb.halfOpenAllowed = Quota
         /\ Cardinality(probes) <= cb.halfOpenCount

(* Without panics every slot that a half-open period has handed out is     *)
(* either in flight or accounted for by a recorded result, so the period   *)
(* can always go on: with no probe in flight a slot is free, because fewer *)
(* than MaxRequests results are recorded (beforeCall 187, recordResult     *)
(* 255, checkHalfOpenSuccess 287).                                         *)
NoSlotLeaked ==
    ~CanPanic /\ cb.state = "HalfOpen" /\ Settled =>
        cb.halfOpenCount <= Cardinality(probes) + cb.totalCalls

(* A half-open breaker holds no failure and fewer than MaxRequests results *)
(* and nothing of the window it tripped on: the first failure or the last  *)
(* needed success has moved it on (afterCall 230-236).                     *)
HalfOpenCleanSlate ==
    cb.state = "HalfOpen" =>
        /\ cb.failures = 0 /\ cb.successes = cb.totalCalls
        /\ cb.totalCalls < Quota

(* State and GetMetrics write the breaker under a read lock.  While one of *)
(* them is on its way to do so its decision stays right - nobody closes,   *)
(* forces or re-opens the breaker - and there is no probe and no result    *)
(* that its late writes would wipe out (getStateUnsafe 140-154).           *)
ReaderRaceHarmless ==
    \A r \in Readers : rpc[r] \in {"transition", "refresh"} =>
        /\ Expired(cb) \/ cb.state = "HalfOpen"
        /\ rpc[r] = "refresh" => cb.state = "HalfOpen"
        /\ probes = {}
        /\ cb.totalCalls = 0 /\ cb.failures = 0 /\ cb.slowCalls = 0

(* Until the ring has been filled once, the counters that checkThresholds  *)
(* reads say exactly what the ring buffer holds, through every reset,      *)
(* trip, probe and lazy transition (recordResult 247-263).                 *)
RingMatchesCounters ==
    CountWindow /\ ~cb.ringFull =>
        LET written == 0 .. cb.ringIndex - 1 IN
        /\ cb.totalCalls = cb.ringIndex
        /\ cb.failures  = Cardinality({s \in written : cb.ring[s].failed})
        /\ cb.slowCalls = Cardinality({s \in written : cb.ring[s].slow})

(* Before Timeout has passed an open breaker, and a forced-open one at any *)
(* time, lets no call through, and neither a result that arrives late nor  *)
(* a reader moves it: only Reset and ForceOpen do.                         *)
Shut == cb.state = "ForcedOpen" \/ (cb.state = "Open" /\ ~Expired(cb))

StaysShut ==
    [][Shut => /\ \A c \in Callers : pc[c] = "idle" => pc'[c] # "running"
               /\ cb'.state = cb.state \/ Reset \/ ForceOpen]_vars

(* The breaker keeps the protocol of BreakerProtocol.  A reader that has   *)
(* set the state and not yet the rest is between two values of             *)
(* halfOpenCount, of which the callers will see the later one: 0.          *)
Protocol == INSTANCE BreakerProtocol WITH
    Users <- Callers, quota <- Quota, period <- OpenPeriod, lossy <- CanPanic,
    mode <- cb.state, waited <- cb.sinceOpen,
    slots <- IF cb.state = "HalfOpen" /\ Settled THEN cb.halfOpenCount ELSE 0,
    passed <- IF cb.state = "HalfOpen" THEN cb.totalCalls ELSE 0,
    running <- {c \in Callers : pc[c] = "running"},
    refused <- {c \in Callers : pc[c] \in {"rejected", "counting"}}

KeepsProtocol == Protocol!Spec

(* "temporarily blocking requests" (pkg/breaker/breaker.go:3-5): a breaker *)
(* that refuses calls - open, or half-open with every slot taken - comes   *)
(* to a moment when it would admit one, with no help from Reset.           *)
BlockingIsTemporary ==
    Refusing(cb) /\ cb.state # "ForcedOpen" ~>
        ~Refusing(cb) \/ cb.state = "ForcedOpen"
=============================================================================
