--------------------------- MODULE AdaptiveBreaker ---------------------------
(***************************************************************************)
(* internal/breaker/adaptive.go: an AdaptiveBreaker around the breaker of  *)
(* module CircuitBreaker.  Callers now call AdaptiveBreaker.Execute, which *)
(* looks at consecutiveFailures under ab.mutex, unlocks, calls the inner   *)
(* breaker (under cb.mutex), and locks ab.mutex again to track the result. *)
(* The two locks are never held together, so each section is a step of its *)
(* own.  A trip is counted by the OnStateChange callback, on a goroutine   *)
(* that transitionTo starts; Reset is three sections one after the other.  *)
(*                                                                         *)
(* Abstracted: what is only reported, latencies and the failure rate that  *)
(* UpdateEMAs smooths - it may find any rate, in multiples of 1/Whole, and *)
(* what is kept of the window is whether it holds a call.  IsSuccessful is *)
(* not set: a call fails if it returns an error.                           *)
(***************************************************************************)
EXTENDS CircuitBreaker

CONSTANTS
    ConsecutiveFailureLimit,    \* 0: disabled
    Whole,                      \* a failure rate of 100 percent
    MinThreshold, MaxThreshold, \* the Config bounds, in units of 1/Whole
    BaseThreshold,              \* Base.FailureRateThreshold, as configured
    MaxCallbacks                \* bound: trip callbacks that have not run yet

ASSUME AdaptiveAssumption ==
    /\ ConsecutiveFailureLimit \in Nat
    /\ ConsecutiveFailureLimit + Cardinality(Callers) <= Word32
    /\ Whole \in Nat \ {0} /\ BaseThreshold \in Nat
    /\ MinThreshold \in Nat /\ MaxThreshold \in Nat
    /\ MinThreshold < MaxThreshold
    /\ MaxCallbacks \in Nat \ {0}

VARIABLES
    ab,          \* the fields that ab.mutex protects
    tripCount,   \* the atomic counter
    callbacks,   \* OnStateChange goroutines for trips that have not run
    apc,         \* where each caller is in AdaptiveBreaker.Execute
    resetting    \* where the goroutine that calls Reset is

adaptiveVars == <<vars, ab, tripCount, callbacks, apc, resetting>>

(* Thresholds are multiples of 1/(Whole * Unit): the fractions 0.3 and 0.5 *)
(* of adaptThreshold, and the division in its ratio, come out exactly.     *)
Unit == 10 * (MaxThreshold - MinThreshold)

Thresholds == {BaseThreshold * Unit} \union MinThreshold * Unit .. MaxThreshold * Unit

Adaptives ==
    [consecutiveFailures : 0 .. Word32 - 1,
     windowHasCalls : BOOLEAN,
     emaInitialized : BOOLEAN,
     currentThreshold : Thresholds]

(* Types; and once the averages are initialized the reported threshold is  *)
(* between its two bounds, although Base.FailureRateThreshold need not be  *)
(* (it is 0 when New's default is wanted) (adaptThreshold 255-281).        *)
AdaptiveTypeOK ==
    /\ TypeOK
    /\ ab \in Adaptives
    /\ ab.emaInitialized =>
         ab.currentThreshold \in MinThreshold * Unit .. MaxThreshold * Unit
    /\ tripCount \in 0 .. Word32 - 1
    /\ callbacks \in 0 .. MaxCallbacks
    /\ apc \in [Callers -> {"idle", "checked", "forcing", "inner", "failed", "succeeded"}]
    /\ resetting \in {"no", "cleared", "zeroed"}

-----------------------------------------------------------------------------
Cleared ==
    [consecutiveFailures |-> 0, windowHasCalls |-> FALSE,
     emaInitialized |-> FALSE, currentThreshold |-> BaseThreshold * Unit]

LimitReached ==
    /\ ConsecutiveFailureLimit > 0
    /\ ab.consecutiveFailures >= ConsecutiveFailureLimit

(* adaptThreshold: below min tighten, above max relax, else interpolate.   *)
TargetThreshold(ema) ==
    LET base  == BaseThreshold * Unit
        range == MaxThreshold - MinThreshold
    IN  CASE ema < MinThreshold ->
               MinThreshold * Unit + (BaseThreshold - MinThreshold) * 3 * range
          [] ema > MaxThreshold -> base + (MaxThreshold - BaseThreshold) * 5 * range
          [] OTHER -> base + (MaxThreshold - BaseThreshold) * 3 * (ema - MinThreshold)

(* Mutation: the threshold is not clamped.                                 *)
AdaptThresholdUnclamped(ema) == TargetThreshold(ema)

AdaptThreshold(ema) ==
    LET target == TargetThreshold(ema) IN
    CASE target < MinThreshold * Unit -> MinThreshold * Unit
      [] target > MaxThreshold * Unit -> MaxThreshold * Unit
      [] OTHER -> target

Move(c, place) == apc' = [apc EXCEPT ![c] = place]

-----------------------------------------------------------------------------
(* Execute.                                                                *)

(* Mutation: a caller that finds the limit reached goes on.                *)
CheckOnly(c) ==
    /\ apc[c] = "idle"
    /\ Move(c, "checked")
    /\ UNCHANGED <<vars, ab, tripCount, callbacks, resetting>>

(* consecutiveFailures is read here and acted on later.                    *)
Check(c) ==
    /\ apc[c] = "idle"
    /\ Move(c, IF LimitReached THEN "forcing" ELSE "checked")
    /\ UNCHANGED <<vars, ab, tripCount, callbacks, resetting>>

(* Mutation: the call is refused but the breaker stays as it is.           *)
ForceNothing(c) ==
    /\ apc[c] = "forcing"
    /\ Move(c, "idle")
    /\ UNCHANGED <<vars, ab, tripCount, callbacks, resetting>>

(* Mutation: the row of failures is forgotten once it has had its effect.  *)
ForceAndForget(c) ==
    /\ apc[c] = "forcing"
    /\ ForceOpen
    /\ Move(c, "idle")
    /\ ab' = [ab EXCEPT !.consecutiveFailures = 0]
    /\ UNCHANGED <<tripCount, callbacks, resetting>>

(* inner.ForceOpen, and ErrOpenState to the caller.                        *)
OpenAtLimit(c) ==
    /\ apc[c] = "forcing"
    /\ ForceOpen
    /\ Move(c, "idle")
    /\ UNCHANGED <<ab, tripCount, callbacks, resetting>>

Enter(c) ==
    /\ apc[c] = "checked"
    /\ BeforeCall(c)
    /\ Move(c, "inner")
    /\ UNCHANGED <<ab, tripCount, callbacks, resetting>>

(* Does this afterCall take the inner breaker through transitionTo(Open)?  *)
Trips == GetStateUnsafe(cb).state # "Open" /\ cb'.state = "Open"

(* fn returns and the inner breaker records it.  An error that is one of   *)
(* the breaker's own (fn is guarded by a breaker too) counts as a failure  *)
(* there, but Execute takes it for a rejection and does not track it.      *)
Leave(c) ==
    /\ apc[c] = "inner"
    /\ callbacks < MaxCallbacks
    /\ \E outcome \in {"nil", "error", "rejection"}, slow \in SlowOutcomes :
         /\ AfterCall(c, outcome # "nil", slow)
         /\ Move(c, CASE outcome = "nil"   -> "succeeded"
                      [] outcome = "error" -> "failed"
                      [] OTHER             -> "idle")
    /\ callbacks' = IF Trips THEN callbacks + 1 ELSE callbacks
    /\ UNCHANGED <<ab, tripCount, resetting>>

Abandon(c) ==
    /\ apc[c] = "inner"
    /\ Panic(c)
    /\ Move(c, "idle")
    /\ UNCHANGED <<ab, tripCount, callbacks, resetting>>

Rejected(c) ==
    /\ apc[c] = "inner"
    /\ \/ LoadRejected(c) /\ apc' = apc
       \/ StoreRejected(c) /\ Move(c, "idle")
    /\ UNCHANGED <<ab, tripCount, callbacks, resetting>>

Track(c) ==
    /\ apc[c] \in {"failed", "succeeded"}
    /\ ab' = [ab EXCEPT
                 !.consecutiveFailures =
                     IF apc[c] = "failed" THEN Incremented(@, TRUE) ELSE 0,
                 !.windowHasCalls = TRUE]
    /\ Move(c, "idle")
    /\ UNCHANGED <<vars, tripCount, callbacks, resetting>>

-----------------------------------------------------------------------------
(* What other goroutines do.                                               *)

TripCallback ==
    /\ callbacks > 0
    /\ callbacks' = callbacks - 1
    /\ tripCount' = (tripCount + 1) % Word32
    /\ UNCHANGED <<vars, ab, apc, resetting>>

UpdateEMAs ==
    /\ ab.windowHasCalls
    /\ \E ema \in 0 .. Whole :
         ab' = [ab EXCEPT !.windowHasCalls = FALSE, !.emaInitialized = TRUE,
                          !.currentThreshold = AdaptThreshold(ema)]
    /\ UNCHANGED <<vars, tripCount, callbacks, apc, resetting>>

ClearFields ==
    /\ resetting = "no"
    /\ ab' = Cleared
    /\ resetting' = "cleared"
    /\ UNCHANGED <<vars, tripCount, callbacks, apc>>

ZeroTrips ==
    /\ resetting = "cleared"
    /\ tripCount' = 0
    /\ resetting' = "zeroed"
    /\ UNCHANGED <<vars, ab, callbacks, apc>>

ResetInner ==
    /\ resetting = "zeroed"
    /\ Reset
    /\ resetting' = "no"
    /\ UNCHANGED <<ab, tripCount, callbacks, apc>>

UserForceOpen ==
    /\ ForceOpen
    /\ UNCHANGED <<ab, tripCount, callbacks, apc, resetting>>

(* State and GetMetrics forward to the inner breaker.                      *)
InnerStep ==
    /\ Tick \/ \E r \in Readers : ReadState(r) \/ Inspect(r)
    /\ UNCHANGED <<ab, tripCount, callbacks, apc, resetting>>

-----------------------------------------------------------------------------
AdaptiveInit ==
    /\ Init
    /\ ab = Cleared
    /\ tripCount = 0 /\ callbacks = 0
    /\ apc = [c \in Callers |-> "idle"]
    /\ resetting = "no"

ExecuteStep(c) ==
    \/ Check(c) \/ OpenAtLimit(c) \/ Enter(c) \/ Leave(c)
    \/ Abandon(c) \/ Rejected(c) \/ Track(c)

ResetStep == ClearFields \/ ZeroTrips \/ ResetInner

AdaptiveNext ==
    \/ \E c \in Callers : ExecuteStep(c)
    \/ TripCallback \/ UpdateEMAs \/ ResetStep
    \/ UserForceOpen \/ InnerStep

AdaptiveSpec == AdaptiveInit /\ [][AdaptiveNext]_adaptiveVars

(* As in CircuitBreaker: steps that wait for cb.mutex are strongly fair,   *)
(* the others weakly; calls keep arriving, fn returns, time passes and     *)
(* callbacks run.  Nobody has to call Reset, ForceOpen, State or           *)
(* UpdateEMAs.                                                             *)
AdaptiveFairness ==
    /\ WF_adaptiveVars(Tick /\ InnerStep)
    /\ WF_adaptiveVars(InnerStep /\ \E r \in Readers : Inspect(r))
    /\ WF_adaptiveVars(TripCallback)
    /\ WF_adaptiveVars(\E c \in Callers : Check(c))
    /\ \A c \in Callers :
         /\ SF_adaptiveVars(Enter(c) \/ OpenAtLimit(c) \/ Leave(c) \/ Abandon(c))
         /\ WF_adaptiveVars(Rejected(c) \/ Track(c))

AdaptiveFairSpec == AdaptiveSpec /\ AdaptiveFairness

-----------------------------------------------------------------------------
(* Properties.                                                             *)

(* Calls that have passed the check and may still be tracked.              *)
PastCheck == {c \in Callers : apc[c] \in {"checked", "inner", "failed", "succeeded"}}

(* The check and the increment are on two sides of an unlock, so calls     *)
(* already past the check take consecutiveFailures over its limit; but     *)
(* once the limit is reached no further call gets past, and so the         *)
(* overshoot is at most the calls that were on their way (Execute 171-204).*)
OvershootIsInFlight ==
    ConsecutiveFailureLimit > 0 =>
        ab.consecutiveFailures + Cardinality(PastCheck)
            < ConsecutiveFailureLimit + Cardinality(Callers)

(* Once the limit is reached and the calls that were past the check have   *)
(* come back, nothing but a Reset ends the row of failures or lets a call  *)
(* through to the inner breaker: not an open period that ends, not a call  *)
(* that succeeds, for none is made, not the averages, and not the rest of  *)
(* an earlier Reset (Execute 171-180, 191-198; Reset 325-340).             *)
LimitIsFinal ==
    [][LimitReached /\ PastCheck = {}
         => (LimitReached' /\ PastCheck' = {}) \/ ClearFields]_adaptiveVars

(* What there is of the "immediate open" that ConsecutiveFailureLimit is   *)
(* said to trigger (adaptive.go:29-30): the failure that reaches the limit *)
(* opens nothing; the next call that looks at it does, and as long as      *)
(* calls arrive one does, unless a success or a Reset ends the row before. *)
(* The opening is ForceOpen's, which no timeout ends.                      *)
LimitTakesEffect == LimitReached ~> cb.state = "ForcedOpen" \/ ~LimitReached
=============================================================================
