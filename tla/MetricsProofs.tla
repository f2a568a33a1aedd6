---------------------------- MODULE MetricsProofs ----------------------------
(***************************************************************************)
(* What the counters of Metrics say, for any number of callers, scrapers,  *)
(* calls and scrapes, and any strategies.                                  *)
(***************************************************************************)
EXTENDS Metrics, FiniteSetTheorems, TLAPS

-----------------------------------------------------------------------------
(* Arithmetic and counting.                                                *)

LEMMA Quotient == ASSUME NEW n \in Nat, NEW a \in Nat \ {0} PROVE (n * a) \div a = n
BY Z3

LEMMA OneMore ==
    ASSUME NEW n \in Int, NEW a \in Int
    PROVE  n * a \in Int /\ (n + 1) * a = n * a + a /\ (n - 1) * a = n * a - a
BY Z3

(* One caller that enters or leaves a set of callers.                      *)
LEMMA CallerMoves ==
    ASSUME NEW S \in SUBSET Callers, NEW T \in SUBSET Callers, NEW c \in Callers,
           \A d \in Callers \ {c} : d \in S <=> d \in T
    PROVE  /\ Cardinality(S) \in Nat /\ Cardinality(T) \in Nat
           /\ (c \in S <=> c \in T) => Cardinality(T) = Cardinality(S)
           /\ c \notin S /\ c \in T => Cardinality(T) = Cardinality(S) + 1
           /\ c \in S /\ c \notin T => Cardinality(T) = Cardinality(S) - 1
<1>1. IsFiniteSet(S) /\ IsFiniteSet(T)
  BY MetricsAssumption, FS_Subset
<1>2. Cardinality(S) \in Nat /\ Cardinality(T) \in Nat
  BY <1>1, FS_CardinalityType
<1>3. CASE c \in S <=> c \in T
  <2>1. S = T
    BY <1>3
  <2> QED
    BY <1>2, <1>3, <2>1
<1>4. CASE c \notin S /\ c \in T
  <2>1. T = S \cup {c}
    BY <1>4
  <2> QED
    BY <1>1, <1>2, <1>4, <2>1, FS_AddElement
<1>5. CASE c \in S /\ c \notin T
  <2>1. T = S \ {c}
    BY <1>5
  <2> QED
    BY <1>1, <1>2, <1>5, <2>1, FS_RemoveElement
<1> QED
  BY <1>3, <1>4, <1>5

LEMMA SeriesFacts ==
    /\ Collect["retry"] = <<"attempts", "retry_successes", "retries">>
    /\ Collect["timeout"] = <<"calls", "timeouts", "timeout_successes">>
    /\ Collect["adaptive"] = <<"trips">>
    /\ \A c \in Collectors : Collect[c] \in Seq(Series) /\ Len(Collect[c]) \in Nat \ {0}
    /\ Series = {"attempts", "retry_successes", "retries",
                 "calls", "timeouts", "timeout_successes", "trips"}
<1>1. /\ DOMAIN Collect = {"retry", "timeout", "adaptive"}
      /\ Collect["retry"] = <<"attempts", "retry_successes", "retries">>
      /\ Collect["timeout"] = <<"calls", "timeouts", "timeout_successes">>
      /\ Collect["adaptive"] = <<"trips">>
  BY DEF Collect
<1>2. /\ Range(Collect["retry"]) = {"attempts", "retry_successes", "retries"}
      /\ Range(Collect["timeout"]) = {"calls", "timeouts", "timeout_successes"}
      /\ Range(Collect["adaptive"]) = {"trips"}
  BY <1>1 DEF Range
<1>3. Series = Range(Collect["retry"]) \cup Range(Collect["timeout"])
                 \cup Range(Collect["adaptive"])
  BY <1>1 DEF Series
<1>4. Series = {"attempts", "retry_successes", "retries",
                "calls", "timeouts", "timeout_successes", "trips"}
  BY <1>2, <1>3
<1>5. /\ Collect["retry"] \in Seq(Series) /\ Len(Collect["retry"]) = 3
      /\ Collect["timeout"] \in Seq(Series) /\ Len(Collect["timeout"]) = 3
      /\ Collect["adaptive"] \in Seq(Series) /\ Len(Collect["adaptive"]) = 1
  BY <1>1, <1>4
<1>6. Collectors \subseteq {"retry", "timeout", "adaptive"}
  BY <1>1, MetricsAssumption
<1>7. \A c \in Collectors : Collect[c] \in Seq(Series) /\ Len(Collect[c]) \in Nat \ {0}
  <2>1. 3 \in Nat \ {0} /\ 1 \in Nat \ {0}
    OBVIOUS
  <2> TAKE c \in Collectors
  <2>2. c = "retry" \/ c = "timeout" \/ c = "adaptive"
    BY <1>6
  <2> QED
    BY <1>5, <2>1, <2>2
<1> QED
  BY <1>1, <1>4, <1>7

-----------------------------------------------------------------------------
(* The inductive invariant of the callers.                                 *)

Tries == {try \in Unreported \X (1 .. MaxCalls) : try[2] <= tries[try[1]]}
Exhausteds == {c \in With("exhausted") : pc[c] = "counted"}
Attempting == {c \in Callers : pc[c] = "attempt"}

(* A call has tried at least once, at most as often as its strategy        *)
(* allows, and just so often if it is exhausted and the strategy regular.  *)
CallerInv(c) ==
    /\ tries[c] <= counter["calls"] /\ tries[c] <= Attempts
    /\ pc[c] = "idle" <=> tries[c] = 0
    /\ pc[c] \in {"over", "counted"} <=> outcome[c] # "none"
    /\ pc[c] = "pausing" => backoff # None /\ tries[c] < Attempts
    /\ outcome[c] = "exhausted" /\ Regular => tries[c] = Attempts

(* The counters once n calls are reported.                                 *)
Reported(n) ==
    /\ counter["attempts"] = n * Attempts
    /\ counter["calls"] <= counter["attempts"] + Cardinality(Tries)
    /\ Regular =>
         counter["calls"] >= n + counter["retries"] + Cardinality(Tries)
                               + Cardinality(Exhausteds) * (Attempts - 1)

CallType ==
    /\ backoff \in Strategies
    /\ counter \in [Series -> Nat]
    /\ pc \in [Callers -> {"idle", "attempt", "pausing", "over", "counted", "panicked"}]
    /\ tries \in [Callers -> 0 .. MaxCalls]
    /\ outcome \in [Callers -> {"none", "ok", "error", "exhausted"}]

CountInv ==
    /\ CallType
    /\ counter["calls"] <= MaxCalls
    /\ \A c \in Callers : CallerInv(c)
    /\ \E n \in Nat : Reported(n)
    /\ counter["timeout_successes"] = counter["retry_successes"] + Cardinality(With("ok"))
    /\ counter["timeouts"] + counter["timeout_successes"] + Cardinality(Attempting)
         <= counter["calls"]

LEMMA AttemptsType == ASSUME CallType PROVE Attempts \in Nat \ {0}
BY MetricsAssumption DEF CallType, Attempts

LEMMA CounterTypes ==
    ASSUME CallType
    PROVE  /\ counter["attempts"] \in Nat /\ counter["retry_successes"] \in Nat
           /\ counter["retries"] \in Nat /\ counter["calls"] \in Nat
           /\ counter["timeouts"] \in Nat /\ counter["timeout_successes"] \in Nat
           /\ counter["trips"] \in Nat
BY SeriesFacts DEF CallType

LEMMA TriesFinite == IsFiniteSet(Tries) /\ Cardinality(Tries) \in Nat
<1>1. IsFiniteSet(Callers) /\ MaxCalls \in Nat
  BY MetricsAssumption
<1>2. IsFiniteSet(1 .. MaxCalls)
  BY <1>1, FS_Interval
<1>3. IsFiniteSet(Callers \X (1 .. MaxCalls))
  BY <1>1, <1>2, FS_Product
<1>4. Tries \subseteq Callers \X (1 .. MaxCalls)
  BY DEF Tries, Unreported
<1> QED
  BY <1>3, <1>4, FS_Subset, FS_CardinalityType

(* The sets of callers that are counted.                                   *)
LEMMA SetsMove ==
    ASSUME NEW c \in Callers,
           \A d \in Callers \ {c} : pc'[d] = pc[d] /\ outcome'[d] = outcome[d]
    PROVE  /\ Cardinality(With("ok")) \in Nat /\ Cardinality(With("ok")') \in Nat
           /\ Cardinality(Exhausteds) \in Nat /\ Cardinality(Exhausteds') \in Nat
           /\ Cardinality(Attempting) \in Nat /\ Cardinality(Attempting') \in Nat
           /\ Cardinality(With("ok")') = Cardinality(With("ok"))
                + (IF outcome'[c] = "ok" THEN 1 ELSE 0) - (IF outcome[c] = "ok" THEN 1 ELSE 0)
           /\ Cardinality(Exhausteds') = Cardinality(Exhausteds)
                + (IF outcome'[c] = "exhausted" /\ pc'[c] = "counted" THEN 1 ELSE 0)
                - (IF outcome[c] = "exhausted" /\ pc[c] = "counted" THEN 1 ELSE 0)
           /\ Cardinality(Attempting') = Cardinality(Attempting)
                + (IF pc'[c] = "attempt" THEN 1 ELSE 0) - (IF pc[c] = "attempt" THEN 1 ELSE 0)
<1>1. /\ With("ok") \in SUBSET Callers /\ With("ok")' \in SUBSET Callers
      /\ Exhausteds \in SUBSET Callers /\ Exhausteds' \in SUBSET Callers
      /\ Attempting \in SUBSET Callers /\ Attempting' \in SUBSET Callers
  BY DEF With, Exhausteds, Attempting
<1>2. \A d \in Callers : /\ d \in With("ok") <=> outcome[d] = "ok"
                         /\ d \in With("ok")' <=> outcome'[d] = "ok"
                         /\ d \in Exhausteds <=> outcome[d] = "exhausted" /\ pc[d] = "counted"
                         /\ d \in Exhausteds' <=> outcome'[d] = "exhausted" /\ pc'[d] = "counted"
                         /\ d \in Attempting <=> pc[d] = "attempt"
                         /\ d \in Attempting' <=> pc'[d] = "attempt"
  BY DEF With, Exhausteds, Attempting
<1>3. /\ Cardinality(With("ok")) \in Nat /\ Cardinality(With("ok")') \in Nat
      /\ Cardinality(With("ok")') = Cardinality(With("ok"))
           + (IF outcome'[c] = "ok" THEN 1 ELSE 0) - (IF outcome[c] = "ok" THEN 1 ELSE 0)
  <2>1. \A d \in Callers \ {c} : d \in With("ok") <=> d \in With("ok")'
    BY <1>2
  <2> QED
    BY <1>1, <1>2, <2>1, CallerMoves
<1>4. /\ Cardinality(Exhausteds) \in Nat /\ Cardinality(Exhausteds') \in Nat
      /\ Cardinality(Exhausteds') = Cardinality(Exhausteds)
           + (IF outcome'[c] = "exhausted" /\ pc'[c] = "counted" THEN 1 ELSE 0)
           - (IF outcome[c] = "exhausted" /\ pc[c] = "counted" THEN 1 ELSE 0)
  <2>1. \A d \in Callers \ {c} : d \in Exhausteds <=> d \in Exhausteds'
    BY <1>2
  <2> QED
    BY <1>1, <1>2, <2>1, CallerMoves
<1>5. /\ Cardinality(Attempting) \in Nat /\ Cardinality(Attempting') \in Nat
      /\ Cardinality(Attempting') = Cardinality(Attempting)
           + (IF pc'[c] = "attempt" THEN 1 ELSE 0) - (IF pc[c] = "attempt" THEN 1 ELSE 0)
  <2>1. \A d \in Callers \ {c} : d \in Attempting <=> d \in Attempting'
    BY <1>2
  <2> QED
    BY <1>1, <1>2, <2>1, CallerMoves
<1> QED
  BY <1>3, <1>4, <1>5

(* The attempts the tracker has not heard of, when one more is made, when  *)
(* a call goes on otherwise, and when it is reported.                      *)
Unheard == {"attempt", "pausing", "over", "panicked"}

LEMMA TriesAre ==
    /\ \A d, k : <<d, k>> \in Tries <=>
         d \in Callers /\ k \in 1 .. MaxCalls /\ pc[d] \in Unheard /\ k <= tries[d]
    /\ \A try \in Tries : try = <<try[1], try[2]>>
BY DEF Tries, Unreported, Unheard

LEMMA TriesAfter ==
    /\ \A d, k : <<d, k>> \in Tries' <=>
         d \in Callers /\ k \in 1 .. MaxCalls /\ pc'[d] \in Unheard /\ k <= tries'[d]
    /\ \A try \in Tries' : try = <<try[1], try[2]>>
BY DEF Tries, Unreported, Unheard

LEMMA TriesGrow ==
    ASSUME CallType, NEW c \in Callers, pc[c] = "pausing" \/ (pc[c] = "idle" /\ tries[c] = 0),
           tries[c] < MaxCalls,
           pc' = [pc EXCEPT ![c] = "attempt"], tries' = [tries EXCEPT ![c] = @ + 1]
    PROVE  Cardinality(Tries') = Cardinality(Tries) + 1
<1>1. /\ MaxCalls \in Nat /\ tries[c] \in Nat /\ tries'[c] = tries[c] + 1 /\ pc'[c] = "attempt"
      /\ \A d \in Callers \ {c} : pc'[d] = pc[d] /\ tries'[d] = tries[d]
  BY MetricsAssumption DEF CallType
<1> DEFINE new == <<c, tries[c] + 1>>
<1>2. new \notin Tries
  BY <1>1, TriesAre
<1>3. new \in Tries'
  BY <1>1, TriesAfter DEF Unheard
<1>4. ASSUME NEW d, NEW k, <<d, k>> # new
      PROVE  <<d, k>> \in Tries' <=> <<d, k>> \in Tries
  <2>1. CASE d = c
    <3>1. <<d, k>> \in Tries' <=> k \in 1 .. MaxCalls /\ k <= tries[c]
      BY <1>1, <1>4, <2>1, TriesAfter DEF Unheard
    <3>2. <<d, k>> \in Tries <=> k \in 1 .. MaxCalls /\ k <= tries[c]
      BY <1>1, <2>1, TriesAre DEF Unheard
    <3> QED
      BY <3>1, <3>2
  <2>2. CASE d # c
    BY <1>1, <2>2, TriesAre, TriesAfter
  <2> QED
    BY <2>1, <2>2
<1> HIDE DEF new
<1>5. Tries' = Tries \cup {new}
  BY <1>3, <1>4, TriesAre, TriesAfter
<1> QED
  BY <1>2, <1>5, TriesFinite, FS_AddElement

LEMMA TriesStay ==
    ASSUME \A d \in Callers : pc'[d] \in Unheard <=> pc[d] \in Unheard,
           \A d \in Callers : pc[d] \in Unheard => tries'[d] = tries[d]
    PROVE  Tries' = Tries
<1>1. \A d, k : <<d, k>> \in Tries' <=> <<d, k>> \in Tries
  BY TriesAre, TriesAfter
<1> QED
  BY <1>1, TriesAre, TriesAfter

LEMMA TriesReported ==
    ASSUME CallType, NEW c \in Callers, pc[c] \in Unheard,
           pc' = [pc EXCEPT ![c] = "counted"], tries' = tries
    PROVE  Cardinality(Tries') = Cardinality(Tries) - tries[c]
<1>1. /\ MaxCalls \in Nat /\ tries[c] \in 0 .. MaxCalls /\ pc'[c] = "counted"
      /\ \A d \in Callers \ {c} : pc'[d] = pc[d]
  BY MetricsAssumption DEF CallType
<1> DEFINE heard == {c} \X (1 .. tries[c])
<1>2. \A d, k : <<d, k>> \in heard <=> d = c /\ k \in 1 .. tries[c]
  OBVIOUS
<1>3. \A try \in heard : try = <<try[1], try[2]>>
  OBVIOUS
<1>4. IsFiniteSet(heard) /\ Cardinality(heard) = tries[c]
  <2>1. IsFiniteSet({c}) /\ Cardinality({c}) = 1
    BY FS_Singleton
  <2>2. IsFiniteSet(1 .. tries[c]) /\ Cardinality(1 .. tries[c]) = tries[c]
    <3>1. 1 \in Int /\ tries[c] \in Int /\ tries[c] \in Nat
      BY <1>1
    <3> QED
      BY <3>1, FS_Interval
  <2>3. IsFiniteSet(heard) /\ Cardinality(heard) = 1 * tries[c]
    BY <2>1, <2>2, FS_Product
  <2> QED
    BY <1>1, <2>3
<1> HIDE DEF heard
<1>5. heard \subseteq Tries
  <2>1. \A k \in 1 .. tries[c] : <<c, k>> \in Tries
    BY <1>1, TriesAre
  <2> QED
    BY <1>2, <1>3, <2>1
<1>6. ASSUME NEW d, NEW k
      PROVE  <<d, k>> \in Tries' <=> <<d, k>> \in Tries /\ <<d, k>> \notin heard
  BY <1>1, <1>2, TriesAre, TriesAfter DEF Unheard
<1>7. Tries' = Tries \ heard
  BY <1>3, <1>6, TriesAre, TriesAfter
<1>8. Tries \cap heard = heard
  BY <1>5
<1>9. Cardinality(Tries \ heard) = Cardinality(Tries) - Cardinality(Tries \cap heard)
  BY TriesFinite, FS_Difference
<1> QED
  BY <1>4, <1>7, <1>8, <1>9

-----------------------------------------------------------------------------
(* The callers' steps.                                                     *)

LEMMA CountInit == Init => CountInv
<1> SUFFICES ASSUME Init PROVE CountInv
  OBVIOUS
<1>1. CallType /\ Attempts \in Nat \ {0} /\ MaxCalls \in Nat
  <2>1. CallType
    BY MetricsAssumption DEF Init, CallType
  <2> QED
    BY <2>1, AttemptsType, MetricsAssumption
<1>2. \A x \in Series : counter[x] = 0
  BY DEF Init
<1>3. /\ counter["attempts"] = 0 /\ counter["retry_successes"] = 0 /\ counter["retries"] = 0
      /\ counter["calls"] = 0 /\ counter["timeouts"] = 0 /\ counter["timeout_successes"] = 0
  BY <1>2, SeriesFacts
<1>4. With("ok") = {} /\ Exhausteds = {} /\ Attempting = {} /\ Unreported = {}
  BY DEF Init, With, Exhausteds, Attempting, Unreported
<1>5. Tries = {}
  BY <1>4 DEF Tries
<1>6. Cardinality({}) = 0
  BY FS_EmptySet
<1>7. Reported(0)
  BY <1>1, <1>3, <1>4, <1>5, <1>6 DEF Reported
<1>8. \A c \in Callers : CallerInv(c)
  BY <1>1, <1>3 DEF Init, CallerInv
<1> QED
  BY <1>1, <1>3, <1>4, <1>6, <1>7, <1>8 DEF CountInv

LEMMA Fixed == ASSUME backoff' = backoff PROVE Attempts' = Attempts /\ Regular' = Regular
BY DEF Attempts, Regular

LEMMA CounterAfter ==
    ASSUME CallType, NEW x \in Series, NEW n \in Nat, Add(x, n)
    PROVE  /\ counter' \in [Series -> Nat] /\ counter'[x] = counter[x] + n
           /\ \A y \in Series \ {x} : counter'[y] = counter[y]
BY DEF Add, CallType

(* What a step of one caller leaves to be shown.                           *)
LEMMA OneCaller ==
    ASSUME CountInv, NEW c \in Callers, CallType', backoff' = backoff,
           \A d \in Callers \ {c} :
              pc'[d] = pc[d] /\ tries'[d] = tries[d] /\ outcome'[d] = outcome[d],
           counter'["calls"] >= counter["calls"], CallerInv(c)'
    PROVE  \A d \in Callers : CallerInv(d)'
<1> SUFFICES ASSUME NEW d \in Callers, d # c PROVE CallerInv(d)'
  OBVIOUS
<1>1. Attempts' = Attempts /\ Regular' = Regular
  BY Fixed
<1>2. /\ CallerInv(d) /\ counter["calls"] \in Nat /\ counter'["calls"] \in Nat
      /\ tries[d] \in Nat
  BY CounterTypes, SeriesFacts DEF CountInv, CallType
<1> QED
  BY <1>1, <1>2 DEF CallerInv

LEMMA AttemptStep ==
    ASSUME CountInv, NEW c \in Callers, NEW from \in {"idle", "pausing"}, Attempt(c, from)
    PROVE  CountInv'
<1>1. CallType /\ CallerInv(c) /\ Attempts \in Nat \ {0} /\ MaxCalls \in Nat
  BY AttemptsType, MetricsAssumption DEF CountInv
<1>2. /\ pc[c] = from /\ pc' = [pc EXCEPT ![c] = "attempt"]
      /\ tries' = [tries EXCEPT ![c] = @ + 1] /\ Add("calls", 1)
      /\ backoff' = backoff /\ outcome' = outcome /\ counter["calls"] < MaxCalls
  BY DEF Attempt, Goes
<1>3. /\ Attempts' = Attempts /\ Regular' = Regular
  BY <1>2, Fixed
<1>4. /\ tries[c] \in Nat /\ tries[c] <= counter["calls"] /\ counter["calls"] \in Nat
      /\ pc[c] = "idle" => tries[c] = 0
      /\ pc[c] = "pausing" => backoff # None /\ tries[c] < Attempts
      /\ outcome[c] = "none"
  BY <1>1, <1>2, CounterTypes DEF CallerInv, CallType
<1>5. /\ counter' \in [Series -> Nat] /\ counter'["calls"] = counter["calls"] + 1
      /\ \A y \in Series \ {"calls"} : counter'[y] = counter[y]
  BY <1>1, <1>2, CounterAfter, SeriesFacts
<1>6. CallType'
  <2>1. tries[c] + 1 \in 0 .. MaxCalls
    BY <1>1, <1>2, <1>4
  <2> QED
    BY <1>1, <1>2, <1>5, <2>1 DEF CallType
<1>7. /\ pc'[c] = "attempt" /\ tries'[c] = tries[c] + 1 /\ outcome'[c] = "none"
      /\ \A d \in Callers \ {c} :
            pc'[d] = pc[d] /\ tries'[d] = tries[d] /\ outcome'[d] = outcome[d]
  BY <1>1, <1>2, <1>4 DEF CallType
<1>8. CallerInv(c)'
  BY <1>1, <1>2, <1>3, <1>4, <1>5, <1>7 DEF CallerInv
<1>9. \A d \in Callers : CallerInv(d)'
  <2>1. counter'["calls"] >= counter["calls"]
    BY <1>4, <1>5
  <2> QED
    BY <1>2, <1>6, <1>7, <1>8, <2>1, OneCaller
<1>10. Cardinality(Tries') = Cardinality(Tries) + 1
  <2>1. pc[c] = "pausing" \/ (pc[c] = "idle" /\ tries[c] = 0)
    BY <1>2, <1>4
  <2>2. tries[c] < MaxCalls
    BY <1>1, <1>2, <1>4
  <2> QED
    BY <1>1, <1>2, <2>1, <2>2, TriesGrow
<1>11. /\ Cardinality(With("ok")') = Cardinality(With("ok"))
       /\ Cardinality(Exhausteds') = Cardinality(Exhausteds)
       /\ Cardinality(Attempting') = Cardinality(Attempting) + 1
       /\ Cardinality(With("ok")) \in Nat /\ Cardinality(Exhausteds) \in Nat
       /\ Cardinality(Attempting) \in Nat
  BY <1>2, <1>4, <1>7, SetsMove
<1>12. /\ counter'["attempts"] = counter["attempts"] /\ counter'["retries"] = counter["retries"]
       /\ counter'["retry_successes"] = counter["retry_successes"]
       /\ counter'["timeouts"] = counter["timeouts"]
       /\ counter'["timeout_successes"] = counter["timeout_successes"]
  BY <1>5, SeriesFacts
<1>13. \E n \in Nat : Reported(n)'
  <2>1. PICK n \in Nat : Reported(n)
    BY DEF CountInv
  <2> QED
    BY <1>1, <1>3, <1>4, <1>5, <1>10, <1>11, <1>12, <2>1, CounterTypes, TriesFinite, OneMore
    DEF Reported
<1> QED
  BY <1>1, <1>2, <1>4, <1>5, <1>6, <1>9, <1>11, <1>12, <1>13, CounterTypes DEF CountInv

(* A call that goes on, or ends, without the tracker hearing of it yet.    *)
LEMMA UnheardStep ==
    ASSUME CountInv, NEW c \in Callers, pc[c] \in {"attempt", "pausing"},
           NEW to \in {"pausing", "over", "panicked"},
           NEW verdict \in {"none", "ok", "error", "exhausted"},
           pc' = [pc EXCEPT ![c] = to], outcome' = [outcome EXCEPT ![c] = verdict],
           tries' = tries, backoff' = backoff, counter' \in [Series -> Nat],
           \A x \in {"attempts", "calls", "retries", "retry_successes"} :
              counter'[x] = counter[x],
           verdict = "ok" => counter'["timeout_successes"] = counter["timeout_successes"] + 1,
           verdict # "ok" => counter'["timeout_successes"] = counter["timeout_successes"],
           pc[c] = "attempt" =>
              counter'["timeouts"] + counter'["timeout_successes"] <=
                counter["timeouts"] + counter["timeout_successes"] + 1,
           pc[c] = "pausing" =>
              counter'["timeouts"] + counter'["timeout_successes"] <=
                counter["timeouts"] + counter["timeout_successes"],
           to = "over" <=> verdict # "none",
           to = "pausing" => backoff # None /\ tries[c] < Attempts,
           verdict = "exhausted" /\ Regular => tries[c] = Attempts
    PROVE  CountInv'
<1>1. CallType /\ CallerInv(c) /\ Attempts \in Nat \ {0} /\ MaxCalls \in Nat
  BY AttemptsType, MetricsAssumption DEF CountInv
<1>2. Attempts' = Attempts /\ Regular' = Regular
  BY Fixed
<1>3. CallType'
  BY <1>1 DEF CallType
<1>4. /\ pc'[c] = to /\ tries'[c] = tries[c] /\ outcome'[c] = verdict /\ outcome[c] = "none"
      /\ \A d \in Callers \ {c} :
            pc'[d] = pc[d] /\ tries'[d] = tries[d] /\ outcome'[d] = outcome[d]
  BY <1>1 DEF CallType, CallerInv
<1>5. CallerInv(c)'
  BY <1>1, <1>2, <1>4 DEF CallerInv
<1>6. \A d \in Callers : CallerInv(d)'
  <2>1. counter'["calls"] >= counter["calls"]
    BY <1>1, CounterTypes
  <2> QED
    BY <1>3, <1>4, <1>5, <2>1, OneCaller
<1>7. Tries' = Tries
  <2>1. \A d \in Callers : pc'[d] \in Unheard <=> pc[d] \in Unheard
    BY <1>4 DEF Unheard
  <2> QED
    BY <2>1, TriesStay
<1>8. /\ Cardinality(With("ok")') = Cardinality(With("ok")) + (IF verdict = "ok" THEN 1 ELSE 0)
      /\ Cardinality(Exhausteds') = Cardinality(Exhausteds)
      /\ Cardinality(Attempting') = Cardinality(Attempting) - (IF pc[c] = "attempt" THEN 1 ELSE 0)
      /\ Cardinality(With("ok")) \in Nat /\ Cardinality(Attempting) \in Nat
  BY <1>4, SetsMove
<1>9. \E n \in Nat : Reported(n)'
  <2>1. PICK n \in Nat : Reported(n)
    BY DEF CountInv
  <2> QED
    BY <1>2, <1>7, <1>8, <2>1 DEF Reported
<1>10. /\ counter["timeouts"] \in Nat /\ counter["timeout_successes"] \in Nat
       /\ counter["calls"] \in Nat /\ counter["retry_successes"] \in Nat
       /\ counter'["timeouts"] \in Nat /\ counter'["timeout_successes"] \in Nat
  BY <1>1, SeriesFacts, CounterTypes
<1>11. /\ counter["calls"] <= MaxCalls
       /\ counter["timeout_successes"] = counter["retry_successes"] + Cardinality(With("ok"))
       /\ counter["timeouts"] + counter["timeout_successes"] + Cardinality(Attempting)
            <= counter["calls"]
  BY DEF CountInv
<1>12. counter'["timeout_successes"] = counter'["retry_successes"] + Cardinality(With("ok")')
  BY <1>8, <1>10, <1>11
<1>13. counter'["timeouts"] + counter'["timeout_successes"] + Cardinality(Attempting')
         <= counter'["calls"]
  BY <1>8, <1>10, <1>11
<1> QED
  BY <1>3, <1>6, <1>9, <1>11, <1>12, <1>13 DEF CountInv

LEMMA SucceedStep == ASSUME CountInv, NEW c \in Callers, Succeed(c) PROVE CountInv'
<1>1. CallType /\ Add("timeout_successes", 1)
  BY DEF CountInv, Succeed
<1>2. /\ counter' \in [Series -> Nat]
      /\ counter'["timeout_successes"] = counter["timeout_successes"] + 1
      /\ \A y \in Series \ {"timeout_successes"} : counter'[y] = counter[y]
  BY <1>1, CounterAfter, SeriesFacts
<1>3. \A x \in {"attempts", "calls", "retries", "retry_successes", "timeouts"} :
        counter'[x] = counter[x]
  BY <1>2, SeriesFacts
<1>4. /\ pc[c] = "attempt" /\ pc' = [pc EXCEPT ![c] = "over"]
      /\ outcome' = [outcome EXCEPT ![c] = "ok"] /\ tries' = tries /\ backoff' = backoff
  BY DEF Succeed, Ends
<1>5. counter'["timeouts"] + counter'["timeout_successes"] <=
        counter["timeouts"] + counter["timeout_successes"] + 1
  BY <1>1, <1>2, <1>3, CounterTypes
<1> QED
  BY <1>2, <1>3, <1>4, <1>5, UnheardStep

LEMMA FailsFacts ==
    ASSUME CountInv, NEW c \in Callers, Fails(c)
    PROVE  /\ pc[c] = "attempt" /\ tries' = tries /\ backoff' = backoff
           /\ counter' \in [Series -> Nat]
           /\ \A x \in {"attempts", "calls", "retries", "retry_successes",
                        "timeout_successes"} : counter'[x] = counter[x]
           /\ counter'["timeouts"] + counter'["timeout_successes"] <=
                counter["timeouts"] + counter["timeout_successes"] + 1
<1>1. CallType
  BY DEF CountInv
<1>2. CASE Add("timeouts", 1)
  <2>1. /\ counter' \in [Series -> Nat]
        /\ counter'["timeouts"] = counter["timeouts"] + 1
        /\ \A y \in Series \ {"timeouts"} : counter'[y] = counter[y]
    BY <1>1, <1>2, CounterAfter, SeriesFacts
  <2>2. \A x \in {"attempts", "calls", "retries", "retry_successes", "timeout_successes"} :
          counter'[x] = counter[x]
    BY <2>1, SeriesFacts
  <2> QED
    BY <1>1, <2>1, <2>2, CounterTypes DEF Fails
<1>3. CASE UNCHANGED counter
  BY <1>1, <1>3, CounterTypes DEF Fails, CallType
<1> QED
  BY <1>2, <1>3 DEF Fails

(* What the strategy says of another retry.                                *)
LEMMA PauseFacts ==
    ASSUME CallType, backoff # None, NEW retry \in Nat
    PROVE  /\ Attempts = backoff.count + 1 /\ backoff.count \in Nat
           /\ MayPause(backoff, retry) => retry < backoff.count
           /\ MayGiveUp(backoff, retry) /\ Regular => retry >= backoff.count
<1>1. Attempts = backoff.count + 1 /\ backoff.count \in Nat
  BY MetricsAssumption DEF CallType, Attempts
<1>2. ASSUME MayPause(backoff, retry) PROVE retry < backoff.count
  <2>1. CASE retry >= backoff.count
    <3>1. NextPauses(backoff, retry) = {-1}
      BY <2>1 DEF NextPauses, Exhausted
    <3>2. PICK p \in NextPauses(backoff, retry) : p >= 0
      BY <1>2 DEF MayPause
    <3> QED
      BY <3>1, <3>2
  <2> QED
    BY <1>1, <2>1
<1>3. ASSUME MayGiveUp(backoff, retry), Regular PROVE retry >= backoff.count
  <2>1. CASE retry < backoff.count
    <3>1. retry \in 0 .. backoff.count - 1
      BY <1>1, <2>1
    <3> QED
      BY <1>3, <3>1 DEF Regular
  <2> QED
    BY <1>1, <2>1
<1> QED
  BY <1>1, <1>2, <1>3

LEMMA FailStep ==
    ASSUME CountInv, NEW c \in Callers,
           NotRetried(c) \/ NoStrategy(c) \/ GiveUp(c) \/ Pause(c)
    PROVE  CountInv'
<1>1. CallType /\ CallerInv(c)
  BY DEF CountInv
<1>2. Fails(c)
  BY DEF NotRetried, NoStrategy, GiveUp, Pause
<1>3. pc[c] = "attempt" /\ outcome[c] = "none" /\ tries[c] \in Nat /\ tries[c] # 0
      /\ outcome = [outcome EXCEPT ![c] = "none"]
  <2>1. pc[c] = "attempt"
    BY <1>2, FailsFacts
  <2> QED
    BY <1>1, <2>1 DEF CallerInv, CallType
<1>4. CASE NotRetried(c)
  <2>1. pc' = [pc EXCEPT ![c] = "over"] /\ outcome' = [outcome EXCEPT ![c] = "error"]
    BY <1>4 DEF NotRetried, Ends
  <2> QED
    BY <1>2, <1>3, <2>1, FailsFacts, UnheardStep
<1>5. CASE NoStrategy(c)
  <2>1. pc' = [pc EXCEPT ![c] = "panicked"] /\ outcome' = [outcome EXCEPT ![c] = "none"]
    BY <1>3, <1>5 DEF NoStrategy, Goes
  <2> QED
    BY <1>2, <1>3, <2>1, FailsFacts, UnheardStep
<1>6. CASE GiveUp(c)
  <2>1. pc' = [pc EXCEPT ![c] = "over"] /\ outcome' = [outcome EXCEPT ![c] = "exhausted"]
    BY <1>6 DEF GiveUp, Ends
  <2>2. backoff # None /\ MayGiveUp(backoff, tries[c] - 1) /\ tries[c] - 1 \in Nat
    BY <1>3, <1>6 DEF GiveUp
  <2>3. Attempts = backoff.count + 1 /\ backoff.count \in Nat
        /\ (Regular => tries[c] - 1 >= backoff.count)
    BY <1>1, <2>2, PauseFacts
  <2>4. Regular => tries[c] = Attempts
    BY <1>1, <1>3, <2>3 DEF CallerInv
  <2> QED
    BY <1>2, <1>3, <2>1, <2>4, FailsFacts, UnheardStep
<1>7. CASE Pause(c)
  <2>1. pc' = [pc EXCEPT ![c] = "pausing"] /\ outcome' = [outcome EXCEPT ![c] = "none"]
    BY <1>3, <1>7 DEF Pause, Goes
  <2>2. backoff # None /\ MayPause(backoff, tries[c] - 1) /\ tries[c] - 1 \in Nat
    BY <1>3, <1>7 DEF Pause
  <2>3. Attempts = backoff.count + 1 /\ backoff.count \in Nat /\ tries[c] - 1 < backoff.count
    BY <1>1, <2>2, PauseFacts
  <2>4. tries[c] < Attempts
    BY <1>3, <2>3
  <2> QED
    BY <1>2, <1>3, <2>1, <2>2, <2>4, FailsFacts, UnheardStep
<1> QED
  BY <1>4, <1>5, <1>6, <1>7

LEMMA CancelledStep == ASSUME CountInv, NEW c \in Callers, Cancelled(c) PROVE CountInv'
<1>1. CallType
  BY DEF CountInv
<1>2. /\ pc[c] = "pausing" /\ pc' = [pc EXCEPT ![c] = "over"]
      /\ outcome' = [outcome EXCEPT ![c] = "error"]
      /\ tries' = tries /\ backoff' = backoff /\ counter' = counter
  BY DEF Cancelled, Ends
<1>3. /\ counter' \in [Series -> Nat]
      /\ counter'["timeouts"] + counter'["timeout_successes"] <=
           counter["timeouts"] + counter["timeout_successes"]
  BY <1>1, <1>2, CounterTypes DEF CallType
<1> QED
  BY <1>1, <1>2, <1>3, CounterTypes, UnheardStep

(* The tracker hears of a call: of as many attempts as there may have been,*)
(* and there has been one at least.                                        *)
LEMMA CountAttemptsStep == ASSUME CountInv, NEW c \in Callers, CountAttempts(c) PROVE CountInv'
<1>1. CallType /\ CallerInv(c) /\ Attempts \in Nat \ {0}
  BY AttemptsType DEF CountInv
<1>2. /\ pc[c] = "over" /\ pc' = [pc EXCEPT ![c] = "counted"] /\ Add("attempts", Attempts)
      /\ tries' = tries /\ outcome' = outcome /\ backoff' = backoff
  BY DEF CountAttempts, Goes
<1>3. Attempts' = Attempts /\ Regular' = Regular
  BY <1>2, Fixed
<1>4. /\ counter' \in [Series -> Nat]
      /\ counter'["attempts"] = counter["attempts"] + Attempts
      /\ \A y \in Series \ {"attempts"} : counter'[y] = counter[y]
  BY <1>1, <1>2, CounterAfter, SeriesFacts
<1>5. \A x \in {"calls", "retries", "retry_successes", "timeouts", "timeout_successes"} :
        counter'[x] = counter[x]
  BY <1>4, SeriesFacts
<1>6. CallType'
  BY <1>1, <1>2, <1>4 DEF CallType
<1>7. /\ pc'[c] = "counted" /\ tries'[c] = tries[c] /\ outcome'[c] = outcome[c]
      /\ outcome[c] # "none" /\ tries[c] \in Nat \ {0} /\ tries[c] <= Attempts
      /\ outcome[c] = "exhausted" /\ Regular => tries[c] = Attempts
      /\ \A d \in Callers \ {c} :
            pc'[d] = pc[d] /\ tries'[d] = tries[d] /\ outcome'[d] = outcome[d]
  BY <1>1, <1>2 DEF CallType, CallerInv
<1>8. CallerInv(c)'
  BY <1>1, <1>2, <1>3, <1>5, <1>7 DEF CallerInv
<1>9. \A d \in Callers : CallerInv(d)'
  <2>1. counter'["calls"] >= counter["calls"]
    BY <1>1, <1>5, CounterTypes
  <2> QED
    BY <1>2, <1>6, <1>7, <1>8, <2>1, OneCaller
<1>10. Cardinality(Tries') = Cardinality(Tries) - tries[c]
  <2>1. pc[c] \in Unheard
    BY <1>2 DEF Unheard
  <2> QED
    BY <1>1, <1>2, <2>1, TriesReported
<1>11. /\ Cardinality(With("ok")') = Cardinality(With("ok"))
       /\ Cardinality(Exhausteds') =
            Cardinality(Exhausteds) + (IF outcome[c] = "exhausted" THEN 1 ELSE 0)
       /\ Cardinality(Attempting') = Cardinality(Attempting)
       /\ Cardinality(Exhausteds) \in Nat
  BY <1>2, <1>7, SetsMove
<1>12. \E n \in Nat : Reported(n)'
  <2>1. PICK n \in Nat : Reported(n)
    BY DEF CountInv
  <2> DEFINE u == Cardinality(Tries)
             e == Cardinality(Exhausteds)
             A == Attempts
             p == e * (A - 1)
  <2>2. /\ u \in Nat /\ e \in Nat /\ A \in Nat \ {0} /\ A - 1 \in Int
        /\ counter["calls"] \in Nat /\ counter["attempts"] \in Nat /\ counter["retries"] \in Nat
    BY <1>1, <1>11, CounterTypes, TriesFinite
  <2>3. /\ counter["attempts"] = n * A
        /\ counter["calls"] <= counter["attempts"] + u
        /\ Regular => counter["calls"] >= n + counter["retries"] + u + p
    BY <2>1 DEF Reported
  <2>4. /\ (n + 1) * A = n * A + A /\ n * A \in Int
        /\ (e + 1) * (A - 1) = p + (A - 1) /\ p \in Int
    BY <2>2, OneMore
  <2> HIDE DEF u, e, A, p
  <2>5. counter["attempts"] + A = (n + 1) * A
    BY <2>3, <2>4
  <2>6. counter["calls"] <= (counter["attempts"] + A) + (u - tries[c])
    BY <1>7, <2>2, <2>3 DEF A
  <2>7. ASSUME Regular
        PROVE  counter["calls"] >= (n + 1) + counter["retries"] + (u - tries[c])
                 + (e + (IF outcome[c] = "exhausted" THEN 1 ELSE 0)) * (A - 1)
    <3>1. CASE outcome[c] = "exhausted"
      <4>1. (e + (IF outcome[c] = "exhausted" THEN 1 ELSE 0)) * (A - 1) = p + (A - 1)
        BY <2>2, <2>4, <3>1
      <4>2. tries[c] = A
        BY <1>7, <2>7, <3>1 DEF A
      <4>3. counter["calls"] >= n + counter["retries"] + u + p
        BY <2>3, <2>7
      <4>4. counter["calls"] >= (n + 1) + counter["retries"] + (u - A) + (p + (A - 1))
        BY <2>2, <2>4, <4>3
      <4> QED
        BY <4>1, <4>2, <4>4
    <3>2. CASE outcome[c] # "exhausted"
      <4>1. (e + (IF outcome[c] = "exhausted" THEN 1 ELSE 0)) * (A - 1) = p
        BY <2>2, <3>2 DEF p
      <4>2. tries[c] \in Nat /\ tries[c] >= 1
        BY <1>7
      <4>3. counter["calls"] >= n + counter["retries"] + u + p
        BY <2>3, <2>7
      <4>4. counter["calls"] >= (n + 1) + counter["retries"] + (u - tries[c]) + p
        BY <2>2, <2>4, <4>2, <4>3
      <4> QED
        BY <4>1, <4>4
    <3> QED
      BY <3>1, <3>2
  <2>8. Reported(n + 1)'
    BY <1>3, <1>4, <1>5, <1>10, <1>11, <2>5, <2>6, <2>7 DEF Reported, u, e, A
  <2> QED
    BY <2>8
<1> QED
  BY <1>5, <1>6, <1>9, <1>11, <1>12 DEF CountInv

LEMMA CountOutcomeStep == ASSUME CountInv, NEW c \in Callers, CountOutcome(c) PROVE CountInv'
<1>1. CallType /\ CallerInv(c) /\ Attempts \in Nat \ {0} /\ MaxCalls \in Nat
  BY AttemptsType, MetricsAssumption DEF CountInv
<1>2. /\ pc[c] = "counted" /\ pc' = [pc EXCEPT ![c] = "idle"]
      /\ tries' = [tries EXCEPT ![c] = 0] /\ outcome' = [outcome EXCEPT ![c] = "none"]
      /\ backoff' = backoff
  BY DEF CountOutcome, Goes
<1>3. Attempts' = Attempts /\ Regular' = Regular
  BY <1>2, Fixed
<1>4. outcome[c] \in {"ok", "error", "exhausted"}
  BY <1>1, <1>2 DEF CallerInv, CallType
<1>5. /\ counter' \in [Series -> Nat]
      /\ \A x \in {"attempts", "calls", "timeouts", "timeout_successes"} :
            counter'[x] = counter[x]
      /\ counter'["retry_successes"] =
            counter["retry_successes"] + (IF outcome[c] = "ok" THEN 1 ELSE 0)
      /\ counter'["retries"] =
            counter["retries"] + (IF outcome[c] = "exhausted" THEN Attempts - 1 ELSE 0)
  <2>1. CASE outcome[c] = "ok"
    <3>1. Add("retry_successes", 1)
      BY <2>1 DEF CountOutcome
    <3>2. /\ counter' \in [Series -> Nat]
          /\ counter'["retry_successes"] = counter["retry_successes"] + 1
          /\ \A y \in Series \ {"retry_successes"} : counter'[y] = counter[y]
      BY <1>1, <3>1, CounterAfter, SeriesFacts
    <3> QED
      BY <1>1, <2>1, <3>2, SeriesFacts, CounterTypes
  <2>2. CASE outcome[c] = "exhausted"
    <3>1. Add("retries", Attempts - 1) /\ Attempts - 1 \in Nat
      BY <1>1, <2>2 DEF CountOutcome
    <3>2. /\ counter' \in [Series -> Nat]
          /\ counter'["retries"] = counter["retries"] + (Attempts - 1)
          /\ \A y \in Series \ {"retries"} : counter'[y] = counter[y]
      BY <1>1, <3>1, CounterAfter, SeriesFacts
    <3> QED
      BY <1>1, <2>2, <3>2, SeriesFacts, CounterTypes
  <2>3. CASE outcome[c] = "error"
    <3>1. counter' = counter
      BY <2>3 DEF CountOutcome
    <3> QED
      BY <1>1, <2>3, <3>1, CounterTypes DEF CallType
  <2> QED
    BY <1>4, <2>1, <2>2, <2>3
<1>6. CallType'
  BY <1>1, <1>2, <1>5 DEF CallType
<1>7. /\ pc'[c] = "idle" /\ tries'[c] = 0 /\ outcome'[c] = "none"
      /\ \A d \in Callers \ {c} :
            pc'[d] = pc[d] /\ tries'[d] = tries[d] /\ outcome'[d] = outcome[d]
  BY <1>1, <1>2 DEF CallType
<1>8. counter["calls"] \in Nat /\ counter'["calls"] = counter["calls"]
  BY <1>1, <1>5, CounterTypes
<1>9. CallerInv(c)'
  BY <1>1, <1>3, <1>7, <1>8 DEF CallerInv
<1>10. \A d \in Callers : CallerInv(d)'
  <2>1. counter'["calls"] >= counter["calls"]
    BY <1>8
  <2> QED
    BY <1>2, <1>6, <1>7, <1>9, <2>1, OneCaller
<1>11. Tries' = Tries
  <2>1. \A d \in Callers : pc'[d] \in Unheard <=> pc[d] \in Unheard
    BY <1>2, <1>7 DEF Unheard
  <2>2. \A d \in Callers : pc[d] \in Unheard => tries'[d] = tries[d]
    BY <1>2, <1>7 DEF Unheard
  <2> QED
    BY <2>1, <2>2, TriesStay
<1>12. /\ Cardinality(With("ok")') =
            Cardinality(With("ok")) - (IF outcome[c] = "ok" THEN 1 ELSE 0)
       /\ Cardinality(Exhausteds') =
            Cardinality(Exhausteds) - (IF outcome[c] = "exhausted" THEN 1 ELSE 0)
       /\ Cardinality(Attempting') = Cardinality(Attempting)
       /\ Cardinality(Exhausteds) \in Nat /\ Cardinality(With("ok")) \in Nat
  BY <1>2, <1>7, SetsMove
<1>13. \E n \in Nat : Reported(n)'
  <2>1. PICK n \in Nat : Reported(n)
    BY DEF CountInv
  <2> DEFINE u == Cardinality(Tries)
             e == Cardinality(Exhausteds)
             A == Attempts
  <2>2. /\ u \in Nat /\ e \in Nat /\ A \in Nat \ {0} /\ A - 1 \in Int
        /\ counter["calls"] \in Nat /\ counter["retries"] \in Nat
    BY <1>1, <1>12, CounterTypes, TriesFinite
  <2>3. Regular => counter["calls"] >= n + counter["retries"] + u + e * (A - 1)
    BY <2>1 DEF Reported
  <2>4. (e - 1) * (A - 1) = e * (A - 1) - (A - 1) /\ e * (A - 1) \in Int
    BY <2>2, OneMore
  <2> HIDE DEF u, e, A
  <2>5. ASSUME Regular
        PROVE  counter["calls"] >=
                 n + (counter["retries"] + (IF outcome[c] = "exhausted" THEN A - 1 ELSE 0)) + u
                 + (e - (IF outcome[c] = "exhausted" THEN 1 ELSE 0)) * (A - 1)
    <3>1. CASE outcome[c] = "exhausted"
      BY <2>2, <2>3, <2>4, <2>5, <3>1
    <3>2. CASE outcome[c] # "exhausted"
      <4>1. (e - (IF outcome[c] = "exhausted" THEN 1 ELSE 0)) * (A - 1) = e * (A - 1)
        BY <2>2, <3>2
      <4> QED
        BY <2>2, <2>3, <2>4, <2>5, <3>2, <4>1
    <3> QED
      BY <3>1, <3>2
  <2>6. Reported(n)'
    BY <1>3, <1>5, <1>11, <1>12, <2>1, <2>5 DEF Reported, u, e, A
  <2> QED
    BY <2>6
<1>14. counter'["timeout_successes"] = counter'["retry_successes"] + Cardinality(With("ok")')
  BY <1>1, <1>5, <1>12, CounterTypes DEF CountInv
<1> QED
  BY <1>5, <1>6, <1>8, <1>10, <1>12, <1>13, <1>14 DEF CountInv

(* A step of nobody who calls, which leaves the counters of the calls.     *)
LEMMA OthersCount ==
    ASSUME CountInv, UNCHANGED <<backoff, call>>, counter' \in [Series -> Nat],
           \A x \in Series \ {"trips"} : counter'[x] = counter[x]
    PROVE  CountInv'
<1>1. Attempts' = Attempts /\ Regular' = Regular
  BY Fixed
<1>2. /\ With("ok")' = With("ok") /\ Exhausteds' = Exhausteds /\ Attempting' = Attempting
      /\ Tries' = Tries
  BY DEF call, With, Exhausteds, Attempting, Tries, Unreported
<1>3. /\ counter'["attempts"] = counter["attempts"]
      /\ counter'["retry_successes"] = counter["retry_successes"]
      /\ counter'["retries"] = counter["retries"] /\ counter'["calls"] = counter["calls"]
      /\ counter'["timeouts"] = counter["timeouts"]
      /\ counter'["timeout_successes"] = counter["timeout_successes"]
  BY SeriesFacts
<1>4. \A n \in Nat : Reported(n) => Reported(n)'
  BY <1>1, <1>2, <1>3 DEF Reported
<1>5. \A c \in Callers : CallerInv(c) => CallerInv(c)'
  BY <1>1, <1>3 DEF call, CallerInv
<1>6. CallType'
  BY DEF CountInv, CallType, call
<1> QED
  BY <1>2, <1>3, <1>4, <1>5, <1>6 DEF CountInv

LEMMA TripsAfter ==
    ASSUME CallType, TripCallback \/ ZeroTrips
    PROVE  /\ UNCHANGED <<backoff, call>> /\ counter' \in [Series -> Nat]
           /\ \A x \in Series \ {"trips"} : counter'[x] = counter[x]
<1>1. CASE TripCallback
  BY <1>1, SeriesFacts, CounterAfter DEF TripCallback
<1>2. CASE ZeroTrips
  BY <1>2 DEF ZeroTrips, CallType
<1> QED
  BY <1>1, <1>2

LEMMA CountNext == CountInv /\ [Next]_vars => CountInv'
<1> SUFFICES ASSUME CountInv, [Next]_vars PROVE CountInv'
  OBVIOUS
<1>1. ASSUME NEW c \in Callers, CallerStep(c) PROVE CountInv'
  <2>1. CASE Begin(c) \/ Retry(c)
    BY <2>1, AttemptStep DEF Begin, Retry
  <2>2. CASE NotRetried(c) \/ NoStrategy(c) \/ GiveUp(c) \/ Pause(c)
    BY <2>2, FailStep
  <2> QED
    BY <1>1, <2>1, <2>2, SucceedStep, CancelledStep, CountAttemptsStep, CountOutcomeStep
    DEF CallerStep
<1>2. ASSUME UNCHANGED <<backoff, counter, call>> PROVE CountInv'
  BY <1>2, OthersCount DEF CountInv, CallType
<1>3. CASE TripCallback \/ ZeroTrips
  BY <1>3, TripsAfter, OthersCount DEF CountInv
<1>4. ASSUME NEW c \in Collectors, Register(c) \/ Registered(c) PROVE CountInv'
  BY <1>2, <1>4 DEF Register, Registered
<1>5. ASSUME NEW s \in Scrapers, Gather(s) \/ Sample(s) PROVE CountInv'
  BY <1>2, <1>5 DEF Gather, Sample
<1>6. CASE UNCHANGED vars
  BY <1>2, <1>6 DEF vars, call
<1> QED
  BY <1>1, <1>3, <1>4, <1>5, <1>6 DEF Next

THEOREM CountInvariance == Spec => []CountInv
BY CountInit, CountNext, PTL DEF Spec

(* At every moment the calls that the timeout has seen lie between what    *)
(* the tracker's two counters say of them, and every success is counted    *)
(* twice or about to be.                                                   *)
THEOREM CountSafety == Spec => []CountersBracketTruth
<1>1. CountInv => CountersBracketTruth
  <2> SUFFICES ASSUME CountInv PROVE CountersBracketTruth
    OBVIOUS
  <2>1. PICK n \in Nat : Reported(n)
    BY DEF CountInv
  <2>2. CallType /\ Attempts \in Nat \ {0}
    BY AttemptsType DEF CountInv
  <2>3. counter["attempts"] \div Attempts = n
    BY <2>1, <2>2, Quotient DEF Reported
  <2>4. UnreportedTries = Cardinality(Tries)
    BY DEF UnreportedTries, Tries
  <2> QED
    BY <2>1, <2>3, <2>4 DEF Reported, CountInv, CountersBracketTruth, Exhausteds, Attempting
<1> QED
  BY CountInvariance, <1>1, PTL

-----------------------------------------------------------------------------
(* The inductive invariant of the scrapers.                                *)

(* What the collectors of a list show, and what a scrape has yet to show.  *)
Shown(list) ==
    {x \in Series : \E i \in 1 .. Len(list) :
        \E k \in 1 .. Len(Collect[list[i]]) : x = Collect[list[i]][k]}

Left(s) ==
    {x \in Series : \E i \in 1 .. Len(todo[s]) :
        \E k \in 1 .. Len(Collect[todo[s][i]]) :
            x = Collect[todo[s][i]][k] /\ (i = 1 => k >= at[s])}

ReadType ==
    /\ collectors \in Seq(Collectors) /\ pending \subseteq Collectors
    /\ todo \in [Scrapers -> Seq(Collectors)]
    /\ DOMAIN at = Scrapers /\ DOMAIN sampled = Scrapers /\ DOMAIN scrape = Scrapers
    /\ \A s \in Scrapers : at[s] \in 1 .. (IF todo[s] = <<>> THEN 1 ELSE Len(Collect[Head(todo[s])]))
    /\ \A s \in Scrapers : IsSamples(sampled[s]) /\ IsSamples(scrape[s])
    /\ scrapes \in Nat
    /\ resetSince \subseteq Scrapers /\ resetDuring \subseteq resetSince

(* What a Reset may have taken back since the scrapers of a set began.     *)
Excused(x, s, since) == x = "trips" /\ s \in since

(* A scrape goes through registered collectors, and what it has not taken  *)
(* of the last one it will.  The last one is older than what it has taken, *)
(* and that older than the counters, but for a Reset in between.           *)
ScrapeInv(s) ==
    /\ \A i \in 1 .. Len(todo[s]) : \E j \in 1 .. Len(collectors) : todo[s][i] = collectors[j]
    /\ DOMAIN sampled[s] \subseteq Shown(collectors)
    /\ DOMAIN scrape[s] \subseteq Shown(collectors)
    /\ s \in Gathering => DOMAIN scrape[s] \subseteq DOMAIN sampled[s] \cup Left(s)
    /\ \A x \in DOMAIN sampled[s] :
          sampled[s][x] <= counter[x] \/ Excused(x, s, resetDuring)
    /\ \A x \in DOMAIN scrape[s] :
          scrape[s][x] <= counter[x] \/ Excused(x, s, resetSince)
    /\ \A x \in DOMAIN scrape[s] \cap DOMAIN sampled[s] :
          scrape[s][x] <= sampled[s][x] \/ Excused(x, s, resetSince)

ReadInv == ReadType /\ \A s \in Scrapers : ScrapeInv(s)

(* No counter of the last scrape is gone, and none greater but for a Reset.*)
Grows(s) ==
    \A x \in DOMAIN scrape[s] :
        /\ x \in DOMAIN scrape'[s]
        /\ scrape'[s][x] >= scrape[s][x] \/ Excused(x, s, resetSince)

LEMMA GrowsUnlessCompleted ==
    ASSUME ReadInv, NEW s \in Scrapers, scrape'[s] = scrape[s]
    PROVE  Grows(s)
<1>1. \A x \in DOMAIN scrape[s] : scrape[s][x] \in Nat
  BY DEF ReadInv, ReadType, IsSamples
<1> QED
  BY <1>1 DEF Grows

(* A step that reads and registers nothing, while the counters grow, or a  *)
(* Reset takes back the trips.                                             *)
LEMMA OthersStep ==
    ASSUME ReadInv, CallType, UNCHANGED <<collectors, todo, at, sampled, scrape, scrapes>>,
           pending' \subseteq Collectors, counter' \in [Series -> Nat],
           resetSince \subseteq resetSince', resetDuring \subseteq resetDuring',
           resetSince' \subseteq Scrapers, resetDuring' \subseteq resetSince',
           \A x \in Series : \/ counter'[x] >= counter[x]
                             \/ x = "trips" /\ resetDuring' = Scrapers
    PROVE  ReadInv' /\ \A s \in Scrapers : Grows(s)
<1>1. ReadType'
  BY DEF ReadInv, ReadType, IsSamples
<1>2. ASSUME NEW s \in Scrapers PROVE ScrapeInv(s)'
  <2>1. ScrapeInv(s) /\ IsSamples(sampled[s]) /\ IsSamples(scrape[s])
    BY DEF ReadInv, ReadType
  <2>2. \A x \in Series : counter[x] \in Nat /\ counter'[x] \in Nat
    BY DEF CallType
  <2>3. \A x \in DOMAIN sampled[s] :
           sampled[s][x] <= counter'[x] \/ Excused(x, s, resetDuring')
    BY <2>1, <2>2 DEF ScrapeInv, IsSamples, Excused
  <2>4. \A x \in DOMAIN scrape[s] :
           scrape[s][x] <= counter'[x] \/ Excused(x, s, resetSince')
    BY <2>1, <2>2 DEF ScrapeInv, IsSamples, Excused
  <2>5. \A x \in DOMAIN scrape[s] \cap DOMAIN sampled[s] :
           scrape[s][x] <= sampled[s][x] \/ Excused(x, s, resetSince')
    BY <2>1 DEF ScrapeInv, Excused
  <2>6. Left(s)' = Left(s) /\ Gathering' = Gathering /\ Shown(collectors)' = Shown(collectors)
    BY DEF Left, Gathering, Shown
  <2>7. \A x : /\ Excused(x, s, resetDuring)' <=> Excused(x, s, resetDuring')
               /\ Excused(x, s, resetSince)' <=> Excused(x, s, resetSince')
    BY DEF Excused
  <2> QED
    BY <2>1, <2>3, <2>4, <2>5, <2>6, <2>7 DEF ScrapeInv
<1> QED
  BY <1>1, <1>2, GrowsUnlessCompleted DEF ReadInv

(* The same, when no Reset runs.                                           *)
LEMMA UpwardStep ==
    ASSUME ReadInv, CallType, UNCHANGED <<collectors, reading>>, pending' \subseteq Collectors,
           counter' \in [Series -> Nat], \A x \in Series : counter'[x] >= counter[x]
    PROVE  ReadInv' /\ \A s \in Scrapers : Grows(s)
BY OthersStep DEF reading, ReadInv, ReadType

LEMMA TripsRead ==
    ASSUME ReadInv, CallType, TripCallback \/ ZeroTrips
    PROVE  ReadInv' /\ \A s \in Scrapers : Grows(s)
<1>1. counter' \in [Series -> Nat] /\ \A x \in Series \ {"trips"} : counter'[x] = counter[x]
  BY TripsAfter
<1>2. CASE TripCallback
  <2>1. UNCHANGED <<collectors, pending, reading>>
    BY <1>2 DEF TripCallback, registry
  <2>2. \A x \in Series : counter'[x] >= counter[x]
    BY <1>2, SeriesFacts, CounterAfter DEF TripCallback, CallType
  <2> QED
    BY <1>1, <2>1, <2>2, UpwardStep DEF ReadInv, ReadType
<1>3. CASE ZeroTrips
  <2>1. /\ UNCHANGED <<collectors, pending, todo, at, sampled, scrape, scrapes>>
        /\ resetSince' = Scrapers /\ resetDuring' = Scrapers
    BY <1>3 DEF ZeroTrips
  <2>2. \A x \in Series \ {"trips"} : counter'[x] >= counter[x]
    BY <1>1 DEF CallType
  <2> QED
    BY <1>1, <2>1, <2>2, OthersStep DEF ReadInv, ReadType
<1> QED
  BY <1>2, <1>3

LEMMA CallerReads ==
    ASSUME ReadInv, CountInv, NEW c \in Callers, CallerStep(c)
    PROVE  ReadInv' /\ \A s \in Scrapers : Grows(s)
<1>1. CallType /\ Attempts \in Nat \ {0}
  BY AttemptsType DEF CountInv
<1>2. UNCHANGED <<collectors, pending, reading>>
  BY DEF CallerStep, Begin, Retry, Attempt, Succeed, NotRetried, NoStrategy, GiveUp, Pause, Fails,
         Cancelled, CountAttempts, CountOutcome, registry
<1>3. \/ counter' = counter
      \/ \E x \in Series : \E n \in Nat : Add(x, n)
  <2>1. CASE Begin(c) \/ Retry(c)
    BY <2>1, SeriesFacts DEF Begin, Retry, Attempt
  <2>2. CASE Succeed(c)
    BY <2>2, SeriesFacts DEF Succeed
  <2>3. CASE NotRetried(c) \/ NoStrategy(c) \/ GiveUp(c) \/ Pause(c)
    <3>1. Fails(c)
      BY <2>3 DEF NotRetried, NoStrategy, GiveUp, Pause
    <3> QED
      BY <3>1, SeriesFacts DEF Fails
  <2>4. CASE Cancelled(c)
    BY <2>4 DEF Cancelled
  <2>5. CASE CountAttempts(c)
    BY <1>1, <2>5, SeriesFacts DEF CountAttempts
  <2>6. CASE CountOutcome(c)
    <3>1. outcome[c] \in {"ok", "error", "exhausted"}
      BY <1>1, <2>6 DEF CountInv, CallerInv, CallType, CountOutcome, Goes
    <3>2. Add("retry_successes", 1) \/ Add("retries", Attempts - 1) \/ counter' = counter
      BY <2>6, <3>1 DEF CountOutcome
    <3>3. Attempts - 1 \in Nat
      BY <1>1
    <3> QED
      BY <3>2, <3>3, SeriesFacts
  <2> QED
    BY <2>1, <2>2, <2>3, <2>4, <2>5, <2>6 DEF CallerStep
<1>4. counter' \in [Series -> Nat] /\ \A x \in Series : counter'[x] >= counter[x]
  <2>1. CASE counter' = counter
    BY <1>1, <2>1 DEF CallType
  <2>2. ASSUME NEW x \in Series, NEW n \in Nat, Add(x, n)
        PROVE  counter' \in [Series -> Nat] /\ \A y \in Series : counter'[y] >= counter[y]
    BY <1>1, <2>2, CounterAfter DEF CallType
  <2> QED
    BY <1>3, <2>1, <2>2
<1>5. pending' \subseteq Collectors
  BY <1>2 DEF ReadInv, ReadType
<1> QED
  BY <1>1, <1>2, <1>4, <1>5, UpwardStep

LEMMA RegisterReads ==
    ASSUME ReadInv, CallType, NEW c \in Collectors, Register(c)
    PROVE  ReadInv' /\ \A s \in Scrapers : Grows(s)
<1>1. UNCHANGED <<collectors, reading>> /\ counter' = counter /\ pending' \subseteq Collectors
  BY DEF Register, ReadInv, ReadType
<1>2. counter' \in [Series -> Nat] /\ \A x \in Series : counter'[x] >= counter[x]
  BY <1>1 DEF CallType
<1> QED
  BY <1>1, <1>2, UpwardStep

(* A new collector shows more, and nobody is gathering.                    *)
LEMMA RegisteredReads ==
    ASSUME ReadInv, CallType, NEW c \in Collectors, Registered(c)
    PROVE  ReadInv' /\ \A s \in Scrapers : Grows(s)
<1>1. /\ collectors' = Append(collectors, c) /\ todo' = todo /\ at' = at /\ sampled' = sampled
      /\ scrape' = scrape /\ scrapes' = scrapes /\ counter' = counter
      /\ resetSince' = resetSince /\ resetDuring' = resetDuring
      /\ pending' \subseteq Collectors /\ Gathering = {}
  BY DEF Registered, reading, ReadInv, ReadType
<1>2. collectors \in Seq(Collectors)
  BY DEF ReadInv, ReadType
<1>3. /\ collectors' \in Seq(Collectors) /\ Len(collectors') = Len(collectors) + 1
      /\ Len(collectors) \in Nat
      /\ \A i \in 1 .. Len(collectors) : i \in 1 .. Len(collectors') /\ collectors'[i] = collectors[i]
  BY <1>1, <1>2
<1>4. ReadType'
  BY <1>1, <1>3 DEF ReadInv, ReadType, IsSamples
<1>5. Shown(collectors) \subseteq Shown(collectors')
  BY <1>3 DEF Shown
<1>6. ASSUME NEW s \in Scrapers PROVE ScrapeInv(s)'
  <2>1. ScrapeInv(s)
    BY DEF ReadInv
  <2>2. s \notin Gathering'
    BY <1>1 DEF Gathering
  <2>3. \A i \in 1 .. Len(todo'[s]) : \E j \in 1 .. Len(collectors') : todo'[s][i] = collectors'[j]
    <3>1. todo[s] = <<>>
      BY <1>1 DEF Gathering
    <3> QED
      BY <1>1, <3>1
  <2>4. Shown(collectors)' = Shown(collectors')
    BY DEF Shown
  <2> QED
    BY <1>1, <1>5, <2>1, <2>2, <2>3, <2>4 DEF ScrapeInv, Excused
<1> QED
  BY <1>1, <1>4, <1>6, GrowsUnlessCompleted DEF ReadInv

(* What a step of one scraper leaves to be shown.                          *)
LEMMA OneScraper ==
    ASSUME ReadInv, NEW s \in Scrapers, counter' = counter, collectors' = collectors, ReadType',
           \A z \in Scrapers \ {s} : /\ todo'[z] = todo[z] /\ at'[z] = at[z]
                                     /\ sampled'[z] = sampled[z] /\ scrape'[z] = scrape[z]
                                     /\ z \in resetSince' <=> z \in resetSince
                                     /\ z \in resetDuring' <=> z \in resetDuring,
           ScrapeInv(s)', Grows(s)
    PROVE  ReadInv' /\ \A z \in Scrapers : Grows(z)
<1>1. ASSUME NEW z \in Scrapers, z # s PROVE ScrapeInv(z)' /\ Grows(z)
  <2>1. /\ todo'[z] = todo[z] /\ at'[z] = at[z]
        /\ sampled'[z] = sampled[z] /\ scrape'[z] = scrape[z]
        /\ z \in resetSince' <=> z \in resetSince
        /\ z \in resetDuring' <=> z \in resetDuring
    BY <1>1
  <2>2. Left(z)' = Left(z) /\ (z \in Gathering' <=> z \in Gathering)
    BY <2>1 DEF Left, Gathering
  <2>3. ScrapeInv(z)
    BY DEF ReadInv
  <2>4. \A x : /\ Excused(x, z, resetDuring)' <=> Excused(x, z, resetDuring)
               /\ Excused(x, z, resetSince)' <=> Excused(x, z, resetSince)
    BY <2>1 DEF Excused
  <2> QED
    BY <2>1, <2>2, <2>3, <2>4, GrowsUnlessCompleted DEF ScrapeInv
<1> QED
  BY <1>1 DEF ReadInv

(* A scrape that begins has all that is registered before it.              *)
LEMMA GatherReads ==
    ASSUME ReadInv, CallType, NEW s \in Scrapers, Gather(s)
    PROVE  ReadInv' /\ \A z \in Scrapers : Grows(z)
<1>1. /\ todo' = [todo EXCEPT ![s] = collectors] /\ at' = [at EXCEPT ![s] = 1]
      /\ sampled' = [sampled EXCEPT ![s] = Nothing] /\ scrape' = scrape
      /\ scrapes' = scrapes + 1 /\ collectors' = collectors /\ counter' = counter
      /\ pending' = pending /\ collectors # <<>>
      /\ resetSince' = resetSince /\ resetDuring' = resetDuring \ {s}
  BY DEF Gather
<1>2. ReadType /\ ScrapeInv(s)
  BY DEF ReadInv
<1>3. /\ todo'[s] = collectors /\ at'[s] = 1 /\ sampled'[s] = Nothing /\ scrape'[s] = scrape[s]
      /\ \A z \in Scrapers \ {s} : /\ todo'[z] = todo[z] /\ at'[z] = at[z]
                                   /\ sampled'[z] = sampled[z] /\ scrape'[z] = scrape[z]
  BY <1>1, <1>2 DEF ReadType
<1>4. DOMAIN Nothing = {} /\ IsSamples(Nothing)
  BY DEF Nothing, IsSamples
<1>5. Head(collectors) \in Collectors /\ Len(Collect[Head(collectors)]) \in Nat \ {0}
  BY <1>1, <1>2, SeriesFacts DEF ReadType
<1>6. ReadType'
  <2>1. /\ todo' \in [Scrapers -> Seq(Collectors)] /\ DOMAIN at' = Scrapers
        /\ DOMAIN sampled' = Scrapers
    BY <1>1, <1>2 DEF ReadType
  <2>2. \A z \in Scrapers :
           at'[z] \in 1 .. (IF todo'[z] = <<>> THEN 1 ELSE Len(Collect[Head(todo'[z])]))
    <3>1. at'[s] \in 1 .. (IF todo'[s] = <<>> THEN 1 ELSE Len(Collect[Head(todo'[s])]))
      <4>1. 1 \in 1 .. Len(Collect[Head(collectors)])
        BY <1>5
      <4> QED
        BY <1>1, <1>3, <1>5, <4>1
    <3>2. ASSUME NEW z \in Scrapers \ {s}
          PROVE  at'[z] \in 1 .. (IF todo'[z] = <<>> THEN 1 ELSE Len(Collect[Head(todo'[z])]))
      <4>1. at[z] \in 1 .. (IF todo[z] = <<>> THEN 1 ELSE Len(Collect[Head(todo[z])]))
        BY <1>2 DEF ReadType
      <4> QED
        BY <1>3, <4>1
    <3> QED
      BY <3>1, <3>2
  <2>3. \A z \in Scrapers : IsSamples(sampled'[z]) /\ IsSamples(scrape'[z])
    BY <1>1, <1>2, <1>3, <1>4 DEF ReadType
  <2>4. scrapes' \in Nat
    BY <1>1, <1>2 DEF ReadType
  <2> QED
    BY <1>1, <1>2, <2>1, <2>2, <2>3, <2>4 DEF ReadType, IsSamples
<1>7. Shown(collectors) \subseteq Left(s)'
  <2> SUFFICES ASSUME NEW x \in Shown(collectors) PROVE x \in Left(s)'
    OBVIOUS
  <2>1. PICK i \in 1 .. Len(collectors) : \E k \in 1 .. Len(Collect[collectors[i]]) :
           x = Collect[collectors[i]][k]
    BY DEF Shown
  <2>2. collectors[i] \in Collectors
    BY <1>2, <2>1 DEF ReadType
  <2>3. PICK k \in 1 .. Len(Collect[collectors[i]]) : x = Collect[collectors[i]][k]
    BY <2>1
  <2>4. k \in Int /\ k >= 1
    BY <2>2, <2>3, SeriesFacts
  <2> QED
    BY <1>3, <2>1, <2>3, <2>4 DEF Left, Shown
<1>8. ScrapeInv(s)'
  <2>1. Shown(collectors)' = Shown(collectors)
    BY <1>1 DEF Shown
  <2> QED
    BY <1>1, <1>2, <1>3, <1>4, <1>7, <2>1 DEF ScrapeInv, Excused
<1>9. Grows(s)
  BY <1>3, GrowsUnlessCompleted
<1> QED
  BY <1>1, <1>3, <1>6, <1>8, <1>9, OneScraper

(* One load: the sample is of now, and there is one less to come.  The last*)
(* one makes the scrape, in which nothing of the one before is missing.    *)
LEMMA SampleReads ==
    ASSUME ReadInv, CallType, NEW s \in Scrapers, Sample(s)
    PROVE  ReadInv' /\ \A z \in Scrapers : Grows(z)
<1> DEFINE samples == Collect[Head(todo[s])]
           taken == samples[at[s]]
           collected == at[s] = Len(samples)
           rest == IF collected THEN Tail(todo[s]) ELSE todo[s]
           shown == [x \in DOMAIN sampled[s] \cup {taken} |->
                        IF x = taken THEN counter[x] ELSE sampled[s][x]]
<1>1. ReadType /\ ScrapeInv(s)
  BY DEF ReadInv
<1>2. /\ s \in Gathering /\ todo[s] # <<>> /\ todo[s] \in Seq(Collectors)
      /\ counter' = counter /\ collectors' = collectors /\ pending' = pending
      /\ scrapes' = scrapes /\ resetDuring' = resetDuring
      /\ resetDuring \subseteq resetSince /\ resetSince \subseteq Scrapers
  BY <1>1 DEF Sample, Gathering, ReadType
<1>3. /\ todo'[s] = rest /\ at'[s] = (IF collected THEN 1 ELSE at[s] + 1)
      /\ sampled'[s] = (IF rest = <<>> THEN Nothing ELSE shown)
      /\ scrape'[s] = (IF rest = <<>> THEN shown ELSE scrape[s])
      /\ DOMAIN todo' = Scrapers /\ DOMAIN at' = Scrapers
      /\ DOMAIN sampled' = Scrapers /\ DOMAIN scrape' = Scrapers
      /\ \A z \in Scrapers \ {s} : /\ todo'[z] = todo[z] /\ at'[z] = at[z]
                                   /\ sampled'[z] = sampled[z] /\ scrape'[z] = scrape[z]
      /\ todo' = [todo EXCEPT ![s] = rest]
      /\ resetSince' = IF rest = <<>> /\ s \notin resetDuring
                       THEN resetSince \ {s} ELSE resetSince
  BY <1>1 DEF Sample, ReadType
<1>4. /\ Head(todo[s]) = todo[s][1] /\ todo[s][1] \in Collectors
      /\ Len(todo[s]) \in Nat \ {0}
      /\ Tail(todo[s]) \in Seq(Collectors) /\ Len(Tail(todo[s])) = Len(todo[s]) - 1
      /\ \A i \in 1 .. Len(todo[s]) - 1 : Tail(todo[s])[i] = todo[s][i + 1]
  BY <1>2
<1>5. samples \in Seq(Series) /\ Len(samples) \in Nat \ {0} /\ at[s] \in 1 .. Len(samples)
  <2>1. samples \in Seq(Series) /\ Len(samples) \in Nat \ {0}
    BY <1>4, SeriesFacts
  <2>2. at[s] \in 1 .. (IF todo[s] = <<>> THEN 1 ELSE Len(samples))
    BY <1>1 DEF ReadType
  <2> QED
    BY <1>2, <2>1, <2>2
<1>6. taken \in Series /\ taken \in Left(s)
  <2>1. taken \in Series
    BY <1>5
  <2>2. 1 \in 1 .. Len(todo[s]) /\ at[s] >= at[s]
    BY <1>4, <1>5
  <2>3. samples = Collect[todo[s][1]]
    BY <1>4
  <2>4. at[s] \in 1 .. Len(Collect[todo[s][1]])
    BY <1>5, <2>3
  <2> QED
    BY <2>1, <2>2, <2>3, <2>4 DEF Left
<1>7. /\ rest \in Seq(Collectors)
      /\ \A i \in 1 .. Len(rest) : \E j \in 1 .. Len(todo[s]) : rest[i] = todo[s][j]
  <2>1. CASE collected
    <3>1. \A i \in 1 .. Len(rest) : i + 1 \in 1 .. Len(todo[s]) /\ rest[i] = todo[s][i + 1]
      BY <1>4, <2>1
    <3> QED
      BY <1>4, <2>1, <3>1
  <2>2. CASE ~collected
    BY <1>2, <2>2
  <2> QED
    BY <2>1, <2>2
<1>8. Left(s)' = {x \in Series : \E i \in 1 .. Len(rest) : \E k \in 1 .. Len(Collect[rest[i]]) :
                      x = Collect[rest[i]][k] /\ (i = 1 => k >= at'[s])}
  BY <1>3 DEF Left
<1>9. Left(s) \subseteq Left(s)' \cup {taken}
  <2> SUFFICES ASSUME NEW x \in Left(s), x # taken PROVE x \in Left(s)'
    OBVIOUS
  <2>1. PICK i \in 1 .. Len(todo[s]) : \E k \in 1 .. Len(Collect[todo[s][i]]) :
           x = Collect[todo[s][i]][k] /\ (i = 1 => k >= at[s])
    BY DEF Left
  <2>2. PICK k \in 1 .. Len(Collect[todo[s][i]]) :
           x = Collect[todo[s][i]][k] /\ (i = 1 => k >= at[s])
    BY <2>1
  <2>3. todo[s][i] \in Collectors /\ Len(Collect[todo[s][i]]) \in Nat /\ k \in Int /\ k >= 1
        /\ k <= Len(Collect[todo[s][i]])
    BY <1>2, <2>1, <2>2, SeriesFacts
  <2>4. x \in Series
    BY DEF Left
  <2>5. CASE collected
    <3>1. i # 1
      BY <1>4, <1>5, <2>2, <2>3, <2>5
    <3>2. i - 1 \in 1 .. Len(rest) /\ rest[i - 1] = todo[s][i]
      BY <1>4, <2>1, <2>5, <3>1
    <3>3. k >= at'[s]
      BY <1>3, <2>3, <2>5
    <3> QED
      BY <1>8, <2>2, <2>4, <3>2, <3>3
  <2>6. CASE ~collected
    <3>1. rest = todo[s] /\ at'[s] = at[s] + 1
      BY <1>3, <2>6
    <3>2. i = 1 => k >= at'[s]
      <4>1. i = 1 => k # at[s]
        BY <1>4, <2>2
      <4> QED
        BY <1>5, <2>2, <2>3, <3>1, <4>1
    <3> HIDE DEF rest
    <3> QED
      BY <1>8, <2>1, <2>2, <2>4, <3>1, <3>2
  <2> QED
    BY <2>5, <2>6
<1>10. IsSamples(shown) /\ IsSamples(Nothing) /\ DOMAIN Nothing = {}
       /\ DOMAIN shown = DOMAIN sampled[s] \cup {taken}
  <2>1. IsSamples(sampled[s]) /\ counter[taken] \in Nat
    BY <1>1, <1>6 DEF ReadType, CallType
  <2> QED
    BY <1>6, <2>1 DEF IsSamples, Nothing
<1>11. \A x \in DOMAIN shown : shown[x] <= counter[x] \/ Excused(x, s, resetDuring)
  <2>1. \A x \in DOMAIN sampled[s] :
           sampled[s][x] <= counter[x] \/ Excused(x, s, resetDuring)
    BY <1>1 DEF ScrapeInv
  <2>2. counter[taken] <= counter[taken]
    BY <1>6 DEF CallType
  <2> QED
    BY <2>1, <2>2
<1>12. \A x \in DOMAIN scrape[s] \cap DOMAIN shown :
           scrape[s][x] <= shown[x] \/ Excused(x, s, resetSince)
  <2>1. \A x \in DOMAIN scrape[s] : scrape[s][x] <= counter[x] \/ Excused(x, s, resetSince)
    BY <1>1 DEF ScrapeInv
  <2>2. \A x \in DOMAIN scrape[s] \cap DOMAIN sampled[s] :
           scrape[s][x] <= sampled[s][x] \/ Excused(x, s, resetSince)
    BY <1>1 DEF ScrapeInv
  <2> QED
    BY <2>1, <2>2
<1>13. DOMAIN shown \subseteq Shown(collectors)
  <2>1. taken \in Shown(collectors)
    <3>1. PICK j \in 1 .. Len(collectors) : todo[s][1] = collectors[j]
      BY <1>1, <1>4 DEF ScrapeInv
    <3>2. at[s] \in 1 .. Len(Collect[collectors[j]]) /\ taken = Collect[collectors[j]][at[s]]
      BY <1>4, <1>5, <3>1
    <3> QED
      BY <1>6, <3>2 DEF Shown
  <2> QED
    BY <1>1, <1>10, <2>1 DEF ScrapeInv
<1>14. DOMAIN scrape[s] \subseteq DOMAIN shown \cup Left(s)'
  BY <1>1, <1>2, <1>9, <1>10 DEF ScrapeInv
<1> HIDE DEF shown, taken
<1>15. at'[s] \in 1 .. (IF todo'[s] = <<>> THEN 1 ELSE Len(Collect[Head(todo'[s])]))
  <2>1. CASE collected
    <3>1. todo'[s] # <<>> => Len(Collect[Head(todo'[s])]) \in Nat \ {0}
      <4>1. todo'[s] # <<>> => Head(todo'[s]) \in Collectors
        BY <1>3, <1>7
      <4> QED
        BY <4>1, SeriesFacts
    <3>2. at'[s] = 1
      BY <1>3, <2>1
    <3>3. 1 \in 1 .. 1 /\ \A n \in Nat \ {0} : 1 \in 1 .. n
      OBVIOUS
    <3> QED
      BY <3>1, <3>2, <3>3
  <2>2. CASE ~collected
    <3>1. todo'[s] = todo[s] /\ at'[s] = at[s] + 1
      BY <1>3, <2>2
    <3>2. at[s] # Len(samples)
      BY <1>5, <2>2
    <3>3. at[s] + 1 \in 1 .. Len(samples)
      BY <1>5, <3>2
    <3> QED
      BY <1>2, <3>1, <3>3
  <2> QED
    BY <2>1, <2>2
<1> HIDE DEF rest, collected, samples
<1>16. ReadType'
  <2>1. todo' \in [Scrapers -> Seq(Collectors)]
    BY <1>1, <1>3, <1>7 DEF ReadType
  <2>2. ASSUME NEW z \in Scrapers \ {s}
        PROVE  /\ at'[z] \in 1 .. (IF todo'[z] = <<>> THEN 1 ELSE Len(Collect[Head(todo'[z])]))
               /\ IsSamples(sampled'[z]) /\ IsSamples(scrape'[z])
    <3>1. /\ at[z] \in 1 .. (IF todo[z] = <<>> THEN 1 ELSE Len(Collect[Head(todo[z])]))
          /\ IsSamples(sampled[z]) /\ IsSamples(scrape[z])
      BY <1>1 DEF ReadType
    <3> QED
      BY <1>3, <3>1
  <2>3. IsSamples(sampled'[s]) /\ IsSamples(scrape'[s])
    BY <1>1, <1>3, <1>10 DEF ReadType
  <2> QED
    BY <1>1, <1>2, <1>3, <1>15, <2>1, <2>2, <2>3 DEF ReadType, IsSamples
<1>17. ScrapeInv(s)'
  <2>1. \A i \in 1 .. Len(todo'[s]) : \E j \in 1 .. Len(collectors') : todo'[s][i] = collectors'[j]
    <3>1. \A j \in 1 .. Len(todo[s]) : \E k \in 1 .. Len(collectors) : todo[s][j] = collectors[k]
      BY <1>1 DEF ScrapeInv
    <3> QED
      BY <1>2, <1>3, <1>7, <3>1
  <2>2. Shown(collectors)' = Shown(collectors)
    BY <1>2 DEF Shown
  <2>3. /\ DOMAIN scrape[s] \subseteq Shown(collectors)
        /\ \A x \in DOMAIN scrape[s] : scrape[s][x] <= counter[x] \/ Excused(x, s, resetSince)
    BY <1>1 DEF ScrapeInv
  <2>4. CASE rest = <<>>
    <3>1. sampled'[s] = Nothing /\ scrape'[s] = shown /\ s \notin Gathering'
      BY <1>3, <2>4 DEF Gathering
    <3>2. s \in resetDuring => s \in resetSince'
      BY <1>2, <1>3
    <3>3. \A x \in DOMAIN shown : shown[x] <= counter'[x] \/ Excused(x, s, resetSince)'
      BY <1>2, <1>11, <3>2 DEF Excused
    <3> QED
      BY <1>2, <1>10, <1>13, <2>1, <2>2, <3>1, <3>3 DEF ScrapeInv
  <2>5. CASE rest # <<>>
    <3>1. sampled'[s] = shown /\ scrape'[s] = scrape[s] /\ resetSince' = resetSince
      BY <1>3, <2>5
    <3>2. \A x : /\ Excused(x, s, resetDuring)' <=> Excused(x, s, resetDuring)
                 /\ Excused(x, s, resetSince)' <=> Excused(x, s, resetSince)
      BY <1>2, <3>1 DEF Excused
    <3> QED
      BY <1>2, <1>11, <1>12, <1>13, <1>14, <2>1, <2>2, <2>3, <3>1, <3>2 DEF ScrapeInv
  <2> QED
    BY <2>4, <2>5
<1>18. Grows(s)
  <2>1. CASE rest = <<>>
    <3>1. scrape'[s] = shown
      BY <1>3, <2>1
    <3>2. Left(s)' = {}
      <4>1. Len(rest) = 0
        BY <2>1
      <4> QED
        BY <1>8, <4>1
    <3>3. DOMAIN scrape[s] \subseteq DOMAIN shown
      BY <1>14, <3>2
    <3>4. \A x \in DOMAIN scrape[s] : scrape[s][x] \in Nat /\ shown[x] \in Nat
      BY <1>1, <1>10, <3>3 DEF ReadType, IsSamples
    <3> QED
      BY <1>12, <3>1, <3>3, <3>4 DEF Grows
  <2>2. CASE rest # <<>>
    BY <1>3, <2>2, GrowsUnlessCompleted
  <2> QED
    BY <2>1, <2>2
<1>19. \A z \in Scrapers \ {s} : /\ z \in resetSince' <=> z \in resetSince
                                 /\ z \in resetDuring' <=> z \in resetDuring
  BY <1>2, <1>3
<1> QED
  BY <1>2, <1>3, <1>16, <1>17, <1>18, <1>19, OneScraper

LEMMA ReadInit == Init => ReadInv
<1> SUFFICES ASSUME Init PROVE ReadInv
  OBVIOUS
<1>1. /\ collectors = <<>> /\ pending = {} /\ scrapes = 0 /\ Gathering = {}
      /\ resetSince = {} /\ resetDuring = {}
      /\ \A s \in Scrapers : /\ todo[s] = <<>> /\ at[s] = 1
                             /\ sampled[s] = Nothing /\ scrape[s] = Nothing
  BY DEF Init, Gathering
<1>2. DOMAIN Nothing = {} /\ IsSamples(Nothing)
  BY DEF Nothing, IsSamples
<1>3. ReadType
  BY <1>1, <1>2 DEF Init, ReadType
<1>4. ASSUME NEW s \in Scrapers PROVE ScrapeInv(s)
  BY <1>1, <1>2 DEF ScrapeInv
<1> QED
  BY <1>3, <1>4 DEF ReadInv

LEMMA ReadNext ==
    ASSUME CountInv, ReadInv, [Next]_vars
    PROVE  ReadInv' /\ \A s \in Scrapers : Grows(s)
<1>1. CallType
  BY DEF CountInv
<1>2. CASE UNCHANGED vars
  <2>1. UNCHANGED <<collectors, reading>> /\ pending' = pending /\ counter' = counter
    BY <1>2 DEF vars, reading
  <2>2. counter' \in [Series -> Nat] /\ \A x \in Series : counter'[x] >= counter[x]
    BY <1>1, <2>1 DEF CallType
  <2>3. pending' \subseteq Collectors
    BY <2>1 DEF ReadInv, ReadType
  <2> QED
    BY <1>1, <2>1, <2>2, <2>3, UpwardStep
<1> QED
  BY <1>1, <1>2, CallerReads, TripsRead, RegisterReads, RegisteredReads, GatherReads, SampleReads DEF Next

THEOREM ReadInvariance == Spec => [](CountInv /\ ReadInv)
<1>1. CountInv /\ ReadInv /\ [Next]_vars => ReadInv'
  BY ReadNext
<1> QED
  BY CountInvariance, ReadInit, <1>1, PTL DEF Spec

THEOREM TypeCorrectness == Spec => []TypeOK
<1>1. CountInv /\ ReadInv => TypeOK
  BY DEF CountInv, ReadInv, CallType, ReadType, TypeOK
<1> QED
  BY ReadInvariance, <1>1, PTL

(* From one scrape to the next no series of any collector is lost, and     *)
(* none goes back but the trip count, after a Reset, although calls end,   *)
(* trips are counted and collectors are registered between the loads.      *)
THEOREM ScrapeSafety == Spec => OnlyResetTakesBack
<1>1. CountInv /\ ReadInv /\ [Next]_vars =>
        [\A s \in Scrapers : \A x \in DOMAIN scrape[s] :
            /\ x \in DOMAIN scrape'[s]
            /\ \/ scrape'[s][x] >= scrape[s][x]
               \/ x = "trips" /\ s \in resetSince]_vars
  BY ReadNext DEF Grows, Excused
<1> QED
  BY ReadInvariance, <1>1, PTL DEF Spec, OnlyResetTakesBack
=============================================================================
