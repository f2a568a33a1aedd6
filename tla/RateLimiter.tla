----------------------------- MODULE RateLimiter -----------------------------
(***************************************************************************)
(* internal/ratelimit/ratelimit.go: one TokenBucket or one SlidingWindow,  *)
(* goroutines that block in WaitN (Waiters), and others that call AllowN   *)
(* and ReserveN at any moment.                                             *)
(*                                                                         *)
(* What a method does under its mutex is one step, in which the clock      *)
(* stands still.  Time is counted in ticks and kept as differences from    *)
(* the present: the age of lastTime and of every entry of requests.        *)
(* A bucket gains rate units in a tick and an event costs cost units, so   *)
(* that its rate is rate / cost events per tick and tokens, a float in the *)
(* code, has fractions; float rounding is left out.                        *)
(*                                                                         *)
(* ReserveN says OK in any case.  With room it takes its events at once,   *)
(* as AllowN does; without, it tells a delay - that of WaitTime - and      *)
(* takes nothing then or later, so that any number of callers may be told  *)
(* to act at the same time.  What they do then the limiter never hears of. *)
(***************************************************************************)
EXTENDS Integers, Sequences, FiniteSets

CONSTANTS
    Waiters,    \* goroutines that call WaitN
    Limiters,   \* the limiters there may be
    Sizes,      \* how many events a bucket is asked for at once
    Horizon     \* bound: how many ticks back grants are remembered

(* burst is a window's limit; cost and rate belong to a bucket, window to  *)
(* a sliding window.  A limit or rate of zero is outside this model.       *)
ASSUME LimitersAssumption ==
    Limiters \subseteq [kind : {"bucket", "window"}, burst : Nat \ {0},
                        rate : Nat \ {0}, cost : Nat \ {0}, window : Nat \ {0}]

ASSUME BoundsAssumption == Sizes \subseteq Nat \ {0} /\ 1 \in Sizes /\ Horizon \in Nat

VARIABLES
    limiter,    \* never changes
    tokens,     \* a bucket's tokens, in units
    elapsed,    \* time since its lastTime, saturating
    requests,   \* a window's requests: their ages, saturating
    pc,         \* where each waiter is in WaitN
    need,       \* its argument n
    timer,      \* what is left of its waitTime
    granted     \* history: events let through in the last t ticks and this
                \* one, by whoever got a true, a nil or a delay of zero

vars == <<limiter, tokens, elapsed, requests, pc, need, timer, granted>>

Bucket == limiter.kind = "bucket"
Full   == IF Bucket THEN limiter.burst * limiter.cost ELSE 0

Capped(n, limit) == IF n > limit THEN limit ELSE n

(* Events a limiter may be asked for at once: a window only ever for one.  *)
Demands == IF Bucket THEN Sizes ELSE {1}

(* The type invariant; with it: a bucket never holds more than burst and   *)
(* never less than nothing, a window never more than limit entries.        *)
TypeOK ==
    /\ limiter \in Limiters
    /\ tokens \in 0 .. Full
    /\ elapsed \in 0 .. Full
    /\ requests \in Seq(0 .. limiter.window + 1) /\ Len(requests) <= limiter.burst
    /\ pc \in [Waiters -> {"idle", "trying", "sleeping"}]
    /\ need \in [Waiters -> Sizes]
    /\ timer \in [Waiters -> Nat]
    /\ granted \in [0 .. Horizon -> Nat]

-----------------------------------------------------------------------------
(* NewTokenBucket and NewSlidingWindow.                                    *)
Init ==
    /\ limiter \in Limiters
    /\ tokens = Full /\ elapsed = 0
    /\ requests = <<>>
    /\ pc = [w \in Waiters |-> "idle"]
    /\ need = [w \in Waiters |-> 1]
    /\ timer = [w \in Waiters |-> 0]
    /\ granted = [t \in 0 .. Horizon |-> 0]

(* Mutation: the bucket forgets the fraction of a token.                   *)
RefreshTokensWhole ==
    LET all == Capped(tokens + elapsed * limiter.rate, Full)
    IN  all - (all % limiter.cost)

RefreshTokens == Capped(tokens + elapsed * limiter.rate, Full)

(* cleanup drops the entries in front that are older than the window.      *)
Stale == {i \in DOMAIN requests : \A j \in 1 .. i : requests[j] > limiter.window}

Cleanup == SubSeq(requests, Cardinality(Stale) + 1, Len(requests))

(* Mutation: a window has room for one entry too many.                     *)
HasRoomOffByOne(n) ==
    IF Bucket THEN RefreshTokens >= n * limiter.cost
              ELSE Len(Cleanup) <= limiter.burst

HasRoom(n) ==
    IF Bucket THEN RefreshTokens >= n * limiter.cost
              ELSE Len(Cleanup) < limiter.burst

(* Mutation: the tokens that are there already are not deducted.           *)
WaitTimeOfAll(n) ==
    IF Bucket THEN (n * limiter.cost) \div limiter.rate
              ELSE limiter.window - Head(Cleanup)

(* How long until there is room, as told by WaitN and ReserveN: the        *)
(* conversion to a Duration drops the fraction.                            *)
WaitTime(n) ==
    IF Bucket THEN (n * limiter.cost - RefreshTokens) \div limiter.rate
              ELSE limiter.window - Head(Cleanup)

(* Mutation: a refusal adds tokens and does not move lastTime.             *)
TakeKeepingTime(n) ==
    /\ IF Bucket
       THEN /\ tokens' = RefreshTokens - n * limiter.cost
            /\ elapsed' = IF n = 0 THEN elapsed ELSE 0
            /\ UNCHANGED requests
       ELSE /\ requests' = Cleanup \o [i \in 1 .. n |-> 0]
            /\ UNCHANGED <<tokens, elapsed>>
    /\ granted' = [t \in 0 .. Horizon |-> granted[t] + n]
    /\ UNCHANGED limiter

(* What one critical section leaves behind when it takes n events.         *)
Take(n) ==
    /\ IF Bucket
       THEN /\ tokens' = RefreshTokens - n * limiter.cost /\ elapsed' = 0
            /\ UNCHANGED requests
       ELSE /\ requests' = Cleanup \o [i \in 1 .. n |-> 0]
            /\ UNCHANGED <<tokens, elapsed>>
    /\ granted' = [t \in 0 .. Horizon |-> granted[t] + n]
    /\ UNCHANGED limiter

-----------------------------------------------------------------------------
(* AllowN, or ReserveN without a delay.                                    *)
Allow(n) ==
    /\ HasRoom(n) /\ Take(n)
    /\ UNCHANGED <<pc, need, timer>>

(* AllowN says no.                                                         *)
Deny(n) ==
    /\ ~HasRoom(n) /\ Take(0)
    /\ UNCHANGED <<pc, need, timer>>

(* ReserveN says OK, with a delay: nothing is set aside for the holder.    *)
Defer(n) ==
    /\ ~HasRoom(n) /\ Take(0)
    /\ UNCHANGED <<pc, need, timer>>

Wait(w, n) ==
    /\ pc[w] = "idle"
    /\ pc' = [pc EXCEPT ![w] = "trying"]
    /\ need' = [need EXCEPT ![w] = n]
    /\ UNCHANGED <<limiter, tokens, elapsed, requests, timer, granted>>

Return(w) == pc' = [pc EXCEPT ![w] = "idle"] /\ need' = [need EXCEPT ![w] = 1]

Granted(w) ==
    /\ pc[w] = "trying"
    /\ HasRoom(need[w]) /\ Take(need[w])
    /\ Return(w)
    /\ UNCHANGED timer

Sleep(w) ==
    /\ pc[w] = "trying"
    /\ ~HasRoom(need[w]) /\ Take(0)
    /\ pc' = [pc EXCEPT ![w] = "sleeping"]
    /\ timer' = [timer EXCEPT ![w] = WaitTime(need[w])]
    /\ UNCHANGED need

(* The two arms of the select.                                             *)
Wake(w) ==
    /\ pc[w] = "sleeping" /\ timer[w] = 0
    /\ pc' = [pc EXCEPT ![w] = "trying"]
    /\ UNCHANGED <<limiter, tokens, elapsed, requests, need, timer, granted>>

Cancelled(w) ==
    /\ pc[w] = "sleeping"
    /\ Return(w)
    /\ timer' = [timer EXCEPT ![w] = 0]
    /\ UNCHANGED <<limiter, tokens, elapsed, requests, granted>>

(* Time passes.                                                            *)
Tick ==
    /\ elapsed' = Capped(elapsed + 1, Full)
    /\ requests' = [i \in DOMAIN requests |-> Capped(requests[i] + 1, limiter.window + 1)]
    /\ timer' = [w \in Waiters |-> IF timer[w] = 0 THEN 0 ELSE timer[w] - 1]
    /\ granted' = [t \in 0 .. Horizon |-> IF t = 0 THEN 0 ELSE granted[t - 1]]
    /\ UNCHANGED <<limiter, tokens, pc, need>>

WaiterStep(w) == Granted(w) \/ Sleep(w) \/ Wake(w)

Next ==
    \/ \E n \in Demands : Allow(n) \/ Deny(n) \/ Defer(n) \/ \E w \in Waiters : Wait(w, n)
    \/ \E w \in Waiters : WaiterStep(w) \/ Cancelled(w)
    \/ Tick

Spec == Init /\ [][Next]_vars

(* Time passes, and a waiter that is not asleep runs.  Which of several    *)
(* goroutines gets a token is left open.                                   *)
FairSpec ==
    Spec /\ WF_vars(Tick) /\ \A w \in Waiters : WF_vars(WaiterStep(w))

-----------------------------------------------------------------------------
(* Properties.                                                             *)

(* Whoever asks and in whatever order, the events let through at once - by *)
(* AllowN, by WaitN after however many sleeps, by a ReserveN without a     *)
(* delay - stay inside the configured envelope in any interval: burst plus *)
(* what the rate adds, or limit in any stretch of one window (refreshTokens*)
(* 143-152, cleanup 243-250, and every grant under one lock).  Reservations*)
(* with a delay do not count and are not bounded: if their holders act at  *)
(* TimeToAct, there is no envelope (125-132, 225-232).                     *)
RateRespected ==
    \A t \in 0 .. Horizon :
        IF Bucket THEN granted[t] * limiter.cost <= Full + t * limiter.rate
                  ELSE t <= limiter.window => granted[t] <= limiter.burst

(* What is left until a limiter that nobody else uses has room.            *)
Shortfall(n) ==
    IF Bucket
    THEN IF HasRoom(n) THEN 0
         ELSE (n * limiter.cost - RefreshTokens + limiter.rate - 1) \div limiter.rate
    ELSE IF HasRoom(n) THEN 0 ELSE limiter.window + 1 - Head(Cleanup)

(* No waiter oversleeps: at every moment, whatever others have taken since *)
(* it computed its waitTime, its timer fires no later than the limiter has *)
(* room for it (WaitN 94-103, Wait 197-207).                               *)
WakesInTime ==
    \A w \in Waiters : pc[w] = "sleeping" => timer[w] <= Shortfall(need[w])

(* While somebody waits events keep being granted: polling in between,     *)
(* which moves lastTime on, never makes a bucket lose what it has earned.  *)
GrantsKeepComing ==
    (\E w \in Waiters : pc[w] # "idle") ~>
        (granted[0] > 0 \/ \A w \in Waiters : pc[w] = "idle")
=============================================================================
