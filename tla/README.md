# A verification project for goshield

TLA+ models of [goshield](../src), a Go library of resilience patterns, the TLC
runs that check them on small instances, and theorems about them that TLAPS
proves for every value of the constants. `PROJECT.json` is the index: it maps
every definition that models code to the lines it models, and lists the runs,
the mutations each property is known to detect, the findings, the hazards and
the theorems.

    tlc -workers 2 -config CountWindow.cfg MCCircuitBreaker    # a run
    tlapm BreakerProofs.tla                                    # the proofs

## 1. The system

| Component | Source | State | Operations |
|---|---|---|---|
| Circuit breaker | `internal/breaker/breaker.go` | state, window counters, ring buffer, half-open quota, `openSince` (under `mutex`); `totalRejected` (under nothing) | `Execute` = `beforeCall`, fn, `afterCall`; `State`, `GetMetrics` (both may end the open period); `Reset`; `ForceOpen` |
| Adaptive breaker | `internal/breaker/adaptive.go` | averages, window sums, consecutive failures, trip count, an inner breaker | `Execute`, `UpdateEMAs`, `Reset`, `ForceOpen`, `GetAdaptiveParams` |
| Bulkhead | `internal/bulkhead/bulkhead.go` | a buffered channel as semaphore; counters under a mutex | `Execute` = `acquire`, fn, `release`; `GetMetrics` |
| Timeout | `internal/timeout/timeout.go` | three atomic counters; a goroutine and a channel per call | `Execute` |
| Backoff | `internal/backoff/backoff.go` | strategies are pure; the tracker has atomic counters | `Next`, `Execute`, `RetryTracker.Execute` |
| Fallback | `internal/fallback/fallback.go` | none | `Execute` |
| Rate limiters | `internal/ratelimit/ratelimit.go` | tokens and `lastTime`; a slice of request times | `Allow(N)`, `Wait(N)`, `Reserve(N)` |
| Executor | `pkg/resilience/executor.go` | the configured layers | `Execute` |
| Config and watcher | `internal/config` | a configuration; last stamp, `running`, `stopCh`, `done` | `Load*`, `Validate`; `Start`, `Stop`, `check` |
| Middleware | `pkg/middleware/middleware.go` | per request: the recorder of each layer, a context, Retry's index, a second goroutine | `Chain`, `CircuitBreaker`, `RateLimit`, `Timeout`, `TimeoutWithResponse`, `Bulkhead`, `ConcurrencyLimit`, `Retry` |
| Metrics | `internal/metrics` | registry of collectors; the counters live in the patterns | `Register`, `Gather`, the text handler |
| Public packages, decorators, command, examples | `pkg/*`, `cmd`, `examples` | none | forwarding |

**How they interact.** Calls only: a layer calls the function it wraps, and the
executor and the middleware nest layers. Metrics and config read or build the
others. Everything is shared between the goroutines of the program that uses
the library, and four components start goroutines or channels of their own:
timeout (a worker per call), watcher (the polling loop), bulkhead (the
semaphore), and every `On...` callback.

**What is hard.** Interleavings of callers with results that arrive in another
state than they were admitted in; writes under a read lock; a check and the use
of it on two sides of an unlock; two pieces of state that are updated one after
the other (token and count, stamp and content); selects of which several arms
are ready; workers that outlive their caller; panics that skip a bookkeeping
step; counters that wrap; windows and buckets at their limits. `hazards` in
`PROJECT.json` has them line by line, with the property that covers each or the
reason why none does.

**What makes each component correct.**

* *Breaker*: it trips on the results of the current period only; at most
  `MaxRequests` probes in a half-open period; open means closed to everybody;
  and it is not open for ever.
* *Bulkhead*: at most `MaxConcurrent` inside, exactly one token per call inside,
  counters that agree with it, calls that end.
* *Rate limiters*: no interval exceeds the envelope; waiting ends on time.
* *Watcher*: the last valid edit is applied; Stop means stopped; no panic.
* *Executor*: the caller is answered in time, the worker ends, the shared layers
  hear of every call once.
* *Adaptive breaker*: the limit on failures in a row is exceeded only by calls
  that were past the check, takes effect, and is final until a `Reset`; the
  reported threshold stays inside its bounds.
* *Middleware*: slots come back whatever unwinds; breaker and client are told the
  same; nobody is answered 200 for work that was not done.
* *Metrics*: what counters that are updated one by one say brackets what has
  happened; from scrape to scrape a counter goes back only by a `Reset`.
* *Configuration*: a program runs with valid values only, and a copy is a copy.

## 2. Modules

| Module | Models | Used by |
|---|---|---|
| `BreakerProtocol` | abstract: what a circuit breaker promises | `CircuitBreaker`, `BreakerProofs` |
| `CircuitBreaker` | one breaker, callers, readers | `MCCircuitBreaker`, `AdaptiveBreaker`, `BreakerProofs` |
| `BoundedPool` | abstract: what a bulkhead promises | `Bulkhead`, `BulkheadProofs` |
| `Bulkhead` | one bulkhead, its callers | `MCBulkhead`, `BulkheadProofs` |
| `Watcher` | one watcher, its users, its loops, the file | `MCWatcher`, `WatcherProofs` |
| `RateLimiter` | one bucket or window, waiters, pollers, a clock | `MCRateLimiter`, `RateLimiterProofs` |
| `Executor` | the nesting of all layers: callers and workers | `MCExecutor`, `ExecutorProofs` |
| `AdaptiveBreaker` | an adaptive breaker around `CircuitBreaker` | `MCAdaptiveBreaker`, `BreakerProofs` |
| `Middleware` | HTTP requests through a chain and back | `MCMiddleware`, `MiddlewareProofs` |
| `Backoff` | the pauses of the four strategies, as functions | `Metrics` |
| `Metrics` | tracked retries of timed calls, and scrapes of their counters | `MCMetrics`, `MetricsProofs` |
| `Config` | files, environment, validation, copies, hot reload | `MCConfig`, `ConfigProofs` |

`MC...` modules hold the model values of the runs. A definition that is
introduced as a mutation is not part of any specification: it is the form a
plausible bug would give the definition below it, and `PROJECT.json` names the
property that detects it.

### CircuitBreaker and BreakerProtocol

`cb` is a record of the fields that `mutex` protects. What a method does under
`Lock()` is one action on it: `AdmitNormal`, `AdmitProbe` and `Refuse` are the
three ways through `beforeCall`, `AfterCall` is `afterCall`, and each contains
the lazy transition of `getStateUnsafe` that the method begins with. `State` and
`GetMetrics` hold only `RLock()` and still write: a reader is spread over
`ReadState`, `WriteState`, `WriteRest` and `RUnlock`, which other readers may
interleave and writers may not (`LockFree`). `totalRejected++` is a load and a
store. Time is a counter of ticks since the breaker opened.

Rates are compared by multiplication (`Reaches`), which is what the floating-point
division computes up to rounding. The totals that are only reported are left
out, and so is `OnStateChange`, which runs on a goroutine of its own.
`probes` is a history variable: the calls of the present half-open period that
have not returned.

`BreakerProtocol` is the machine a user of a breaker has in mind: shut until the
period is over, then a trial of at most `quota` slots that nobody gets back,
which the first failure or `quota` successes end; calls are refused only when it
is shut or the trial is full. It has no locks, no window, no lazy transition and
no readers. Under the mapping (`Protocol`) `beforeCall` on an expired breaker is
a `Probe` that begins the trial itself, the first of several racing readers is
`BeginTrial`, and the other readers are stutters: while a reader has set the
state and not yet `halfOpenCount`, which it will set to 0, the trial's slots
count as 0 (`LateReaders` in the proof is why nobody can tell).
`KeepsProtocol` is the refinement.

### Bulkhead and BoundedPool

One action per step of `Execute` that touches the channel or the counters:
`Send` (line 83/98), `CountActive`, `CountCall`, `Receive` (111),
`CountCompleted`, `CountRejected`. `BoundedPool` knows only who is inside and
who is being turned away; the refinement mapping puts a caller inside from its
send to its receive.

### Watcher

Users run `Start` and `Stop`, each split where the code unlocks; loops run
`watch` and `check`, split at the stat, the comparison and the load. Channels are
open or closed; closing one twice is `panicked`, after which nothing moves.

### RateLimiter

A tick passes between critical sections. `Take(n)` is what a critical section
leaves behind when it takes n events, `Take(0)` when it takes none: `AllowN` says
no (`Deny`), `WaitN` goes to sleep (`Sleep`), `ReserveN` tells a delay (`Defer`).
The last one answers OK all the same and charges nobody, then or later, so it may
tell any number of callers to act at the same moment: what they do then the
limiter does not control, and no property says that it does. `WaitTime`
truncates as the conversion to a `Duration` does, so waiters do wake early and
sleep again. `granted[t]` is a history variable: how many events were let through
at once in the last t ticks, by an `AllowN` that said yes, a `WaitN` that returned
or a `ReserveN` without a delay, up to `Horizon`.

### Executor

The caller goes through bulkhead and timeout, the worker through limiter, retry,
breaker, fallback and fn: the order the code really nests them in, which is the
reverse of the one the guide gives. fn and the fallback may panic (`Panic`). No
layer recovers: the worker skips the breaker's `afterCall` (`breaker.go:165-169`)
and the retry loop; if it is the caller itself, the bulkhead's deferred release
runs and `Execute` is left without an answer (`Unwind`); on a goroutine that
`timeout.Execute` has started, the program ends (`Crashed`), after which nothing
moves. The call that panicked is never recorded: `AdmittedAreSettled` counts these
calls, and `panicked_probe` shows what they cost a half-open breaker.

Shared layers appear by what their own modules establish: the bulkhead as a pool of slots, the limiter as a token that
comes sooner or later, the breaker as what can be seen of `BreakerProtocol`
through its calls alone: it may trip when it hears of a result - of a success
too, which may be slow, or the call that completes `MinimumNumberOfCalls` -, and
while it is not closed it refuses calls or, on trial, admits some. The executor
makes its bulkhead and its breaker itself, so nobody else calls them.

### AdaptiveBreaker

It extends `CircuitBreaker` and keeps its variables: a caller's step through
`cb.Execute` is a step of that module, which `Implements` proves. Around it are
the sections under `ab.mutex`: `Check` reads the counter, `OpenAtLimit` or
`Enter` acts on it later, `Leave` (or `Abandon`, by a panic) returns from the
inner breaker, `Track` counts the result; `UpdateEMAs` with `adaptThreshold`,
the three sections of `Reset`, and `ForceOpen` come in between.
A trip starts a goroutine that adds to `tripCount` whenever it gets to run
(`callbacks` counts those that have not), which may be after a `Reset`. Thresholds
are exact fractions. The adapted threshold is kept and reported and that is all:
the inner breaker goes on with the one it was configured with, in the code and in
the model.

### Middleware

A request is a goroutine at a depth of the chain: going down, writing, coming
back up, or unwinding a panic; `TimeoutWithResponse` gives it a second one.
`WriteHeader` of a `responseRecorder` tests, sets and forwards without a lock,
so these are the steps `Look`, `Mark` and `Forward`. A panic runs what is
deferred and nothing else: `Release` has a panicking form and `Judged` has not.
The breaker, the limiter and the bulkhead are what their own modules establish:
a breaker that refuses only after a result that may have tripped it, a limiter
that lets a request pass sooner or later, a pool. `IsSuccessful` of the breaker is
left at its default.

### Backoff and Metrics

`Backoff` gives the set of pauses a strategy may return, with `int64` products
that wrap and a NaN that converts to whatever the platform makes of it. In
`Metrics`, callers run `RetryTracker.Execute` around `Timeout.Execute` with such
a strategy, one atomic add per step, while scrapers run `Registry.Gather`, one
atomic load per step (`todo` holds the collectors a scraper has yet to go through,
`at` the next sample of the first of them), and collectors are registered in
between. The trip count of an adaptive breaker is one more counter, and the one
that goes back: `TripCallback` and `ZeroTrips` happen at any moment, and the
history variables `resetSince` and `resetDuring` say which scrapes a `Reset` came
after.

### Config

A configuration maps sections to records of fields, or to `Nil`. Values are read
from texts, which JSON and `strconv` accept or reject by the field's type. JSON
has no text for a NaN or an infinity, and none for a string that is not UTF-8: it
writes and reads U+FFFD in the place of the bytes that are wrong (`Replaced`,
`Repaired`), while a variable may hold any bytes. The program starts from a file or
a preset through the environment and `Validate`, and is reloaded from the edited file the way `watcher.check` does it, without
the environment.

## 3. Runs

| Run | Instance | Shows |
|---|---|---|
| `count_window` | 3 callers that may panic, 2 readers, 2 probes, ring of 3, counters of 2 bits, symmetry | `TypeOK`, `HalfOpenQuotaRespected`, `HalfOpenCleanSlate`, `ReaderRaceHarmless`, `RingMatchesCounters`, `KeepsProtocol` |
| `time_window` | 3 callers, 1 reader, defaults of `New`, slow calls, fair | `NoSlotLeaked`, `BlockingIsTemporary` |
| `bulkhead` | 4 callers, 1-3 slots, waiting or not, counters modulo 3, fair | `TypeOK`, `TokensAreOwned`, `CountersAddUp`, `OvershootIsReleases`, `IsBoundedPool`, `CallsEnd` |
| `watcher` | 2 users, 1 start, 3 edits of two contents, invalid and absent files, fair | `TypeOK`, `NeverPanics`, `RunningMeansWatching`, `StopWaitsForLoops`, `StopEnds`, `LastEditApplied` |
| `rate_limiter` | 2 waiters and pollers, 2 buckets and 2 windows, requests of 1 and 2, horizon 5, fair | `TypeOK`, `RateRespected`, `WakesInTime`, `GrantsKeepComing` |
| `executor` | 2 requests, 4 stacks, 1 slot, 1 retry, fn that hangs or panics, failing fallback, fair | `TypeOK`, `ErrorOnlyIfDone`, `AdmittedAreSettled`, `CallersAnswered`, `WorkersEnd` |
| `adaptive` | 2 callers that may panic, a limit of 2 failures in a row, a base threshold of 0, `Reset` and `ForceOpen`, 1 late callback, fair | `AdaptiveTypeOK`, `OvershootIsInFlight`, `LimitIsFinal`, `LimitTakesEffect` |
| `middleware` | 2 requests, 4 chains, 1 slot, 1 retry, panics, clients that leave, symmetry | `TypeOK`, `HandlersAreBounded`, `VerdictMatchesClient`, `SuccessIsEarned` |
| `metrics` | 2 callers, 3 attempts, 2 scrapes, 2 collectors, trips and `Reset`s, strategies that are nil, overflow or give NaN, symmetry | `CountersBracketTruth`, `OnlyResetTakesBack` |
| `config` | 108 files, 122 environments, 3 presets, 1 edit | `CopyIsFaithful` |

and two runs that end in a counterexample, because the code does not do what a
comment or the guide says (details under `findings`):

| Run | Statement | What happens |
|---|---|---|
| `panicked_probe` | "temporarily blocking requests" (`pkg/breaker/breaker.go:3-5`) | fn panics in the half-open state, `afterCall` is skipped, the slot is gone, every call is refused for ever |
| `watcher_restart` | "Start begins watching the config file." (`internal/config/watcher.go:76`) | after Stop the channels stay closed: the new loop ends and closes `done` again |

**Where code and words differ otherwise.** These disagreements came up while the
code was read, and the models follow the code:

* Once a count window is full the ring overwrites its oldest slot while the
  counters go on counting it, so the rates are not those of "the sliding window"
  (`internal/metrics/collectors.go:48`). `RingMatchesCounters` says what holds
  until then.
* "Fallback is outermost" and "Bulkhead is innermost" (`docs/guide.md:27`, `30`):
  `executor.go` wraps the fallback first (119) and the bulkhead last (162), so the
  fallback sees the failures of fn alone and timed-out work runs on outside of
  its slot.
* "Environment overrides (takes precedence)" (`docs/guide.md:349`): only at start;
  a hot reload drops them. "All config values can be overridden"
  (`README.md:272`): not names, the strategy or the limiter's type.
* "OK is true if the reservation was successful" and "TimeToAct is when the event
  can happen" (`ratelimit.go:32`, `36`): without room `ReserveN` and `Reserve`
  answer OK with a delay and set nothing aside (125-132, 225-232). Any number of
  such reservations are successful for the same moment. `RateRespected` therefore
  speaks of what is let through at once, and leaves them out.
* "Total retry attempts (including first try)." (`collectors.go:247`): what is
  added is the attempts there would be if every call used up its retries. "Total
  retry events" (263): only the calls that were exhausted add any, also those as
  if they had made all of theirs (`backoff.go:177-182`).
* "Counter is a monotonically increasing value." (`collector.go:29`): the Counter
  `breaker_adaptive_trip_count` (`collectors.go:442-445`) is set to 0 by `Reset`
  (`adaptive.go:338`); `OnlyResetTakesBack` says that nothing else takes it, or any
  other series of the model, back. `breaker_rejected_total` (381-386) is fed by a
  `totalRejected++` without a lock (`breaker.go:161`), so that it misses rejections
  and a late store can take it back; it is read under the breaker's lock, is not
  among the series of `Metrics`, and its load and store are in `CircuitBreaker`.
* "Total number of times the adaptive breaker has tripped." (`collectors.go:446`):
  the openings that the failure limit forces are no trips (`adaptive.go:147`).
* "triggers immediate open" and "Trip immediately" (`adaptive.go:29-30`,
  `docs/guide.md:102`): the failure that reaches the limit opens nothing. The next
  call to look at the counter does (176-180), and by `ForceOpen`, so that no timeout
  ends it: until a `Reset` the breaker refuses everything. `LimitTakesEffect` and
  `LimitIsFinal` say what holds instead.
* "The adaptive breaker automatically adjusts thresholds" (`docs/guide.md:88`):
  `currentThreshold` is computed and reported, and never given to the inner breaker.
* "Reset resets the adaptive breaker to its initial state." (`adaptive.go:324`): a
  call that read the old failure count may still force the breaker open after it,
  and a trip from before it whose callback is late is counted after it.
* "DeepCopy returns a deep copy of the config." (`config.go:352`): not of a string
  that is not UTF-8, nor of a float that JSON cannot spell; `CopyIsFaithful` has
  both exceptions.
* `Retry` (`middleware.go:152`) hands each attempt the real `ResponseWriter`, so
  the client keeps the status of the first attempt, and a later success is lost
  on it. The breaker sees that same first status (`VerdictMatchesClient`).
* `Validate` accepts a NaN for every float and a negative `max_interval_ms`.

**Bounds.** Two probes and three callers let results of two periods meet; a ring
of three wraps round within a period; counters of two bits wrap round too
(`Word32` is the modulus, so the wrap is that of `uint32`). Two readers are the
fewest that race. Four callers exceed every capacity of one to three slots.
`MaxStarts` (1 in the passing run, 2 in the one about restarting), `MaxEdits`
and `Horizon` bound what would otherwise grow; three edits are enough for one
between a stat and a load, and one after. Horizon 5 is longer than each window
and than the time any of the buckets takes to fill up. One retry gives every
request a second turn of the loop. Two callers of an adaptive breaker overshoot a
limit of two; two callbacks at once would only repeat what one does
(`MaxCallbacks`). The four chains of `middleware` are the one the package
comment gives, retries between a breaker and a bulkhead, a detached handler above
a bulkhead and one below it. Three attempts (`MaxCalls`) let one caller use up
its retries while another is half counted, and two scrapes (`MaxScrapes`) can
each miss what the other sees. The strategy that overflows is a `fibonacci` one of
initial interval 4 and two retries, in words of which 7 is the largest: its second
pause, 4 * 2, is -8. Two collectors are registered, one of three samples and the
one whose counter goes back; with the third the run takes longer than is of use,
and the theorem is about any. A file of `config` sets one of eleven fields, of
every type, to one of eight values or to null, or switches a section off; a
variable may also say NaN, infinity or a string that is not UTF-8.

`CHECK_DEADLOCK FALSE` appears where the system may come to rest: a watcher that
has been stopped, requests that are made once.

**Fairness.** Goroutines that can run do run (weak fairness per step). Beyond it:

* *Breaker*: callers wait for the lock while readers come and go, and Go's
  `RWMutex` lets no new reader in front of a waiting writer: strong fairness
  for the steps that lock. Calls keep arriving, fn returns. Nobody has to call
  `Reset`, `ForceOpen`, `State` or `GetMetrics`.
* *Bulkhead*: the timer of a waiting call fires and fn returns.
* *Watcher*: the ticker ticks, and a select whose two arms are ready is decided
  at random, so the stop arm is not passed over for ever: strong fairness.
* *Rate limiter*: time passes. Who gets a token is not fair, and
  `GrantsKeepComing` does not say so.
* *Adaptive breaker*: calls keep arriving, callbacks run, and a goroutine that
  waits for a lock gets it; nobody has to call `Reset`, `ForceOpen` or
  `UpdateEMAs`.
* *Executor*: a deadline passes if there is a timeout layer; fn returns or panics
  unless it hangs (which `Hang` decides).

## 4. Theorems

TLAPS checks all of them; the constants are any that satisfy the ASSUMEs of the
module (configurations of the right types, a finite set of callers).

* `BreakerProofs`, on `CircuitBreaker`. The inductive invariant `IInv` joins `TypeOK` to
  `BreakerInv` (a half-open breaker has only successes, fewer than the quota,
  and a quota that is set), `ProbesAreInFlight`, `ReaderRaceHarmless`,
  `HalfOpenQuotaRespected` and `NoSlotLeaked`. None is inductive alone: that
  the late writes of a reader wipe out no probe needs that there are none, which
  needs that nobody can take the lock in between. From it: `TypeCorrectness`,
  `QuotaSafety`, `SlotSafety`, `CleanSlateSafety`, `ReaderRaceSafety` and the
  action property `ShutSafety` (a breaker that is shut admits nobody and is moved
  by `Reset` and `ForceOpen` only); and `BlockedSafety`, that a half-open breaker
  refuses calls only because of a probe in flight. Lemmas say what each helper on the breaker's
  record returns (`RefreshFacts`, `GetStateFacts`, `RecordFacts`,
  `SettleFacts`, ...), and there is one lemma for every action. `RingSafety`, for windows that a
  32-bit counter can count through (`WindowSize <= Word32`, needed because the
  counters wrap and the ring does not), comes from an invariant of the slots not
  yet written: they hold no failure and no slow call, so that recording adds one
  to a set and to its counter (`OneMoreSlot`). `Refinement` is `KeepsProtocol`,
  step by step: `MappedSets` says what a caller's move does to the sets of running
  and refused calls, and there is a lemma for each kind of step. It needs `IInv`
  and one more invariant, `LateReaders`: a reader that is still to write finds no
  slot handed out.
* `BreakerProofs`, on `AdaptiveBreaker`, for any limits, thresholds and callers.
  `Implements` maps every step to one of `CircuitBreaker` or a stutter, so that the
  theorems about it hold of the inner breaker (`AdaptiveQuotaSafety` and
  `AdaptiveRefinement` are two). The invariant counts: failures in a row and calls
  past the check stay under the limit together with what was in flight
  (`OvershootSafety`). From the same invariant the action property `LimitSafety`:
  once the limit is reached and the calls past the check are back, no step but
  the first section of `Reset` ends that. That the interpolated threshold lies
  between its bounds
  (`AdaptiveTypeCorrectness`) is a lemma on `TargetThreshold` and its clamp, for any
  averages.
* `BulkheadProofs`. `IInv` is `TypeOK`, `TokensAreOwned`, `ActiveIsAccurate`,
  `BetweenCounters` (the two totals differ by the calls between their updates and
  a multiple of `Word64`: naming the multiple keeps `%` out of the steps) and
  `WaitingIsAllowed` (only a bulkhead with a wait has waiting callers, which the
  refinement needs to map `GiveUp` to a refusal by a patient pool). The lemma
  `MoveCounts` says what one caller's move does to the number of callers at a
  set of places. From it: `TypeCorrectness`, `TokenSafety`, `CounterSafety`,
  `OvershootSafety`, `ConcurrencyBounded` and `Refinement`, that the bulkhead
  implements `BoundedPool`.
* `WatcherProofs`, for a watcher that is started once (`MaxStarts = 1`, the
  condition that `watcher_restart` shows to be needed) by any number of
  goroutines. `IInv` says that there is one loop, one goroutine that spawns it
  and one that stops it, and how `running`, `stopCh`, `done` and the loop follow
  each other. From it: `TypeCorrectness`, `PanicSafety`, `WatchSafety`, the
  action property `StopSafety`, and `HearingSafety`, that a waiting `Stop` always
  has a loop to wait for. `EditSafety`, that no edit is passed over, holds for any
  number of starts and has an invariant of its own: no stamp is of the future.
* `ExecutorProofs`, for any finite set of requests, any stack of layers and any
  number of retries. `IInv` is `TypeOK`, `RequestInv` of every request and
  `AdmittedAreSettled`. `RequestInv` ties the place of a worker to what it has
  tried and found, and to its caller: an unanswered caller has no answer, and
  nothing is in the channel before the worker returns; without it a first
  timeout could hide behind an answer from nowhere. The lemma `MoveCounts` says
  what one worker's move does to the number of calls in flight. From it:
  `TypeCorrectness`, `VerdictSafety` and `RecordSafety`, that every admitted call is
  in flight, recorded, or lost to a panic of fn - one for each request that ended
  so, however often it was tried before. One more is about the bulkhead around
  everything: `WorkBounded`, that without a timeout layer it bounds the requests at
  work on fn, panics included, which is the condition under which the guide's
  "limits actual concurrent work" is true; it rests on `Attended`, that a caller
  without a timeout waits for its worker to the end.
* `RateLimiterProofs`. `RateSafety` is about the events let through at once, not
  about reservations with a delay, of which there may be any number. It needs to
  relate every interval to what is left.
  For a bucket, `MeterInv` says for each t that the events granted in the last t
  ticks, times their cost, and what the bucket would hold now are together at
  most a full bucket and t ticks of its rate. For a window, `RecentInv` says that
  the last `granted[t]` entries are all at most t old, so that a window's limit
  bounds them. `WakesInTime` is part of the inductive invariant: a timer is set
  for a shortfall that only others' grants can enlarge (`WakeSafety`).
* `MiddlewareProofs`, for any set of chains (with the exclusions of
  `ChainsAssumption`), requests, slots and retries. `Placed` says where the two
  goroutines of a request can be relative to the layer that detaches, and
  `SlotsAreHeld` that a token is held exactly between acquire and release; one
  lemma for each way to move (`DownStep`, `RiseStep`, `StayStep`, `EndStep`) keeps
  both. From them, `TypeCorrectness` and `BoundSafety`. `AnswerSafety` and
  `VerdictSafety` are about chains in which one goroutine deals with a request:
  `Sent` says that the recorders are empty until the client is sent a status, so
  what `Look` saw is still true at `Forward`; `Judging` that below an outermost
  breaker its recorder holds what the client was sent.
* `ConfigProofs`, for any files and environments made of texts
  (`TextsAssumption`, which also says that `Nil` is no text and no record, and
  `NumbersAssumption`, that no other value is written like `NaN` or `Infinity`; a
  document is UTF-8, and a replaced string needs no replacement again).
  The invariant `Typed` says which values each field can have come to hold: what
  the defaults and presets give it (`DefaultTyped`, `ConservativeTyped`,
  `AggressiveTyped`), what JSON decodes (`UnmarshalFacts`) and what a variable
  sets (`OverridesFacts`), a float that is not finite and a string that is not
  UTF-8 only in the last case. `RoundTripOfField` says that such a value is spelled
  by a text it is read from again, or its repaired form is; a section at a time
  (`RoundTrip`) that makes `CopySafety`.
* `MetricsProofs`, for any strategies, callers, scrapers and bounds. `CountInv`
  (`CountSafety`) says of each caller how many tries it can have made
  (`CallerInv`), and of the counters what they say once n calls are reported
  (`Reported`): the n is what the tracker's guess, always the same number of
  attempts, is divided by. The tries it has not heard of are not a sum but a set
  of pairs of a caller and a number (`Tries`), whose size grows by one with an
  attempt and loses a caller's share when its call is reported (`TriesGrow`,
  `TriesReported`). `ScrapeInv` (`ScrapeSafety`) orders three readings in time:
  the last scrape is older than the samples of the one under way, and these older
  than the counters; and what the last one showed is in the one under way or
  still to come (`Shown`, `Left`), which holds because `Register` waits until
  nobody gathers. For the trip count the order is claimed only between readings with
  no `Reset` in between.

**Only model-checked.** Liveness under fairness (`BlockingIsTemporary`,
`CallsEnd`, `StopEnds`, `LastEditApplied`, `GrantsKeepComing`,
`CallersAnswered`, `WorkersEnd`, `LimitTakesEffect`), which is beyond the prover.
For three of them the state they rest on is proved, so that fairness is all that
is left to TLC: `BlockedByProbes` for `BlockingIsTemporary`, `StopIsHeard` for
`StopEnds`, `NoEditMissed` for `LastEditApplied`. Every safety property of a
passing run is a theorem. `TypeOK` of `Config` is there to be read; its inductive
form is `Typed` in `ConfigProofs`.

## 5. Not modelled

* Float rounding (thresholds that a rate misses by an ulp, tokens that add up to
  0.999...), and an adaptive breaker whose two bounds are equal, which divides 0
  by 0.
* What callbacks do: they run user code on goroutines of their own, in any order.
  Of those that the library starts itself, the adaptive breaker's is modelled.
* The race on `totalRejected` (`breaker.go:161`), whose lost updates show in a
  reported total only, is in `CircuitBreaker` as a load and a store without a
  property about it.
* Watcher: an `onChange` that calls `Stop` waits for itself (`watcher.go:155`); a
  second `Stop` returns while the first still waits (93); an edit that keeps both
  size and modification time is never noticed (137): every edit of the model
  changes the stamp.
* Rate limiters: a rate, limit or window of zero, with which `NewSlidingWindow`
  panics under its lock (`ratelimit.go:198`); `WaitN` for more than burst, which
  waits for ever (87); what holders of a reservation with a delay do (see section 3).
* Middleware: `RateLimitWithResponse` (`middleware.go:85-96`), which is `RateLimit`
  with a `responseFunc` in the place of `http.Error`; `Retry` around
  `TimeoutWithResponse`; which of the two answers of a
  detached handler and a `responseFunc` wins; a process that has crashed.
* Backoff: a negative `MaxRetryCount`, for which `uint64(MaxRetries() + 1)`
  (`backoff.go:171`) is 0 or close to 2^64; `Validate` refuses it in a configuration
  (`config.go:307`), and `MetricsAssumption` leaves it out.
* Metrics: collectors other than those of retry, timeout and the trip count read a
  pattern's metrics under its lock in one step; histograms and gauges likewise; the text
  format and its HTTP handler keep no state.
* Configuration: the duration helpers, and the other sections' key names.
* Public packages, decorators, the command and the examples: forwarding,
  composition and printing, with no state of their own. The one example that
  applies a configuration as a program would is where `Config` takes the order of
  loading, overriding and validating from.

## 6. Plan

Done: the modules of section 2, in the order they stand there, and the theorems
of section 4. What is left would be, in this order:

1. The states that the other liveness properties rest on, as theorems:
   `CallersAnswered` and `WorkersEnd` (who waits for whom in `Executor`),
   `LimitTakesEffect` (who is past the check).
2. What `Executor` and `Middleware` assume of a breaker as an abstract module of
   its own that `BreakerProtocol` implements.
3. Detached handlers under a retry, with recorders per attempt.
