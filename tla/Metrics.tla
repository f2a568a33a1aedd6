------------------------------- MODULE Metrics -------------------------------
(***************************************************************************)
(* What the counters say of the calls.  Callers go through                 *)
(* backoff.RetryTracker.Execute around timeout.Timeout.Execute, and        *)
(* scrapers through metrics.Registry.Gather, which reads the counters of   *)
(* both, and the trip count of an adaptive breaker, with one atomic load   *)
(* each.  Nothing makes several updates or several loads one step: the     *)
(* tracker learns of a call when it is over, and guesses its attempts; the *)
(* timeout counts an attempt before it begins and its outcome after it.    *)
(* Trips are counted, and the count is zeroed, whenever AdaptiveBreaker    *)
(* (the module) may do so.                                                 *)
(*                                                                         *)
(* The registry's lock is a sync.RWMutex, which lets no reader in front of *)
(* a writer that waits.  Names, labels and the text format are left out,   *)
(* and so are functions that panic.  Counters do not wrap round.           *)
(***************************************************************************)
EXTENDS Backoff, Sequences, FiniteSets, Functions

CONSTANTS
    Callers,    \* goroutines that call RetryTracker.Execute
    Scrapers,   \* goroutines that call Registry.Gather
    Strategies, \* strategies the tracker may be given; None stands for nil
    None,
    Collectors, \* the collectors that the program registers
    MaxCalls,   \* bound: calls of fn
    MaxTrips,   \* bound: trips counted since the last Reset
    MaxScrapes  \* bound: scrapes

(* The samples each collector takes, in the order it takes them.           *)
Collect == [retry    |-> <<"attempts", "retry_successes", "retries">>,
            timeout  |-> <<"calls", "timeouts", "timeout_successes">>,
            adaptive |-> <<"trips">>]

Series == UNION {Range(Collect[c]) : c \in DOMAIN Collect}

(* A strategy may be given a negative count, for which uint64(count + 1)   *)
(* is 0 or close to 2^64; it is outside the model, and Validate refuses it *)
(* in a configuration (config.go:307).                                     *)
ASSUME MetricsAssumption ==
    /\ IsFiniteSet(Callers) /\ Collectors \subseteq DOMAIN Collect
    /\ MaxCalls \in Nat /\ MaxTrips \in Nat /\ MaxScrapes \in Nat
    /\ \A s \in Strategies \ {None} : s.kind \in Kinds /\ s.count \in Nat

VARIABLES
    backoff,    \* config.Backoff of the tracker; never changes
    counter,    \* the value of each counter
    pc,         \* where each caller is
    tries,      \* how often it has called fn in this call
    outcome,    \* what its call has come to
    collectors, \* Registry.collectors
    pending,    \* collectors whose Register waits for the lock
    todo,       \* the collectors each scraper has yet to go through
    at,         \* which sample of the first of them it takes next
    sampled,    \* the samples it has taken in this scrape
    scrape,     \* its last complete scrape
    scrapes,    \* scrapes begun, for their bound
    resetSince, \* history: scrapers whose last complete scrape, and
    resetDuring \* whose present one, began before the last Reset

vars == <<backoff, counter, pc, tries, outcome,
          collectors, pending, todo, at, sampled, scrape, scrapes,
          resetSince, resetDuring>>
call == <<pc, tries, outcome>>
reading == <<todo, at, sampled, scrape, scrapes, resetSince, resetDuring>>
registry == <<collectors, pending, reading>>

IsSamples(f) == DOMAIN f \subseteq Series /\ f \in [DOMAIN f -> Nat]

TypeOK ==
    /\ backoff \in Strategies
    /\ counter \in [Series -> Nat]
    /\ pc \in [Callers -> {"idle", "attempt", "pausing", "over", "counted", "panicked"}]
    /\ tries \in [Callers -> 0 .. MaxCalls]
    /\ outcome \in [Callers -> {"none", "ok", "error", "exhausted"}]
    /\ collectors \in Seq(Collectors) /\ pending \subseteq Collectors
    /\ todo \in [Scrapers -> Seq(Collectors)]
    /\ \A s \in Scrapers : at[s] \in 1 .. (IF todo[s] = <<>> THEN 1 ELSE Len(Collect[Head(todo[s])]))
    /\ \A s \in Scrapers : IsSamples(sampled[s]) /\ IsSamples(scrape[s])
    /\ scrapes \in Nat
    /\ resetSince \subseteq Scrapers /\ resetDuring \subseteq Scrapers

-----------------------------------------------------------------------------
Nothing == [s \in {} |-> 0]

Init ==
    /\ backoff \in Strategies
    /\ counter = [s \in Series |-> 0]
    /\ pc = [c \in Callers |-> "idle"]
    /\ tries = [c \in Callers |-> 0]
    /\ outcome = [c \in Callers |-> "none"]
    /\ collectors = <<>> /\ pending = {}
    /\ todo = [s \in Scrapers |-> <<>>] /\ at = [s \in Scrapers |-> 1]
    /\ sampled = [s \in Scrapers |-> Nothing]
    /\ scrape = [s \in Scrapers |-> Nothing]
    /\ scrapes = 0
    /\ resetSince = {} /\ resetDuring = {}

Goes(c, from, to) == pc[c] = from /\ pc' = [pc EXCEPT ![c] = to]

(* An atomic add.                                                          *)
Add(series, n) == counter' = [counter EXCEPT ![series] = @ + n]

-----------------------------------------------------------------------------
(* timeout.Timeout.Execute inside the loop of backoff.Execute.             *)

Attempt(c, from) ==
    /\ counter["calls"] < MaxCalls
    /\ Goes(c, from, "attempt")
    /\ Add("calls", 1)
    /\ tries' = [tries EXCEPT ![c] = @ + 1]
    /\ UNCHANGED <<backoff, outcome, registry>>

Begin(c) == Attempt(c, "idle")

Ends(c, verdict) ==
    /\ pc' = [pc EXCEPT ![c] = "over"]
    /\ outcome' = [outcome EXCEPT ![c] = verdict]

Succeed(c) ==
    /\ pc[c] = "attempt"
    /\ Add("timeout_successes", 1)
    /\ Ends(c, "ok")
    /\ UNCHANGED <<backoff, tries, registry>>

(* The attempt fails, by a timeout or with an error of its own.            *)
Fails(c) ==
    /\ pc[c] = "attempt"
    /\ Add("timeouts", 1) \/ UNCHANGED counter
    /\ UNCHANGED <<backoff, tries, registry>>

(* RetryOn says that there is no point.                                    *)
NotRetried(c) == Fails(c) /\ Ends(c, "error")

(* config.Backoff.Next is a call through a nil interface.                  *)
NoStrategy(c) ==
    /\ backoff = None
    /\ Fails(c)
    /\ Goes(c, "attempt", "panicked")
    /\ UNCHANGED outcome

GiveUp(c) ==
    /\ Fails(c)
    /\ backoff # None /\ MayGiveUp(backoff, tries[c] - 1)
    /\ Ends(c, "exhausted")

Pause(c) ==
    /\ Fails(c)
    /\ backoff # None /\ MayPause(backoff, tries[c] - 1)
    /\ Goes(c, "attempt", "pausing")
    /\ UNCHANGED outcome

Retry(c) == Attempt(c, "pausing")

Cancelled(c) ==
    /\ pc[c] = "pausing"
    /\ Ends(c, "error")
    /\ UNCHANGED <<backoff, counter, tries, registry>>

-----------------------------------------------------------------------------
(* The rest of RetryTracker.Execute.                                       *)

(* The attempts the tracker takes every call to have made.                 *)
Attempts == IF backoff = None THEN 1 ELSE backoff.count + 1

(* Mutation: a tracker without a strategy still counts one retry.          *)
CountAttemptsRetriesOnly(c) ==
    /\ Goes(c, "over", "counted")
    /\ Add("attempts", Attempts - 1)
    /\ UNCHANGED <<backoff, tries, outcome, registry>>

CountAttempts(c) ==
    /\ Goes(c, "over", "counted")
    /\ Add("attempts", Attempts)
    /\ UNCHANGED <<backoff, tries, outcome, registry>>

CountOutcome(c) ==
    /\ Goes(c, "counted", "idle")
    /\ CASE outcome[c] = "ok"        -> Add("retry_successes", 1)
         [] outcome[c] = "exhausted" -> Add("retries", Attempts - 1)
         [] outcome[c] = "error"     -> UNCHANGED counter
    /\ tries' = [tries EXCEPT ![c] = 0]
    /\ outcome' = [outcome EXCEPT ![c] = "none"]
    /\ UNCHANGED <<backoff, registry>>

-----------------------------------------------------------------------------
(* The trip count of the adaptive breaker.                                 *)

TripCallback ==
    /\ counter["trips"] < MaxTrips
    /\ Add("trips", 1)
    /\ UNCHANGED <<backoff, call, registry>>

ZeroTrips ==
    /\ counter' = [counter EXCEPT !["trips"] = 0]
    /\ resetSince' = Scrapers /\ resetDuring' = Scrapers
    /\ UNCHANGED <<backoff, call, collectors, pending, todo, at, sampled, scrape, scrapes>>

-----------------------------------------------------------------------------
(* The registry.                                                           *)

Gathering == {s \in Scrapers : todo[s] # <<>>}

(* Mutation: a new collector takes the place of the others.                *)
RegisteredAfresh(c) ==
    /\ c \in pending /\ Gathering = {}
    /\ pending' = pending \ {c}
    /\ collectors' = <<c>>
    /\ UNCHANGED <<backoff, counter, call, reading>>

(* Register asks for the lock; it gets it when nobody gathers.             *)
Register(c) ==
    /\ c \notin pending /\ c \notin Range(collectors)
    /\ pending' = pending \cup {c}
    /\ UNCHANGED <<backoff, counter, call, collectors, reading>>

Registered(c) ==
    /\ c \in pending /\ Gathering = {}
    /\ pending' = pending \ {c}
    /\ collectors' = Append(collectors, c)
    /\ UNCHANGED <<backoff, counter, call, reading>>

(* Gather of an empty registry returns at once, and shows nothing.         *)
Gather(s) ==
    /\ scrapes < MaxScrapes
    /\ s \notin Gathering /\ pending = {} /\ collectors # <<>>
    /\ todo' = [todo EXCEPT ![s] = collectors] /\ at' = [at EXCEPT ![s] = 1]
    /\ sampled' = [sampled EXCEPT ![s] = Nothing]
    /\ scrapes' = scrapes + 1
    /\ resetDuring' = resetDuring \ {s}
    /\ UNCHANGED <<backoff, counter, call, collectors, pending, scrape, resetSince>>

(* One atomic load.  The last one completes the scrape.                    *)
Sample(s) ==
    /\ s \in Gathering
    /\ LET samples == Collect[Head(todo[s])]
           collected == at[s] = Len(samples)
           rest == IF collected THEN Tail(todo[s]) ELSE todo[s]
           shown == [x \in DOMAIN sampled[s] \cup {samples[at[s]]} |->
                        IF x = samples[at[s]] THEN counter[x] ELSE sampled[s][x]]
       IN  /\ todo' = [todo EXCEPT ![s] = rest]
           /\ at' = [at EXCEPT ![s] = IF collected THEN 1 ELSE @ + 1]
           /\ sampled' = [sampled EXCEPT ![s] = IF rest = <<>> THEN Nothing ELSE shown]
           /\ scrape' = [scrape EXCEPT ![s] = IF rest = <<>> THEN shown ELSE @]
           /\ resetSince' = IF rest = <<>> /\ s \notin resetDuring
                            THEN resetSince \ {s} ELSE resetSince
    /\ UNCHANGED <<backoff, counter, call, collectors, pending, scrapes, resetDuring>>

-----------------------------------------------------------------------------
CallerStep(c) ==
    \/ Begin(c) \/ Succeed(c) \/ NotRetried(c) \/ NoStrategy(c) \/ GiveUp(c)
    \/ Pause(c) \/ Retry(c) \/ Cancelled(c) \/ CountAttempts(c) \/ CountOutcome(c)

Next ==
    \/ \E c \in Callers : CallerStep(c)
    \/ TripCallback \/ ZeroTrips
    \/ \E c \in Collectors : Register(c) \/ Registered(c)
    \/ \E s \in Scrapers : Gather(s) \/ Sample(s)

Spec == Init /\ [][Next]_vars

-----------------------------------------------------------------------------
Unreported == {c \in Callers : pc[c] \in {"attempt", "pausing", "over", "panicked"}}

With(verdict) == {c \in Callers : outcome[c] = verdict}

(* Attempts that the tracker has not heard of.                             *)
UnreportedTries ==
    Cardinality({try \in Unreported \X (1 .. MaxCalls) : try[2] <= tries[try[1]]})

(* No pause of the strategy is negative before its retries are used up.    *)
Regular ==
    \/ backoff = None
    \/ \A retry \in 0 .. backoff.count - 1 : ~MayGiveUp(backoff, retry)

(* retry_attempts_total is the attempts there would be if every call used  *)
(* up its retries, retry_retries_total the retries of the calls that were  *)
(* exhausted, as if they had made all of them: so the tracker defines them *)
(* (RetryTracker.Execute, backoff.go:164-185), whatever really happens.    *)
(* At every moment, whatever calls are half counted, the calls that the    *)
(* timeout inside the tracker has really seen lie between what the two     *)
(* say: at most the attempts reported, at least one for each call reported *)
(* and the retries reported.  The lower bound needs a strategy that is     *)
(* Regular: one whose pause overflows gives up early, and the tracker then *)
(* reports retries that were never made.  Every attempt that succeeded is  *)
(* the success of one call, or soon will be; and the timeout has outcomes  *)
(* of attempts it has counted only.                                        *)
CountersBracketTruth ==
    /\ counter["calls"] <= counter["attempts"] + UnreportedTries
    /\ Regular =>
         counter["calls"] >= counter["attempts"] \div Attempts + counter["retries"]
                           + UnreportedTries
                           + Cardinality({c \in With("exhausted") : pc[c] = "counted"})
                               * (Attempts - 1)
    /\ counter["timeout_successes"] =
         counter["retry_successes"] + Cardinality(With("ok"))
    /\ counter["timeouts"] + counter["timeout_successes"]
         + Cardinality({c \in Callers : pc[c] = "attempt"}) <= counter["calls"]

(* From one scrape of a scraper to its next no series is lost, and only    *)
(* one goes back, and it only if a Reset has run since the earlier scrape  *)
(* began: the trip count, which the collector calls a Counter for all that *)
(* (adaptive.go:338, collectors.go:442-445).  A scrape is many loads, and  *)
(* between them calls end, trips are counted or taken back, and collectors *)
(* wait to be registered.                                                  *)
OnlyResetTakesBack ==
    [][\A s \in Scrapers : \A x \in DOMAIN scrape[s] :
          /\ x \in DOMAIN scrape'[s]
          /\ \/ scrape'[s][x] >= scrape[s][x]
             \/ x = "trips" /\ s \in resetSince]_vars
=============================================================================
