------------------------------ MODULE Executor ------------------------------
(***************************************************************************)
(* pkg/resilience/executor.go: Executor.Execute, which nests the patterns  *)
(* around a function fn in this order, the first being the outermost:      *)
(*                                                                         *)
(*     bulkhead, timeout, limiter, retry, breaker, fallback, fn            *)
(*                                                                         *)
(* and the loops and selects of the layers that an Executor brings         *)
(* together: timeout.Execute, backoff.Execute, fallback.Execute.           *)
(*                                                                         *)
(* timeout.Execute runs everything inside it on a goroutine of its own,    *)
(* the worker, which answers over a buffered channel; when the context is  *)
(* done the caller leaves without it and the worker goes on alone.         *)
(* Without a timeout layer the caller runs the chain itself: here a worker *)
(* that the caller does nothing but wait for.                              *)
(*                                                                         *)
(* fn and the fallback may panic, and no layer recovers.  Only what is     *)
(* deferred runs: the bulkhead's release, but not the breaker's afterCall. *)
(* A panic on a goroutine that timeout.Execute has started ends the        *)
(* program.                                                                *)
(*                                                                         *)
(* The bulkhead, the limiter and the circuit breaker are the components of *)
(* Bulkhead, RateLimiter and CircuitBreaker, and appear by what they       *)
(* promise: a pool of slots; a token sooner or later; and what is seen of   *)
(* BreakerProtocol, which nobody but the layers calls here: a breaker that *)
(* may trip when it hears of a result, and while tripped refuses calls or, *)
(* on trial, admits some.  Errors are not told apart; callbacks are left   *)
(* out.                                                                    *)
(***************************************************************************)
EXTENDS Integers, FiniteSets

CONSTANTS
    Requests,       \* the calls of Execute, each made by a goroutine of its own
    Stacks,         \* the sets of layers an Executor may be given
    MaxConcurrent,  \* of the bulkhead
    Patient,        \* is the bulkhead's MaxWaitDuration positive
    MaxRetries,     \* of the backoff strategy
    CanHang,        \* may fn ignore its context and never return
    CanPanic,       \* may fn and the fallback panic
    FallbackFails   \* may the fallback function return an error

Layers == {"bulkhead", "timeout", "limiter", "retry", "breaker", "fallback"}

ASSUME StacksAssumption == Stacks \subseteq SUBSET Layers

ASSUME BoundsAssumption ==
    /\ IsFiniteSet(Requests)
    /\ MaxConcurrent \in Nat \ {0} /\ MaxRetries \in Nat
    /\ Patient \in BOOLEAN /\ CanHang \in BOOLEAN /\ CanPanic \in BOOLEAN
    /\ FallbackFails \in BOOLEAN

VARIABLES
    stack,      \* the layers of this Executor; never changes
    cpc,        \* where the caller is
    wpc,        \* where the worker is
    done,       \* is the request's context done
    tries,      \* how often the worker has gone round the retry loop
    result,     \* what the worker has to say; the channel's content once sent
    answer,     \* what Execute has returned
    tripped,    \* is the breaker not closed
    admitted,   \* history: calls the breaker has admitted
    settled     \* history: calls the breaker has recorded

vars == <<stack, cpc, wpc, done, tries, result, answer, tripped, admitted, settled>>
caller == <<cpc, answer>>
breaker == <<tripped, admitted, settled>>

Verdicts == {"none", "ok", "error"}

CallerPlaces == {"new", "queued", "selecting", "leaving", "answered", "unwound"}

WorkerPlaces == {"none", "limiting", "calling", "running", "hung", "fallingback",
                 "panicked", "failed", "pausing", "returning", "ended"}

(* The type invariant; with it, fn is called at most MaxRetries + 1 times  *)
(* for one request.                                                        *)
TypeOK ==
    /\ stack \in Stacks
    /\ cpc \in [Requests -> CallerPlaces]
    /\ wpc \in [Requests -> WorkerPlaces]
    /\ done \in [Requests -> BOOLEAN]
    /\ tries \in [Requests -> 0 .. MaxRetries + 1]
    /\ result \in [Requests -> Verdicts]
    /\ answer \in [Requests -> Verdicts]
    /\ tripped \in BOOLEAN
    /\ admitted \in Nat /\ settled \in 0 .. admitted

-----------------------------------------------------------------------------
Init ==
    /\ stack \in Stacks
    /\ cpc = [r \in Requests |-> "new"]
    /\ wpc = [r \in Requests |-> "none"]
    /\ done = [r \in Requests |-> FALSE]
    /\ tries = [r \in Requests |-> 0]
    /\ result = [r \in Requests |-> "none"]
    /\ answer = [r \in Requests |-> "none"]
    /\ tripped = FALSE /\ admitted = 0 /\ settled = 0

Has(layer) == layer \in stack

(* A panic that has nobody left to unwind to ends the program.             *)
Crashed == Has("timeout") /\ \E r \in Requests : wpc[r] = "panicked"

CallerGoes(r, from, to) ==
    /\ ~Crashed
    /\ cpc[r] = from /\ cpc' = [cpc EXCEPT ![r] = to]

WorkerGoes(r, from, to) ==
    /\ ~Crashed
    /\ wpc[r] = from /\ wpc' = [wpc EXCEPT ![r] = to]
    /\ UNCHANGED <<stack, caller, done>>

(* The deadline of the timeout layer passes, or whoever called Execute     *)
(* cancels the context it gave.                                            *)
ContextDone(r) ==
    /\ ~Crashed
    /\ cpc[r] \notin {"answered", "unwound"} /\ ~done[r]
    /\ done' = [done EXCEPT ![r] = TRUE]
    /\ UNCHANGED <<stack, caller, wpc, tries, result, breaker>>

-----------------------------------------------------------------------------
(* The caller: bulkhead.Execute around timeout.Execute.                    *)

InBulkhead == {r \in Requests : cpc[r] \in {"selecting", "leaving"}}

HasSlot == Cardinality(InBulkhead) < MaxConcurrent

Arrive(r) ==
    /\ CallerGoes(r, "new", "queued")
    /\ UNCHANGED <<stack, answer, wpc, done, tries, result, breaker>>

(* acquire has a slot, and timeout.Execute starts the worker.              *)
Begin(r) ==
    /\ CallerGoes(r, "queued", "selecting")
    /\ Has("bulkhead") => HasSlot
    /\ wpc' = [wpc EXCEPT ![r] = "limiting"]
    /\ UNCHANGED <<stack, answer, done, tries, result, breaker>>

(* acquire fails: full, or a patient one has waited too long.              *)
RejectedByBulkhead(r) ==
    /\ Has("bulkhead")
    /\ Patient \/ ~HasSlot
    /\ CallerGoes(r, "queued", "answered")
    /\ answer' = [answer EXCEPT ![r] = "error"]
    /\ UNCHANGED <<stack, wpc, done, tries, result, breaker>>

(* The two arms of timeout.Execute's select, and its deferred cancel.      *)
ReceiveResult(r) ==
    /\ CallerGoes(r, "selecting", "leaving")
    /\ wpc[r] = "ended"
    /\ answer' = [answer EXCEPT ![r] = result[r]]
    /\ done' = [done EXCEPT ![r] = @ \/ Has("timeout")]
    /\ UNCHANGED <<stack, wpc, tries, result, breaker>>

(* Mutation: the timeout layer gives up before the context is done.        *)
TimeOutEarly(r) ==
    /\ Has("timeout")
    /\ CallerGoes(r, "selecting", "leaving")
    /\ answer' = [answer EXCEPT ![r] = "error"]
    /\ UNCHANGED <<stack, wpc, done, tries, result, breaker>>

(* Mutation: the select has no arm for the context.                        *)
TimeOutNever(r) == FALSE /\ cpc[r] = "selecting" /\ UNCHANGED vars

TimeOut(r) ==
    /\ Has("timeout") /\ done[r]
    /\ CallerGoes(r, "selecting", "leaving")
    /\ answer' = [answer EXCEPT ![r] = "error"]
    /\ UNCHANGED <<stack, wpc, done, tries, result, breaker>>

(* The bulkhead's deferred release, and Execute returns.                   *)
Leave(r) ==
    /\ CallerGoes(r, "leaving", "answered")
    /\ UNCHANGED <<stack, answer, wpc, done, tries, result, breaker>>

(* A panic of the worker that is the caller itself: it runs the deferred   *)
(* release and leaves Execute without an answer.                           *)
Unwind(r) ==
    /\ wpc[r] = "panicked"
    /\ CallerGoes(r, "selecting", "unwound")
    /\ UNCHANGED <<stack, answer, wpc, done, tries, result, breaker>>

-----------------------------------------------------------------------------
(* The worker.                                                             *)

(* limiter.Wait takes a token or finds the context done while it waits.    *)
PassLimiter(r) ==
    /\ WorkerGoes(r, "limiting", "calling")
    /\ UNCHANGED <<tries, result, breaker>>

RejectedByLimiter(r) ==
    /\ Has("limiter") /\ done[r]
    /\ WorkerGoes(r, "limiting", "returning")
    /\ result' = [result EXCEPT ![r] = "error"]
    /\ UNCHANGED <<tries, breaker>>

(* One turn of the retry loop: breaker.beforeCall, then fn.                *)
Call(r) ==
    /\ WorkerGoes(r, "calling", "running")
    /\ tries' = [tries EXCEPT ![r] = @ + 1]
    /\ admitted' = IF Has("breaker") THEN admitted + 1 ELSE admitted
    /\ UNCHANGED <<result, tripped, settled>>

RejectedByBreaker(r) ==
    /\ Has("breaker") /\ tripped
    /\ WorkerGoes(r, "calling", "failed")
    /\ tries' = [tries EXCEPT ![r] = @ + 1]
    /\ UNCHANGED <<result, breaker>>

(* What a recorded result may do to the breaker's state: IsSuccessful says *)
(* what is a failure, and a success trips it too if it was slow or is the  *)
(* one that completes MinimumNumberOfCalls.                                *)
Verdict == IF Has("breaker") THEN BOOLEAN ELSE {tripped}

(* Mutation: the breaker hears nothing of a call whose caller has left.    *)
RecordAttended(r) ==
    /\ settled' = IF Has("breaker") /\ ~done[r] THEN settled + 1 ELSE settled
    /\ tripped' \in Verdict
    /\ UNCHANGED admitted

(* breaker.afterCall, once the fallback layer has returned.                *)
Record(r) ==
    /\ settled' = IF Has("breaker") THEN settled + 1 ELSE settled
    /\ tripped' \in Verdict
    /\ UNCHANGED admitted

Succeed(r, from) ==
    /\ WorkerGoes(r, from, "returning")
    /\ result' = [result EXCEPT ![r] = "ok"]
    /\ Record(r)
    /\ UNCHANGED tries

Fail(r, from) ==
    /\ WorkerGoes(r, from, "failed")
    /\ Record(r)
    /\ UNCHANGED <<tries, result>>

FnSucceeds(r) == Succeed(r, "running")

FnFails(r) == ~Has("fallback") /\ Fail(r, "running")

FallBack(r) ==
    /\ Has("fallback")
    /\ WorkerGoes(r, "running", "fallingback")
    /\ UNCHANGED <<tries, result, breaker>>

FallbackReturns(r) ==
    Succeed(r, "fallingback") \/ (FallbackFails /\ Fail(r, "fallingback"))

Hang(r) ==
    /\ CanHang
    /\ WorkerGoes(r, "running", "hung")
    /\ UNCHANGED <<tries, result, breaker>>

(* Out of fallback.Execute, past breaker.afterCall and out of the retry    *)
(* loop: none of them has anything deferred.                               *)
Panic(r) ==
    /\ CanPanic
    /\ \E from \in {"running", "fallingback"} : WorkerGoes(r, from, "panicked")
    /\ UNCHANGED <<tries, result, breaker>>

(* Mutation: Next compares with > where the code has >=.                   *)
PauseOffByOne(r) ==
    /\ Has("retry") /\ tries[r] <= MaxRetries + 1
    /\ WorkerGoes(r, "failed", "pausing")
    /\ UNCHANGED <<tries, result, breaker>>

(* Backoff.Next gives a duration.                                          *)
Pause(r) ==
    /\ Has("retry") /\ tries[r] <= MaxRetries
    /\ WorkerGoes(r, "failed", "pausing")
    /\ UNCHANGED <<tries, result, breaker>>

(* No retry layer, RetryOn says no, or Backoff.Next gives -1.              *)
GiveUp(r) ==
    /\ WorkerGoes(r, "failed", "returning")
    /\ result' = [result EXCEPT ![r] = "error"]
    /\ UNCHANGED <<tries, breaker>>

(* The two arms of backoff.Execute's select.                               *)
Retry(r) ==
    /\ WorkerGoes(r, "pausing", "calling")
    /\ UNCHANGED <<tries, result, breaker>>

StopRetrying(r) ==
    /\ done[r]
    /\ WorkerGoes(r, "pausing", "returning")
    /\ result' = [result EXCEPT ![r] = "error"]
    /\ UNCHANGED <<tries, breaker>>

(* Mutation: the channel has no buffer.                                    *)
SendUnbuffered(r) ==
    /\ cpc[r] = "selecting"
    /\ WorkerGoes(r, "returning", "ended")
    /\ UNCHANGED <<tries, result, breaker>>

(* The send on the buffered channel.                                       *)
Send(r) ==
    /\ WorkerGoes(r, "returning", "ended")
    /\ UNCHANGED <<tries, result, breaker>>

-----------------------------------------------------------------------------
CallerStep(r) ==
    \/ Begin(r) \/ RejectedByBulkhead(r)
    \/ ReceiveResult(r) \/ TimeOut(r) \/ Leave(r) \/ Unwind(r)

FnReturns(r) == FnSucceeds(r) \/ FnFails(r) \/ FallBack(r)

WorkerStep(r) ==
    \/ PassLimiter(r) \/ RejectedByLimiter(r)
    \/ Call(r) \/ RejectedByBreaker(r)
    \/ FnReturns(r) \/ FallbackReturns(r) \/ Hang(r) \/ Panic(r)
    \/ Pause(r) \/ GiveUp(r) \/ Retry(r) \/ StopRetrying(r) \/ Send(r)

Next == \E r \in Requests : Arrive(r) \/ ContextDone(r) \/ CallerStep(r) \/ WorkerStep(r)

Spec == Init /\ [][Next]_vars

(* Goroutines run, timers fire, the limiter's rate is positive; a call of  *)
(* fn ends unless it hangs.  The deadline exists only with a timeout       *)
(* layer.  Nobody has to call Execute.                                     *)
FairSpec ==
    /\ Spec
    /\ \A r \in Requests : /\ WF_vars(CallerStep(r))
                           /\ WF_vars(WorkerStep(r))
                           /\ WF_vars(Has("timeout") /\ cpc[r] = "selecting" /\ ContextDone(r))

-----------------------------------------------------------------------------
(* Properties.                                                             *)

(* A caller that is told of an error although its operation succeeded had  *)
(* its context done: the select of timeout.Execute (81-92) drops a result  *)
(* only for that reason.                                                   *)
ErrorOnlyIfDone ==
    \A r \in Requests : answer[r] = "error" /\ result[r] = "ok" => done[r]

Flying == {r \in Requests : wpc[r] \in {"running", "hung", "fallingback"}}

Panicked == {r \in Requests : wpc[r] = "panicked"}

(* The breaker records every call that it has admitted, once and only when *)
(* it has ended, also those of requests that have timed out since          *)
(* (executor.go 128-133 inside 155-160), so that a half-open slot comes    *)
(* back as soon as fn returns and not before - save for the calls that end *)
(* in a panic, which it never hears of (breaker.go 165-169): each costs it *)
(* one record, however often the request was tried before.                 *)
AdmittedAreSettled ==
    Has("breaker") =>
        admitted - settled = Cardinality(Flying) + Cardinality(Panicked)

(* Execute returns or panics, however the layers wait, and with a timeout  *)
(* layer whatever fn does, short of a panic that ends the program.         *)
CallersAnswered ==
    \A r \in Requests :
        cpc[r] # "new" ~> \/ cpc[r] \in {"answered", "unwound"}
                          \/ Crashed
                          \/ ~Has("timeout") /\ wpc[r] = "hung"

(* No worker is left behind for longer than fn runs: a worker whose caller *)
(* has gone still finds room for its result in the channel (timeout.go 75) *)
(* and does not retry for ever.                                            *)
WorkersEnd ==
    \A r \in Requests :
        wpc[r] # "none" ~> (wpc[r] \in {"ended", "hung", "panicked"} \/ Crashed)
=============================================================================
