----------------------------- MODULE Middleware -----------------------------
(***************************************************************************)
(* pkg/middleware/middleware.go: HTTP requests going through a Chain of    *)
(* middleware to a handler and back.                                       *)
(*                                                                         *)
(* A goroutine is at a depth: layer i of the chain, or the handler, one    *)
(* deeper than the last layer.  It goes down, comes back up, or unwinds    *)
(* after a panic of the handler.  TimeoutWithResponse runs what is below   *)
(* it on a second goroutine, the worker, that it stops waiting for.        *)
(*                                                                         *)
(* CircuitBreaker and each attempt of Retry put a responseRecorder around  *)
(* the writer, so a status is written to the recorders above the writing   *)
(* goroutine and then to the client.  WriteHeader tests rec.written, sets  *)
(* the recorders and calls the writer below; a handler and a responseFunc  *)
(* may do so at once, so these are three steps.                            *)
(*                                                                         *)
(* The shared layers appear by what their own modules establish: the       *)
(* breaker, whose IsSuccessful is left at its default, refuses calls only  *)
(* after a result that may have tripped it, which a slow success does too; *)
(* the limiter lets a request pass sooner or later.  At most one layer of  *)
(* a kind matters here; Retry around TimeoutWithResponse is left out,      *)
(* since its attempts would share no recorder.                             *)
(***************************************************************************)
EXTENDS Integers, Sequences, FiniteSets

CONSTANTS
    Requests,
    Chains,          \* the arguments of Chain, outermost first
    MaxConcurrent,   \* of the bulkhead
    Patient,         \* does the bulkhead have a MaxWaitDuration
    MaxRetries       \* of Retry

Layers == {"breaker", "limit", "timeout", "respond", "bulkhead", "retry"}

(* Retry around TimeoutWithResponse ("respond") is not modelled.           *)
ASSUME ChainsAssumption ==
    \A chain \in Chains :
        /\ chain \in Seq(Layers)
        /\ \A i, j \in DOMAIN chain :
             /\ chain[i] = chain[j] => i = j
             /\ chain[i] = "retry" /\ chain[j] = "respond" => j < i

ASSUME BoundsAssumption ==
    /\ IsFiniteSet(Requests)
    /\ MaxConcurrent \in Nat \ {0}
    /\ Patient \in BOOLEAN
    /\ MaxRetries \in Nat

Threads == Requests \X {"main", "worker"}
Main(r) == <<r, "main">>
Worker(r) == <<r, "worker">>

(* Status codes: 200, the handler's 500, 503, 429 and what a responseFunc  *)
(* writes (504, say); "none" before anything is written.                   *)
Statuses == {"none", "ok", "failed", "busy", "limited", "late"}
ServerErrors == {"failed", "busy", "late"}

VARIABLES
    chain,      \* the chain of this behaviour
    at,         \* the depth of each goroutine
    doing,      \* what it does there
    code,       \* the status it is writing
    passes,     \* rec.written was found false
    recorded,   \* the status in the recorder of each layer
    client,     \* the status sent to the client
    slots,      \* goroutines that hold a token of the bulkhead
    attempt,    \* the index i of Retry's loop
    ctx,        \* live, or expired, or cancelled because the client is gone
    verdict,    \* what the breaker knows of the request
    refusing,   \* a recorded result may have tripped the breaker
    handled,    \* history: requests whose handler has returned or panicked
    blank,      \* history: requests that left the bulkhead's queue unanswered
    crashed     \* a goroutine panicked with nobody to recover

vars == <<chain, at, doing, code, passes, recorded, client, slots, attempt,
          ctx, verdict, refusing, handled, blank, crashed>>

writeVars == <<code, passes, recorded, client>>
callVars == <<slots, attempt, ctx, verdict, refusing, handled, blank>>

Depth == Len(chain) + 1

TypeOK ==
    /\ chain \in Chains
    /\ at \in [Threads -> 0 .. Depth]
    /\ doing \in [Threads -> {"idle", "down", "up", "panic", "awaiting",
                              "look", "mark", "forward", "done", "dropped"}]
    /\ code \in [Threads -> Statuses]
    /\ passes \in [Threads -> BOOLEAN]
    /\ recorded \in [Requests -> [1 .. Depth -> Statuses]]
    /\ client \in [Requests -> Statuses]
    /\ slots \subseteq Threads
    /\ attempt \in [Requests -> 0 .. MaxRetries]
    /\ ctx \in [Requests -> {"live", "expired", "gone"}]
    /\ verdict \in [Requests -> {"none", "admitted", "success", "failure"}]
    /\ refusing \in BOOLEAN
    /\ handled \subseteq Requests /\ blank \subseteq Requests
    /\ crashed \in BOOLEAN

-----------------------------------------------------------------------------
LayerOf(t) == IF at[t] \in DOMAIN chain THEN chain[at[t]] ELSE "none"

(* Goroutine t is at a layer of this kind, doing this, and the program is  *)
(* still alive.                                                            *)
Is(t, layer, what) == ~crashed /\ doing[t] = what /\ LayerOf(t) = layer

HasRecorder(i) == chain[i] \in {"breaker", "retry"}

(* The recorders a write at this depth goes through, on its way out.       *)
Above(depth) == {i \in DOMAIN chain : i < depth /\ HasRecorder(i)}

(* The context at a depth is done: the client is gone, or a timeout layer  *)
(* above has expired.                                                      *)
ContextDone(r, depth) ==
    \/ ctx[r] = "gone"
    \/ ctx[r] = "expired" /\ \E i \in DOMAIN chain :
                                 i < depth /\ chain[i] \in {"timeout", "respond"}

Go(t, depth, what) ==
    /\ at' = [at EXCEPT ![t] = depth]
    /\ doing' = [doing EXCEPT ![t] = what]
    /\ UNCHANGED <<chain, crashed>>

Deeper(t) == Go(t, at[t] + 1, "down") /\ UNCHANGED writeVars
Return(t) == Go(t, at[t] - 1, "up") /\ UNCHANGED writeVars

(* A fresh responseRecorder, and on to the next layer.                     *)
DeeperRecording(t) ==
    /\ Go(t, at[t] + 1, "down")
    /\ recorded' = [recorded EXCEPT ![t[1]][at[t]] = "none"]
    /\ UNCHANGED <<code, passes, client>>

(* http.Error or responseFunc: write the status, then return.              *)
Answer(t, status) ==
    /\ Go(t, at[t], "look")
    /\ code' = [code EXCEPT ![t] = status]
    /\ UNCHANGED <<passes, recorded, client>>

-----------------------------------------------------------------------------
(* Writing a status.                                                       *)

(* Mutation: written is not tested.                                        *)
LookAway(t) ==
    /\ ~crashed /\ doing[t] = "look"
    /\ passes' = [passes EXCEPT ![t] = TRUE]
    /\ Go(t, at[t], "mark")
    /\ UNCHANGED <<code, recorded, client, callVars>>

(* WriteHeader passes the recorders up to the first one already written.   *)
Look(t) ==
    /\ ~crashed /\ doing[t] = "look"
    /\ passes' = [passes EXCEPT ![t] =
                     \A i \in Above(at[t]) : recorded[t[1]][i] = "none"]
    /\ Go(t, at[t], "mark")
    /\ UNCHANGED <<code, recorded, client, callVars>>

Mark(t) ==
    LET r == t[1]
        open == {i \in Above(at[t]) :
                   \A j \in Above(at[t]) : j >= i => recorded[r][j] = "none"}
        marked == IF passes[t] THEN Above(at[t]) ELSE open
    IN
    /\ ~crashed /\ doing[t] = "mark"
    /\ recorded' = [recorded EXCEPT ![r] =
                       [i \in 1 .. Depth |-> IF i \in marked THEN code[t] ELSE @[i]]]
    /\ Go(t, at[t], "forward")
    /\ UNCHANGED <<code, passes, client, callVars>>

(* The server keeps the first status.  A status that a recorder stopped is *)
(* followed by its body, which commits a 200 if nothing was committed.     *)
Forward(t) ==
    LET r == t[1] IN
    /\ ~crashed /\ doing[t] = "forward"
    /\ client' = [client EXCEPT ![r] =
                     IF @ # "none" THEN @
                     ELSE IF passes[t] THEN code[t] ELSE "ok"]
    /\ code' = [code EXCEPT ![t] = "none"]
    /\ Go(t, at[t] - 1, "up")
    /\ UNCHANGED <<passes, recorded, callVars>>

Write(t) == Look(t) \/ Mark(t) \/ Forward(t)

-----------------------------------------------------------------------------
(* The handler, and the server around the chain.                           *)

Arrive(r) ==
    /\ ~crashed /\ doing[Main(r)] = "idle"
    /\ Go(Main(r), 1, "down")
    /\ UNCHANGED <<writeVars, callVars>>

AtHandler(t) == ~crashed /\ doing[t] = "down" /\ at[t] = Depth

(* The handler answers, or returns without writing anything, or panics.   *)
Handled(t) ==
    /\ AtHandler(t)
    /\ handled' = handled \union {t[1]}
    /\ UNCHANGED <<slots, attempt, ctx, verdict, refusing, blank>>

HandlerAnswers(t) ==
    /\ Handled(t)
    /\ \E status \in {"ok", "failed"} : Answer(t, status)

HandlerReturns(t) == Handled(t) /\ Return(t)

HandlerPanics(t) ==
    /\ Handled(t)
    /\ Go(t, at[t] - 1, "panic")
    /\ UNCHANGED writeVars

(* A panic goes up through a layer that has nothing deferred to run.       *)
Unwind(t) ==
    /\ ~crashed /\ doing[t] = "panic" /\ at[t] > 0
    /\ ~(t[2] = "worker" /\ LayerOf(t) = "respond")
    /\ LayerOf(t) # "bulkhead"
    /\ Go(t, at[t] - 1, "panic")
    /\ UNCHANGED <<writeVars, callVars>>

(* net/http recovers it and drops the connection ...                       *)
Recover(t) ==
    /\ ~crashed /\ doing[t] = "panic" /\ at[t] = 0
    /\ Go(t, 0, "dropped")
    /\ UNCHANGED <<writeVars, callVars>>

(* ... but nothing recovers it on a goroutine of TimeoutWithResponse.      *)
Crash(t) ==
    /\ t[2] = "worker" /\ Is(t, "respond", "panic")
    /\ crashed' = TRUE
    /\ UNCHANGED <<chain, at, doing, writeVars, callVars>>

(* The chain returns; a response without a status is a 200.                *)
Finish(r) ==
    /\ ~crashed /\ doing[Main(r)] = "up" /\ at[Main(r)] = 0
    /\ Go(Main(r), 0, "done")
    /\ client' = [client EXCEPT ![r] = IF @ = "none" THEN "ok" ELSE @]
    /\ UNCHANGED <<code, passes, recorded, callVars>>

ClientLeaves(r) ==
    /\ ~crashed /\ ctx[r] # "gone" /\ doing[Main(r)] \notin {"idle", "done", "dropped"}
    /\ ctx' = [ctx EXCEPT ![r] = "gone"]
    /\ UNCHANGED <<chain, at, doing, crashed, writeVars>>
    /\ UNCHANGED <<slots, attempt, verdict, refusing, handled, blank>>

-----------------------------------------------------------------------------
(* CircuitBreaker.                                                         *)

Refused(t) ==
    /\ Is(t, "breaker", "down") /\ refusing
    /\ Answer(t, "busy")
    /\ UNCHANGED callVars

Admitted(t) ==
    /\ Is(t, "breaker", "down")
    /\ DeeperRecording(t)
    /\ verdict' = [verdict EXCEPT ![t[1]] = "admitted"]
    /\ UNCHANGED <<slots, attempt, ctx, refusing, handled, blank>>

(* A recorder nobody has written to says 200.                              *)
Judged(t) ==
    LET failure == recorded[t[1]][at[t]] \in ServerErrors IN
    /\ Is(t, "breaker", "up")
    /\ verdict' = [verdict EXCEPT ![t[1]] = IF failure THEN "failure" ELSE "success"]
    /\ refusing' \in IF failure THEN {TRUE, refusing} ELSE BOOLEAN
    /\ Return(t)
    /\ UNCHANGED <<slots, attempt, ctx, handled, blank>>

-----------------------------------------------------------------------------
(* RateLimit and Timeout.                                                  *)

(* The limiter grants; Timeout only derives a context.                     *)
Pass(t) ==
    /\ Is(t, "limit", "down") \/ Is(t, "timeout", "down")
    /\ Deeper(t)
    /\ UNCHANGED callVars

(* Mutation: the request is dropped without an answer.                     *)
TooManySilent(t) ==
    /\ Is(t, "limit", "down") /\ ContextDone(t[1], at[t])
    /\ Return(t)
    /\ UNCHANGED callVars

TooMany(t) ==
    /\ Is(t, "limit", "down") /\ ContextDone(t[1], at[t])
    /\ Answer(t, "limited")
    /\ UNCHANGED callVars

PassBack(t) ==
    /\ Is(t, "limit", "up") \/ Is(t, "timeout", "up")
    /\ Return(t)
    /\ UNCHANGED callVars

-----------------------------------------------------------------------------
(* Timeout and TimeoutWithResponse.                                        *)

(* The deadline passes while the request is below the layer that set it.   *)
Expire(r) ==
    /\ ~crashed /\ ctx[r] = "live"
    /\ \E i \in DOMAIN chain :
         /\ chain[i] \in {"timeout", "respond"}
         /\ at[Main(r)] > i \/ doing[Main(r)] = "awaiting"
    /\ ctx' = [ctx EXCEPT ![r] = "expired"]
    /\ UNCHANGED <<chain, at, doing, crashed, writeVars>>
    /\ UNCHANGED <<slots, attempt, verdict, refusing, handled, blank>>

Detach(r) ==
    /\ Is(Main(r), "respond", "down")
    /\ at' = [at EXCEPT ![Worker(r)] = at[Main(r)] + 1]
    /\ doing' = [doing EXCEPT ![Main(r)] = "awaiting", ![Worker(r)] = "down"]
    /\ UNCHANGED <<chain, crashed, writeVars, callVars>>

(* close(done).                                                            *)
WorkerDone(r) ==
    /\ Is(Worker(r), "respond", "up")
    /\ Go(Worker(r), at[Worker(r)], "done")
    /\ UNCHANGED <<writeVars, callVars>>

(* The two arms of the select.                                             *)
SeeDone(r) ==
    /\ Is(Main(r), "respond", "awaiting") /\ doing[Worker(r)] = "done"
    /\ Return(Main(r))
    /\ UNCHANGED callVars

SeeExpired(r) ==
    /\ Is(Main(r), "respond", "awaiting") /\ ctx[r] # "live"
    /\ Answer(Main(r), "late")
    /\ UNCHANGED callVars

-----------------------------------------------------------------------------
(* Bulkhead and ConcurrencyLimit.                                          *)

Acquire(t) ==
    /\ Is(t, "bulkhead", "down") /\ Cardinality(slots) < MaxConcurrent
    /\ slots' = slots \union {t}
    /\ Deeper(t)
    /\ UNCHANGED <<attempt, ctx, verdict, refusing, handled, blank>>

(* ErrBulkheadFull, or ErrBulkheadTimeout after MaxWaitDuration.           *)
Full(t) ==
    /\ Is(t, "bulkhead", "down") /\ (Patient \/ Cardinality(slots) >= MaxConcurrent)
    /\ Answer(t, "busy")
    /\ UNCHANGED callVars

(* The context ends the wait: an error the middleware does not answer.     *)
GiveUp(t) ==
    /\ Is(t, "bulkhead", "down") /\ Patient /\ ContextDone(t[1], at[t])
    /\ blank' = blank \union {t[1]}
    /\ Return(t)
    /\ UNCHANGED <<slots, attempt, ctx, verdict, refusing, handled>>

(* Mutation: release is not deferred.                                      *)
ReleaseUndeferred(t) ==
    /\ LayerOf(t) = "bulkhead" /\ doing[t] \in {"up", "panic"} /\ ~crashed
    /\ slots' = IF doing[t] = "up" THEN slots \ {t} ELSE slots
    /\ Go(t, at[t] - 1, doing[t])
    /\ UNCHANGED <<writeVars, attempt, ctx, verdict, refusing, handled, blank>>

(* release is deferred, so a panic runs it too.                            *)
Release(t) ==
    /\ LayerOf(t) = "bulkhead" /\ doing[t] \in {"up", "panic"} /\ ~crashed
    /\ slots' = slots \ {t}
    /\ Go(t, at[t] - 1, doing[t])
    /\ UNCHANGED <<writeVars, attempt, ctx, verdict, refusing, handled, blank>>

-----------------------------------------------------------------------------
(* Retry.  The sleep between two attempts does not look at the context.    *)

BeginAttempts(t) ==
    /\ Is(t, "retry", "down")
    /\ DeeperRecording(t)
    /\ attempt' = [attempt EXCEPT ![t[1]] = 0]
    /\ UNCHANGED <<slots, ctx, verdict, refusing, handled, blank>>

AttemptFailed(t) == Is(t, "retry", "up") /\ recorded[t[1]][at[t]] \in ServerErrors

StopRetrying(t) ==
    /\ Is(t, "retry", "up") /\ ~AttemptFailed(t)
    /\ Return(t)
    /\ UNCHANGED callVars

(* Mutation: one attempt too many.                                         *)
TryAgainOffByOne(t) ==
    /\ AttemptFailed(t) /\ attempt[t[1]] <= MaxRetries
    /\ DeeperRecording(t)
    /\ attempt' = [attempt EXCEPT ![t[1]] = @ + 1]
    /\ UNCHANGED <<slots, ctx, verdict, refusing, handled, blank>>

TryAgain(t) ==
    /\ AttemptFailed(t) /\ attempt[t[1]] < MaxRetries
    /\ DeeperRecording(t)
    /\ attempt' = [attempt EXCEPT ![t[1]] = @ + 1]
    /\ UNCHANGED <<slots, ctx, verdict, refusing, handled, blank>>

Exhausted(t) ==
    /\ AttemptFailed(t) /\ attempt[t[1]] = MaxRetries
    /\ Answer(t, "busy")
    /\ UNCHANGED callVars

-----------------------------------------------------------------------------
Init ==
    /\ chain \in Chains
    /\ at = [t \in Threads |-> 0]
    /\ doing = [t \in Threads |-> "idle"]
    /\ code = [t \in Threads |-> "none"]
    /\ passes = [t \in Threads |-> FALSE]
    /\ recorded = [r \in Requests |-> [i \in 1 .. Depth |-> "none"]]
    /\ client = [r \in Requests |-> "none"]
    /\ slots = {}
    /\ attempt = [r \in Requests |-> 0]
    /\ ctx = [r \in Requests |-> "live"]
    /\ verdict = [r \in Requests |-> "none"]
    /\ refusing = FALSE
    /\ handled = {} /\ blank = {}
    /\ crashed = FALSE

HandlerStep(t) ==
    \/ HandlerAnswers(t) \/ HandlerReturns(t) \/ HandlerPanics(t)
    \/ Unwind(t) \/ Recover(t) \/ Crash(t)

LayerStep(t) ==
    \/ Refused(t) \/ Admitted(t) \/ Judged(t)
    \/ Pass(t) \/ PassBack(t) \/ TooMany(t)
    \/ Acquire(t) \/ Full(t) \/ GiveUp(t) \/ Release(t)
    \/ BeginAttempts(t) \/ StopRetrying(t) \/ TryAgain(t) \/ Exhausted(t)

RequestStep(r) ==
    \/ Arrive(r) \/ Finish(r) \/ ClientLeaves(r) \/ Expire(r)
    \/ Detach(r) \/ WorkerDone(r) \/ SeeDone(r) \/ SeeExpired(r)

Next ==
    \/ \E t \in Threads : HandlerStep(t) \/ LayerStep(t) \/ Write(t)
    \/ \E r \in Requests : RequestStep(r)

Spec == Init /\ [][Next]_vars

-----------------------------------------------------------------------------
(* Properties.                                                             *)

Contains(layer) == \E i \in DOMAIN chain : chain[i] = layer

IsAbove(layer, other) ==
    \E i, j \in DOMAIN chain : i < j /\ chain[i] = layer /\ chain[j] = other

(* The goroutine of a request that passes the bulkhead.                    *)
Passes(t) == t[2] = IF IsAbove("respond", "bulkhead") THEN "worker" ELSE "main"

Below(t, layer) ==
    /\ doing[t] \notin {"idle", "done", "dropped"}
    /\ \E i \in DOMAIN chain :
         /\ chain[i] = layer
         /\ at[t] > i \/ (at[t] = i /\ doing[t] \in {"up", "panic"})

(* "Bulkhead returns middleware that limits concurrent requests."          *)
(* (middleware.go:132): a token is held by exactly the goroutines between  *)
(* acquire and release, through retries, timeouts, clients that leave and  *)
(* panics; so no more than MaxConcurrent handlers run at once, unless      *)
(* TimeoutWithResponse below the bulkhead runs them on goroutines of its   *)
(* own.                                                                    *)
HandlersAreBounded ==
    /\ slots = {t \in Threads : Passes(t) /\ Below(t, "bulkhead")}
    /\ Cardinality(slots) <= MaxConcurrent
    /\ Contains("bulkhead") /\ ~IsAbove("bulkhead", "respond") =>
         Cardinality({t \in Threads : AtHandler(t)}) <= MaxConcurrent

(* A breaker that is the outermost layer judges every admitted request     *)
(* whose handler did not panic, and counts it as failed just if the client *)
(* is told of a server error - also when Retry below it has been through   *)
(* several answers (CircuitBreaker 50-60, WriteHeader 191-197).            *)
VerdictMatchesClient ==
    \A r \in Requests :
        chain # <<>> /\ chain[1] = "breaker" /\ ~Contains("respond")
          /\ doing[Main(r)] = "done" =>
            /\ verdict[r] = "failure" => client[r] \in ServerErrors
            /\ verdict[r] = "success" => client[r] \notin ServerErrors
            /\ verdict[r] # "admitted"

(* A request that no handler has dealt with is never answered 200, except  *)
(* in one way: its context ended while it waited for the bulkhead, and     *)
(* Bulkhead writes nothing for that error (lines 142-147).                 *)
SuccessIsEarned ==
    \A r \in Requests :
        ~Contains("respond") /\ client[r] = "ok" => r \in handled \union blank
=============================================================================
