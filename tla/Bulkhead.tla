------------------------------- MODULE Bulkhead -------------------------------
(***************************************************************************)
(* internal/bulkhead/bulkhead.go: one Bulkhead shared by the goroutines    *)
(* that call Execute.  The semaphore (a buffered channel) and the counters *)
(* (under mutex) are two separate things, and a call touches them in       *)
(* separate steps, on its way in and on its way out.                       *)
(*                                                                         *)
(* When several arms of acquire's select are ready Go takes any of them.   *)
(* When several callers wait any of them may get the slot (the runtime     *)
(* serves them in order: a stronger promise than used here).  Errors are   *)
(* not told apart, and OnCallRejected is user code on its own goroutine.   *)
(***************************************************************************)
EXTENDS Integers, FiniteSets

CONSTANTS
    Callers,    \* goroutines that call Execute
    Configs,    \* the configurations that New may be given
    Word64      \* modulus of uint64

ASSUME CallersAssumption == IsFiniteSet(Callers)

ASSUME ConfigAssumption == Configs \subseteq [MaxConcurrent : Int, MaxWaitDuration : Int]

ASSUME Word64Assumption == Word64 \in Nat /\ Word64 > 0

VARIABLES
    config,         \* never changes
    semaphore,      \* len(b.semaphore): how many tokens the channel holds
    activeCount,    \* the counters, under mutex
    totalCalls, totalRejected, totalCompleted,
    pc              \* where each caller is in Execute

counters == <<activeCount, totalCalls, totalRejected, totalCompleted>>
vars == <<config, semaphore, counters, pc>>

(* New replaces a MaxConcurrent that is not positive.                      *)
Capacity == IF config.MaxConcurrent <= 0 THEN 10 ELSE config.MaxConcurrent

Waits == config.MaxWaitDuration > 0

(* idle      not in Execute                                                *)
(* waiting   in the select of the blocking acquire                         *)
(* acquired  holds a token, activeCount not yet incremented (line 83, 98)  *)
(* active    counted in activeCount, not in totalCalls                     *)
(* running   in fn                                                         *)
(* released  has given its token back, still counted in activeCount        *)
(* rejected  acquire has failed, totalRejected not yet incremented         *)
Places == {"idle", "waiting", "acquired", "active", "running", "released", "rejected"}

At(places) == {c \in Callers : pc[c] \in places}

(* The type invariant.  With it: the semaphore never holds more tokens     *)
(* than its capacity, and activeCount is never negative.                   *)
TypeOK ==
    /\ config \in Configs
    /\ semaphore \in 0 .. Capacity
    /\ activeCount \in 0 .. Cardinality(Callers)
    /\ totalCalls \in 0 .. Word64 - 1
    /\ totalRejected \in 0 .. Word64 - 1
    /\ totalCompleted \in 0 .. Word64 - 1
    /\ pc \in [Callers -> Places]

-----------------------------------------------------------------------------
Plus1(n) == (n + 1) % Word64

Goto(c, from, to) == pc[c] = from /\ pc' = [pc EXCEPT ![c] = to]

Init ==
    /\ config \in Configs
    /\ semaphore = 0 /\ activeCount = 0
    /\ totalCalls = 0 /\ totalRejected = 0 /\ totalCompleted = 0
    /\ pc = [c \in Callers |-> "idle"]

(* Mutation: the semaphore has one place too many.                         *)
SendOffByOne ==
    /\ semaphore <= Capacity
    /\ semaphore' = semaphore + 1
    /\ UNCHANGED <<config, counters>>

(* The send of acquire: it takes a place in the channel's buffer.          *)
Send ==
    /\ semaphore < Capacity
    /\ semaphore' = semaphore + 1
    /\ UNCHANGED <<config, counters>>

TryAcquire(c) == ~Waits /\ Goto(c, "idle", "acquired") /\ Send

(* Mutation: the last slot is never handed out.                            *)
BulkheadFullEarly(c) ==
    /\ ~Waits /\ semaphore >= Capacity - 1
    /\ Goto(c, "idle", "rejected")
    /\ UNCHANGED <<config, semaphore, counters>>

BulkheadFull(c) ==
    /\ ~Waits /\ semaphore = Capacity
    /\ Goto(c, "idle", "rejected")
    /\ UNCHANGED <<config, semaphore, counters>>

Wait(c) ==
    /\ Waits
    /\ Goto(c, "idle", "waiting")
    /\ UNCHANGED <<config, semaphore, counters>>

Acquire(c) == Goto(c, "waiting", "acquired") /\ Send

(* Mutation: a call that gives up releases a slot it never had.            *)
GiveUpReleasing(c) ==
    /\ Goto(c, "waiting", "rejected")
    /\ semaphore' = IF semaphore > 0 THEN semaphore - 1 ELSE 0
    /\ UNCHANGED <<config, counters>>

(* Mutation: the wait has no timer.                                        *)
GiveUpNever(c) == FALSE /\ pc[c] = "waiting" /\ UNCHANGED vars

(* The timer has fired or the context is done.                             *)
GiveUp(c) ==
    /\ Goto(c, "waiting", "rejected")
    /\ UNCHANGED <<config, semaphore, counters>>

CountActive(c) ==
    /\ Goto(c, "acquired", "active")
    /\ activeCount' = activeCount + 1
    /\ UNCHANGED <<config, semaphore, totalCalls, totalRejected, totalCompleted>>

CountCall(c) ==
    /\ Goto(c, "active", "running")
    /\ totalCalls' = Plus1(totalCalls)
    /\ UNCHANGED <<config, semaphore, activeCount, totalRejected, totalCompleted>>

(* fn returns or panics; release is deferred and receives from the channel *)
(* either way.                                                             *)
Receive(c) ==
    /\ semaphore > 0
    /\ Goto(c, "running", "released")
    /\ semaphore' = semaphore - 1
    /\ UNCHANGED <<config, counters>>

(* Mutation: release counts the completion alone.                          *)
CountCompletedAlone(c) ==
    /\ Goto(c, "released", "idle")
    /\ totalCompleted' = Plus1(totalCompleted)
    /\ UNCHANGED <<config, semaphore, activeCount, totalCalls, totalRejected>>

CountCompleted(c) ==
    /\ Goto(c, "released", "idle")
    /\ activeCount' = activeCount - 1
    /\ totalCompleted' = Plus1(totalCompleted)
    /\ UNCHANGED <<config, semaphore, totalCalls, totalRejected>>

(* Mutation: release is deferred before the error of acquire is looked at. *)
CountRejectedReleasing(c) ==
    /\ Goto(c, "rejected", "idle")
    /\ activeCount' = activeCount - 1
    /\ totalRejected' = Plus1(totalRejected)
    /\ UNCHANGED <<config, semaphore, totalCalls, totalCompleted>>

CountRejected(c) ==
    /\ Goto(c, "rejected", "idle")
    /\ totalRejected' = Plus1(totalRejected)
    /\ UNCHANGED <<config, semaphore, activeCount, totalCalls, totalCompleted>>

Arrive(c) == TryAcquire(c) \/ BulkheadFull(c) \/ Wait(c)

(* What a call that has begun does next.                                   *)
Proceed(c) ==
    \/ Acquire(c) \/ GiveUp(c)
    \/ CountActive(c) \/ CountCall(c) \/ Receive(c) \/ CountCompleted(c)
    \/ CountRejected(c)

Next == \E c \in Callers : Arrive(c) \/ Proceed(c)

Spec == Init /\ [][Next]_vars

(* The timer of a waiting call fires, fn returns, and a goroutine that is  *)
(* not blocked runs: none of its steps waits for another call.             *)
FairSpec == Spec /\ \A c \in Callers : WF_vars(Proceed(c))

-----------------------------------------------------------------------------
(* Properties.                                                             *)

(* Every token in the channel belongs to one call between its send and its *)
(* receive, so release never blocks and never takes another call's token   *)
(* (acquire 82, 98; release 111).                                          *)
TokensAreOwned == semaphore = Cardinality(At({"acquired", "active", "running"}))

(* activeCount, updated apart from the semaphore, counts the calls between *)
(* lines 85/100 and 113; so it returns to zero when the bulkhead is idle.  *)
ActiveIsAccurate ==
    activeCount = Cardinality(At({"active", "running", "released"}))

(* The counters, each updated in a step of its own, add up at every        *)
(* moment: activeCount exceeds totalCalls - totalCompleted by the calls    *)
(* that acquire has counted and Execute has not yet, and by nothing else.  *)
CountersAddUp ==
    /\ ActiveIsAccurate
    /\ (totalCalls - totalCompleted) % Word64 =
         Cardinality(At({"running", "released"})) % Word64

(* How far ActiveCount may overshoot MaxConcurrent: by the calls that have *)
(* given their token back and not yet decremented it, no more.             *)
OvershootIsReleases == activeCount <= Capacity + Cardinality(At({"released"}))

(* Every call that has begun comes to an end: acquire's timer bounds the   *)
(* wait even if no slot is ever freed, and release is never stuck.         *)
CallsEnd == \A c \in Callers : pc[c] # "idle" ~> pc[c] = "idle"

(* The bulkhead is a bounded pool: a caller is inside from its send to its *)
(* receive, refused from the failure of acquire until Execute returns.     *)
Pool == INSTANCE BoundedPool WITH
    Users <- Callers, capacity <- Capacity, patient <- Waits,
    inside <- At({"acquired", "active", "running"}), refused <- At({"rejected"})

IsBoundedPool == Pool!Spec
=============================================================================
