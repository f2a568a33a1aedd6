--------------------------- MODULE BreakerProtocol ---------------------------
(***************************************************************************)
(* What a circuit breaker promises, whatever window, locks and lazy        *)
(* transitions it is made of.  When it trips is its own affair.  Open, it  *)
(* lets nobody through until its period is over; then a trial begins, of   *)
(* at most quota slots, which no call gets back: the first failure that it *)
(* hears of ends the trial, and so do quota successes.  It turns a call    *)
(* away only when it is shut or the trial has no slot left.                *)
(***************************************************************************)
EXTENDS Integers

CONSTANTS
    Users,      \* those who call
    quota,      \* slots of a trial, and successes that it takes
    period,     \* how long the breaker stays open
    lossy       \* may a call end without a result

VARIABLES
    mode,       \* "Closed", "Open", "HalfOpen" or "ForcedOpen"
    waited,     \* since it opened, up to period
    slots,      \* handed out in this trial
    passed,     \* successes of this trial
    running,    \* calls let through that have not returned
    refused     \* calls that are being turned away

vars == <<mode, waited, slots, passed, running, refused>>

Init ==
    /\ mode = "Closed" /\ waited = 0 /\ slots = 0 /\ passed = 0
    /\ running = {} /\ refused = {}

Lapsed == mode = "Open" /\ waited >= period

(* On trial already, or as soon as somebody looks.                         *)
OnTrial == mode = "HalfOpen" \/ Lapsed

Shut == mode = "ForcedOpen" \/ (mode = "Open" /\ ~Lapsed)

Turn(to) ==
    /\ mode' = to /\ slots' = 0 /\ passed' = 0
    /\ waited' = IF to = "Open" THEN 0 ELSE waited

Wait ==
    /\ mode = "Open" /\ ~Lapsed
    /\ waited' = waited + 1
    /\ UNCHANGED <<mode, slots, passed, running, refused>>

BeginTrial == Lapsed /\ Turn("HalfOpen") /\ UNCHANGED <<running, refused>>

Order == (Turn("Closed") \/ Turn("ForcedOpen")) /\ UNCHANGED <<running, refused>>

Enters(u) ==
    /\ u \notin running \cup refused
    /\ running' = running \cup {u} /\ UNCHANGED refused

Admit(u) == mode = "Closed" /\ Enters(u) /\ UNCHANGED <<mode, waited, slots, passed>>

Probe(u) ==
    /\ OnTrial /\ slots < quota
    /\ Enters(u)
    /\ mode' = "HalfOpen" /\ slots' = slots + 1
    /\ UNCHANGED <<waited, passed>>

Refuse(u) ==
    /\ Shut \/ (mode = "HalfOpen" /\ slots = quota)
    /\ u \notin running \cup refused
    /\ refused' = refused \cup {u}
    /\ UNCHANGED <<mode, waited, slots, passed, running>>

Depart(u) ==
    /\ refused' = refused \ {u}
    /\ UNCHANGED <<mode, waited, slots, passed, running>>

Returns(u) == u \in running /\ running' = running \ {u} /\ UNCHANGED refused

(* While the breaker is closed a result may trip it; while it is shut the  *)
(* result is lost.                                                         *)
Unheard(u) ==
    /\ mode = "Closed" \/ Shut \/ lossy
    /\ Returns(u)
    /\ UNCHANGED <<mode, waited, slots, passed>>

Trip(u) == mode = "Closed" /\ Returns(u) /\ Turn("Open")

Fail(u) == OnTrial /\ Returns(u) /\ Turn("Open")

Pass(u) ==
    /\ OnTrial /\ passed + 1 < quota
    /\ Returns(u)
    /\ mode' = "HalfOpen" /\ passed' = passed + 1
    /\ UNCHANGED <<waited, slots>>

LastPass(u) == OnTrial /\ passed + 1 = quota /\ Returns(u) /\ Turn("Closed")

Next ==
    \/ Wait \/ BeginTrial \/ Order
    \/ \E u \in Users :
          \/ Admit(u) \/ Probe(u) \/ Refuse(u) \/ Depart(u)
          \/ Unheard(u) \/ Trip(u) \/ Fail(u) \/ Pass(u) \/ LastPass(u)

Spec == Init /\ [][Next]_vars
=============================================================================
