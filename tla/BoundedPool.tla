----------------------------- MODULE BoundedPool -----------------------------
(***************************************************************************)
(* What a bulkhead promises, whatever channels, locks and timers it is     *)
(* made of: at most capacity users are inside at once; an impatient pool   *)
(* turns a user away only when it is full; a user inside is never put out. *)
(***************************************************************************)
EXTENDS Integers, FiniteSets

CONSTANT Users

VARIABLES
    capacity,   \* how many may be inside: fixed when the pool is made
    patient,    \* whether a user may wait, and then give up
    inside,     \* the users inside
    refused     \* the users that are being turned away

vars == <<capacity, patient, inside, refused>>

Full == Cardinality(inside) >= capacity

Init ==
    /\ capacity \in Nat \ {0}
    /\ patient \in BOOLEAN
    /\ inside = {} /\ refused = {}

Enter(u) ==
    /\ u \notin inside \union refused
    /\ ~Full
    /\ inside' = inside \union {u}
    /\ UNCHANGED <<capacity, patient, refused>>

Refuse(u) ==
    /\ u \notin inside \union refused
    /\ patient \/ Full
    /\ refused' = refused \union {u}
    /\ UNCHANGED <<capacity, patient, inside>>

Leave(u) ==
    /\ inside' = inside \ {u} /\ refused' = refused \ {u}
    /\ UNCHANGED <<capacity, patient>>

Next == \E u \in Users : Enter(u) \/ Refuse(u) \/ Leave(u)

Spec == Init /\ [][Next]_vars

(* The bound on concurrency.                                               *)
NeverOverfull == Cardinality(inside) <= capacity
=============================================================================
