---------------------------- MODULE ExecutorProofs ----------------------------
(***************************************************************************)
(* Theorems of Executor, for any number of requests, any stack of layers   *)
(* and any number of retries.                                              *)
(***************************************************************************)
EXTENDS Executor, FiniteSetTheorems, TLAPS

(* The calls that the breaker has not recorded, in flight or lost to a     *)
(* panic.                                                                  *)
Unrecorded == {"running", "hung", "fallingback", "panicked"}

Open == {r \in Requests : wpc[r] \in Unrecorded}

(* What is known of one request.                                           *)
RequestInv(r) ==
    /\ cpc[r] \in {"new", "queued"} => wpc[r] = "none"
    /\ cpc[r] \in {"new", "queued", "selecting"} => answer[r] = "none"
    /\ wpc[r] \in {"none", "limiting"} => tries[r] = 0
    /\ wpc[r] \in {"calling", "pausing"} => tries[r] <= MaxRetries
    /\ wpc[r] \notin {"returning", "ended"} => result[r] = "none"
    /\ answer[r] = "error" =>
         \/ done[r] \/ wpc[r] = "none"
         \/ wpc[r] = "ended" /\ result[r] = "error"

IInv == TypeOK /\ (\A r \in Requests : RequestInv(r)) /\ AdmittedAreSettled

LEMMA OpenFinite == IsFiniteSet(Open) /\ Cardinality(Open) \in Nat
BY BoundsAssumption, FS_Subset, FS_CardinalityType DEF Open

LEMMA DisjointUnion ==
    ASSUME NEW F \in SUBSET Requests, NEW P \in SUBSET Requests, F \intersect P = {}
    PROVE  Cardinality(F \union P) = Cardinality(F) + Cardinality(P)
<1>1. IsFiniteSet(F) /\ IsFiniteSet(P)
  BY BoundsAssumption, FS_Subset
<1>2. Cardinality(F) \in Nat /\ Cardinality(P) \in Nat
  BY <1>1, FS_CardinalityType
<1>3. Cardinality(F \union P) = Cardinality(F) + Cardinality(P) - Cardinality(F \intersect P)
  BY <1>1, FS_Union
<1> QED
  BY <1>2, <1>3, FS_EmptySet

LEMMA SettledUnfolded ==
    /\ AdmittedAreSettled <=> (Has("breaker") => admitted - settled = Cardinality(Open))
    /\ AdmittedAreSettled' <=>
         (Has("breaker")' => admitted' - settled' = Cardinality(Open'))
<1>1. /\ Open = Flying \union Panicked
      /\ Flying \in SUBSET Requests /\ Panicked \in SUBSET Requests
      /\ Flying \intersect Panicked = {}
  BY DEF Open, Unrecorded, Flying, Panicked
<1>2. /\ Open' = Flying' \union Panicked'
      /\ Flying' \in SUBSET Requests /\ Panicked' \in SUBSET Requests
      /\ Flying' \intersect Panicked' = {}
  BY DEF Open, Unrecorded, Flying, Panicked
<1>3. Cardinality(Open) = Cardinality(Flying) + Cardinality(Panicked)
  BY <1>1, DisjointUnion
<1>4. Cardinality(Open') = Cardinality(Flying') + Cardinality(Panicked')
  BY <1>2, DisjointUnion
<1> QED
  BY <1>3, <1>4 DEF AdmittedAreSettled

(* What one worker's move does to the number of calls in flight.           *)
LEMMA MoveCounts ==
    ASSUME TypeOK, NEW r \in Requests, NEW to, wpc' = [wpc EXCEPT ![r] = to]
    PROVE  Cardinality(Open') =
             IF wpc[r] \in Unrecorded
             THEN IF to \in Unrecorded THEN Cardinality(Open) ELSE Cardinality(Open) - 1
             ELSE IF to \in Unrecorded THEN Cardinality(Open) + 1 ELSE Cardinality(Open)
<1>1. wpc' = [wpc EXCEPT ![r] = to] /\ r \in DOMAIN wpc /\ \A q \in Requests : q \in DOMAIN wpc
  BY DEF TypeOK
<1>2. r \in Open <=> wpc[r] \in Unrecorded
  BY DEF Open
<1>3. CASE (wpc[r] \in Unrecorded) <=> (to \in Unrecorded)
  <2>1. Open' = Open
    BY <1>1, <1>3 DEF Open
  <2> QED
    BY <1>3, <2>1
<1>4. CASE wpc[r] \in Unrecorded /\ to \notin Unrecorded
  <2>1. Open' = Open \ {r}
    BY <1>1, <1>4 DEF Open
  <2> QED
    BY <1>2, <1>4, <2>1, OpenFinite, FS_RemoveElement
<1>5. CASE wpc[r] \notin Unrecorded /\ to \in Unrecorded
  <2>1. Open' = Open \union {r}
    BY <1>1, <1>5 DEF Open
  <2> QED
    BY <1>2, <1>5, <2>1, OpenFinite, FS_AddElement
<1> QED
  BY <1>3, <1>4, <1>5

LEMMA InitInv == Init => IInv
<1> SUFFICES ASSUME Init PROVE IInv
  OBVIOUS
<1>1. TypeOK
  <2>1. 0 \in 0 .. MaxRetries + 1 /\ 0 \in 0 .. 0 /\ 0 \in Nat
    BY BoundsAssumption
  <2>2. tries \in [Requests -> 0 .. MaxRetries + 1]
    BY <2>1 DEF Init
  <2>3. /\ cpc \in [Requests -> CallerPlaces]
        /\ wpc \in [Requests -> WorkerPlaces]
    BY DEF Init, CallerPlaces, WorkerPlaces
  <2>4. result \in [Requests -> Verdicts] /\ answer \in [Requests -> Verdicts]
    BY DEF Init, Verdicts
  <2> QED
    BY <2>1, <2>2, <2>3, <2>4 DEF Init, TypeOK
<1>2. \A r \in Requests : RequestInv(r)
  BY BoundsAssumption DEF Init, RequestInv
<1>3. Open = {}
  BY DEF Init, Open, Unrecorded
<1> QED
  BY <1>1, <1>2, <1>3, FS_EmptySet, SettledUnfolded DEF Init, IInv

(* The breaker is not called, and the worker's move, if it makes one, is   *)
(* not one into or out of a call.                                          *)
LEMMA QuietSettled ==
    ASSUME IInv, UNCHANGED <<stack, breaker>>, UNCHANGED wpc
    PROVE  AdmittedAreSettled'
<1>1. Open' = Open
  BY DEF Open
<1> QED
  BY <1>1, SettledUnfolded DEF IInv, Has, breaker

LEMMA QuietMove ==
    ASSUME IInv, UNCHANGED <<stack, breaker>>, NEW r \in Requests, NEW to,
           wpc' = [wpc EXCEPT ![r] = to], (wpc[r] \in Unrecorded) <=> (to \in Unrecorded)
    PROVE  AdmittedAreSettled'
<1>1. Cardinality(Open') = Cardinality(Open)
  BY MoveCounts DEF IInv
<1> QED
  BY <1>1, SettledUnfolded DEF IInv, Has, breaker

(* What the caller does.                                                   *)
LEMMA CallerInv ==
    ASSUME IInv, NEW r \in Requests, Arrive(r) \/ CallerStep(r) \/ ContextDone(r)
    PROVE  IInv'
<1>1. CASE Arrive(r)
  <2>1. TypeOK'
    BY <1>1 DEF IInv, TypeOK, Arrive, CallerGoes, breaker, CallerPlaces
  <2>2. \A q \in Requests : RequestInv(q)'
    BY <1>1 DEF IInv, TypeOK, RequestInv, Arrive, CallerGoes, breaker
  <2>3. AdmittedAreSettled'
    BY <1>1, QuietSettled DEF Arrive, CallerGoes, breaker
  <2> QED
    BY <2>1, <2>2, <2>3 DEF IInv
<1>2. CASE Begin(r)
  <2>1. TypeOK'
    BY <1>2 DEF IInv, TypeOK, Begin, CallerGoes, breaker, CallerPlaces, WorkerPlaces
  <2>2. \A q \in Requests : RequestInv(q)'
    BY <1>2 DEF IInv, TypeOK, RequestInv, Begin, CallerGoes, breaker
  <2>3. (wpc[r] \in Unrecorded) <=> ("limiting" \in Unrecorded)
    BY <1>2 DEF IInv, RequestInv, CallerGoes, Begin, Unrecorded
  <2>4. AdmittedAreSettled'
    BY <1>2, <2>3, QuietMove DEF Begin, CallerGoes, breaker
  <2> QED
    BY <2>1, <2>2, <2>4 DEF IInv
<1>3. CASE RejectedByBulkhead(r)
  <2>1. TypeOK'
    BY <1>3
    DEF IInv, TypeOK, RejectedByBulkhead, CallerGoes, breaker, Verdicts, CallerPlaces
  <2>2. \A q \in Requests : RequestInv(q)'
    BY <1>3 DEF IInv, TypeOK, RequestInv, RejectedByBulkhead, CallerGoes, breaker, Verdicts
  <2>3. AdmittedAreSettled'
    BY <1>3, QuietSettled DEF RejectedByBulkhead, CallerGoes, breaker, Verdicts
  <2> QED
    BY <2>1, <2>2, <2>3 DEF IInv
<1>4. CASE ReceiveResult(r)
  <2>1. TypeOK'
    BY <1>4 DEF IInv, TypeOK, ReceiveResult, CallerGoes, breaker, Verdicts, CallerPlaces
  <2>2. \A q \in Requests : RequestInv(q)'
    BY <1>4 DEF IInv, TypeOK, RequestInv, ReceiveResult, CallerGoes, breaker, Verdicts
  <2>3. AdmittedAreSettled'
    BY <1>4, QuietSettled DEF ReceiveResult, CallerGoes, breaker, Verdicts
  <2> QED
    BY <2>1, <2>2, <2>3 DEF IInv
<1>5. CASE TimeOut(r)
  <2>1. TypeOK'
    BY <1>5 DEF IInv, TypeOK, TimeOut, CallerGoes, breaker, Verdicts, CallerPlaces
  <2>2. \A q \in Requests : RequestInv(q)'
    BY <1>5 DEF IInv, TypeOK, RequestInv, TimeOut, CallerGoes, breaker, Verdicts
  <2>3. AdmittedAreSettled'
    BY <1>5, QuietSettled DEF TimeOut, CallerGoes, breaker, Verdicts
  <2> QED
    BY <2>1, <2>2, <2>3 DEF IInv
<1>6. CASE Leave(r)
  <2>1. TypeOK'
    BY <1>6 DEF IInv, TypeOK, Leave, CallerGoes, breaker, CallerPlaces
  <2>2. \A q \in Requests : RequestInv(q)'
    BY <1>6 DEF IInv, TypeOK, RequestInv, Leave, CallerGoes, breaker
  <2>3. AdmittedAreSettled'
    BY <1>6, QuietSettled DEF Leave, CallerGoes, breaker
  <2> QED
    BY <2>1, <2>2, <2>3 DEF IInv
<1>7. CASE ContextDone(r)
  <2>1. TypeOK'
    BY <1>7 DEF IInv, TypeOK, ContextDone, caller, breaker
  <2>2. \A q \in Requests : RequestInv(q)'
    BY <1>7 DEF IInv, TypeOK, RequestInv, ContextDone, caller, breaker
  <2>3. AdmittedAreSettled'
    BY <1>7, QuietSettled DEF ContextDone, caller, breaker
  <2> QED
    BY <2>1, <2>2, <2>3 DEF IInv
<1>8. CASE Unwind(r)
  <2>1. TypeOK'
    BY <1>8 DEF IInv, TypeOK, Unwind, CallerGoes, CallerPlaces, breaker
  <2>2. \A q \in Requests : RequestInv(q)'
    BY <1>8 DEF IInv, TypeOK, RequestInv, Unwind, CallerGoes, breaker
  <2>3. AdmittedAreSettled'
    BY <1>8, QuietSettled DEF Unwind, CallerGoes, breaker
  <2> QED
    BY <2>1, <2>2, <2>3 DEF IInv
<1> QED
  BY <1>1, <1>2, <1>3, <1>4, <1>5, <1>6, <1>7, <1>8 DEF CallerStep

(* What the worker does without the breaker.                               *)
LEMMA WorkerInv ==
    ASSUME IInv, NEW r \in Requests,
           \/ PassLimiter(r) \/ RejectedByLimiter(r) \/ RejectedByBreaker(r)
           \/ FallBack(r) \/ Hang(r) \/ Panic(r)
           \/ Pause(r) \/ GiveUp(r) \/ Retry(r) \/ StopRetrying(r) \/ Send(r)
    PROVE  IInv'
<1>1. CASE PassLimiter(r)
  <2>1. TypeOK'
    BY <1>1, BoundsAssumption
    DEF IInv, TypeOK, RequestInv, PassLimiter, WorkerGoes, caller, breaker, WorkerPlaces
  <2>2. \A q \in Requests : RequestInv(q)'
    BY <1>1, BoundsAssumption
    DEF IInv, TypeOK, RequestInv, PassLimiter, WorkerGoes, caller, breaker
  <2>3. (wpc[r] \in Unrecorded) <=> ("calling" \in Unrecorded)
    BY <1>1 DEF PassLimiter, WorkerGoes, Unrecorded
  <2>4. AdmittedAreSettled'
    BY <1>1, <2>3, QuietMove DEF PassLimiter, WorkerGoes, breaker
  <2> QED
    BY <2>1, <2>2, <2>4 DEF IInv
<1>2. CASE RejectedByLimiter(r)
  <2>1. TypeOK'
    BY <1>2, BoundsAssumption
    DEF IInv, TypeOK, RequestInv, RejectedByLimiter, WorkerGoes, caller, breaker,
        Verdicts, WorkerPlaces
  <2>2. \A q \in Requests : RequestInv(q)'
    BY <1>2, BoundsAssumption
    DEF IInv, TypeOK, RequestInv, RejectedByLimiter, WorkerGoes, caller, breaker
  <2>3. (wpc[r] \in Unrecorded) <=> ("returning" \in Unrecorded)
    BY <1>2 DEF RejectedByLimiter, WorkerGoes, Unrecorded
  <2>4. AdmittedAreSettled'
    BY <1>2, <2>3, QuietMove DEF RejectedByLimiter, WorkerGoes, breaker
  <2> QED
    BY <2>1, <2>2, <2>4 DEF IInv
<1>3. CASE RejectedByBreaker(r)
  <2>1. TypeOK'
    BY <1>3, BoundsAssumption
    DEF IInv, TypeOK, RequestInv, RejectedByBreaker, WorkerGoes, caller, breaker,
        WorkerPlaces
  <2>2. \A q \in Requests : RequestInv(q)'
    BY <1>3, BoundsAssumption
    DEF IInv, TypeOK, RequestInv, RejectedByBreaker, WorkerGoes, caller, breaker
  <2>3. (wpc[r] \in Unrecorded) <=> ("failed" \in Unrecorded)
    BY <1>3 DEF RejectedByBreaker, WorkerGoes, Unrecorded
  <2>4. AdmittedAreSettled'
    BY <1>3, <2>3, QuietMove DEF RejectedByBreaker, WorkerGoes, breaker
  <2> QED
    BY <2>1, <2>2, <2>4 DEF IInv
<1>4. CASE FallBack(r)
  <2>1. TypeOK'
    BY <1>4, BoundsAssumption
    DEF IInv, TypeOK, RequestInv, FallBack, WorkerGoes, caller, breaker, WorkerPlaces
  <2>2. \A q \in Requests : RequestInv(q)'
    BY <1>4, BoundsAssumption
    DEF IInv, TypeOK, RequestInv, FallBack, WorkerGoes, caller, breaker
  <2>3. (wpc[r] \in Unrecorded) <=> ("fallingback" \in Unrecorded)
    BY <1>4 DEF FallBack, WorkerGoes, Unrecorded
  <2>4. AdmittedAreSettled'
    BY <1>4, <2>3, QuietMove DEF FallBack, WorkerGoes, breaker
  <2> QED
    BY <2>1, <2>2, <2>4 DEF IInv
<1>5. CASE Hang(r)
  <2>1. TypeOK'
    BY <1>5, BoundsAssumption
    DEF IInv, TypeOK, RequestInv, Hang, WorkerGoes, caller, breaker, WorkerPlaces
  <2>2. \A q \in Requests : RequestInv(q)'
    BY <1>5, BoundsAssumption
    DEF IInv, TypeOK, RequestInv, Hang, WorkerGoes, caller, breaker
  <2>3. (wpc[r] \in Unrecorded) <=> ("hung" \in Unrecorded)
    BY <1>5 DEF Hang, WorkerGoes, Unrecorded
  <2>4. AdmittedAreSettled'
    BY <1>5, <2>3, QuietMove DEF Hang, WorkerGoes, breaker
  <2> QED
    BY <2>1, <2>2, <2>4 DEF IInv
<1>6. CASE Pause(r)
  <2>1. TypeOK'
    BY <1>6, BoundsAssumption
    DEF IInv, TypeOK, RequestInv, Pause, WorkerGoes, caller, breaker, WorkerPlaces
  <2>2. \A q \in Requests : RequestInv(q)'
    BY <1>6, BoundsAssumption
    DEF IInv, TypeOK, RequestInv, Pause, WorkerGoes, caller, breaker
  <2>3. (wpc[r] \in Unrecorded) <=> ("pausing" \in Unrecorded)
    BY <1>6 DEF Pause, WorkerGoes, Unrecorded
  <2>4. AdmittedAreSettled'
    BY <1>6, <2>3, QuietMove DEF Pause, WorkerGoes, breaker
  <2> QED
    BY <2>1, <2>2, <2>4 DEF IInv
<1>7. CASE GiveUp(r)
  <2>1. TypeOK'
    BY <1>7, BoundsAssumption
    DEF IInv, TypeOK, RequestInv, GiveUp, WorkerGoes, caller, breaker, Verdicts,
        WorkerPlaces
  <2>2. \A q \in Requests : RequestInv(q)'
    BY <1>7, BoundsAssumption
    DEF IInv, TypeOK, RequestInv, GiveUp, WorkerGoes, caller, breaker
  <2>3. (wpc[r] \in Unrecorded) <=> ("returning" \in Unrecorded)
    BY <1>7 DEF GiveUp, WorkerGoes, Unrecorded
  <2>4. AdmittedAreSettled'
    BY <1>7, <2>3, QuietMove DEF GiveUp, WorkerGoes, breaker
  <2> QED
    BY <2>1, <2>2, <2>4 DEF IInv
<1>8. CASE Retry(r)
  <2>1. TypeOK'
    BY <1>8, BoundsAssumption
    DEF IInv, TypeOK, RequestInv, Retry, WorkerGoes, caller, breaker, WorkerPlaces
  <2>2. \A q \in Requests : RequestInv(q)'
    BY <1>8, BoundsAssumption
    DEF IInv, TypeOK, RequestInv, Retry, WorkerGoes, caller, breaker
  <2>3. (wpc[r] \in Unrecorded) <=> ("calling" \in Unrecorded)
    BY <1>8 DEF Retry, WorkerGoes, Unrecorded
  <2>4. AdmittedAreSettled'
    BY <1>8, <2>3, QuietMove DEF Retry, WorkerGoes, breaker
  <2> QED
    BY <2>1, <2>2, <2>4 DEF IInv
<1>9. CASE StopRetrying(r)
  <2>1. TypeOK'
    BY <1>9, BoundsAssumption
    DEF IInv, TypeOK, RequestInv, StopRetrying, WorkerGoes, caller, breaker, Verdicts,
        WorkerPlaces
  <2>2. \A q \in Requests : RequestInv(q)'
    BY <1>9, BoundsAssumption
    DEF IInv, TypeOK, RequestInv, StopRetrying, WorkerGoes, caller, breaker
  <2>3. (wpc[r] \in Unrecorded) <=> ("returning" \in Unrecorded)
    BY <1>9 DEF StopRetrying, WorkerGoes, Unrecorded
  <2>4. AdmittedAreSettled'
    BY <1>9, <2>3, QuietMove DEF StopRetrying, WorkerGoes, breaker
  <2> QED
    BY <2>1, <2>2, <2>4 DEF IInv
<1>10. CASE Send(r)
  <2>1. TypeOK'
    BY <1>10, BoundsAssumption
    DEF IInv, TypeOK, RequestInv, Send, WorkerGoes, caller, breaker, WorkerPlaces
  <2>2. \A q \in Requests : RequestInv(q)'
    BY <1>10, BoundsAssumption
    DEF IInv, TypeOK, RequestInv, Send, WorkerGoes, caller, breaker
  <2>3. (wpc[r] \in Unrecorded) <=> ("ended" \in Unrecorded)
    BY <1>10 DEF Send, WorkerGoes, Unrecorded
  <2>4. AdmittedAreSettled'
    BY <1>10, <2>3, QuietMove DEF Send, WorkerGoes, breaker
  <2> QED
    BY <2>1, <2>2, <2>4 DEF IInv
<1>11. CASE Panic(r)
  <2>1. PICK from \in {"running", "fallingback"} : WorkerGoes(r, from, "panicked")
    BY <1>11 DEF Panic
  <2>2. TypeOK'
    BY <1>11, <2>1 DEF IInv, TypeOK, Panic, WorkerGoes, WorkerPlaces, caller, breaker
  <2>3. \A q \in Requests : RequestInv(q)'
    BY <1>11, <2>1 DEF IInv, TypeOK, RequestInv, Panic, WorkerGoes, caller, breaker
  <2>4. (wpc[r] \in Unrecorded) <=> ("panicked" \in Unrecorded)
    BY <2>1 DEF WorkerGoes, Unrecorded
  <2>5. AdmittedAreSettled'
    BY <1>11, <2>1, <2>4, QuietMove DEF Panic, WorkerGoes, breaker
  <2> QED
    BY <2>2, <2>3, <2>5 DEF IInv
<1> QED
  BY <1>1, <1>2, <1>3, <1>4, <1>5, <1>6, <1>7, <1>8, <1>9, <1>10, <1>11

(* The breaker admits the call.                                            *)
LEMMA CallInv == ASSUME IInv, NEW r \in Requests, Call(r) PROVE IInv'
<1>1. TypeOK'
  BY BoundsAssumption DEF IInv, TypeOK, RequestInv, Call, WorkerGoes, caller, WorkerPlaces
<1>2. \A q \in Requests : RequestInv(q)'
  BY BoundsAssumption DEF IInv, TypeOK, RequestInv, Call, WorkerGoes, caller
<1>3. Cardinality(Open') = Cardinality(Open) + 1
  BY MoveCounts DEF IInv, Call, WorkerGoes, Unrecorded
<1>4. AdmittedAreSettled'
  BY <1>3, OpenFinite, SettledUnfolded DEF IInv, TypeOK, Call, WorkerGoes, Has
<1> QED
  BY <1>1, <1>2, <1>4 DEF IInv

(* The breaker records the call; failed says how it has ended.             *)
LEMMA RecordInv ==
    ASSUME IInv, NEW r \in Requests, NEW from \in {"running", "fallingback"},
           Succeed(r, from) \/ Fail(r, from)
    PROVE  IInv'
<1>1. Record(r)
  BY DEF Succeed, Fail
<1>2. tripped' \in BOOLEAN
  BY <1>1 DEF Record, Verdict, IInv, TypeOK
<1>3. wpc[r] = from /\ from \in Unrecorded
  BY DEF Succeed, Fail, WorkerGoes, Unrecorded
<1>4. r \in Open
  BY <1>3 DEF Open
<1>5. Cardinality(Open) > 0
  BY <1>4, OpenFinite, FS_EmptySet
<1>6. /\ admitted' = admitted /\ admitted \in Nat /\ settled \in 0 .. admitted
      /\ settled' = IF Has("breaker") THEN settled + 1 ELSE settled
  BY <1>1 DEF Record, IInv, TypeOK
<1>7. settled' \in 0 .. admitted'
  BY <1>5, <1>6, OpenFinite, SettledUnfolded DEF IInv
<1>8. TypeOK'
  BY <1>2, <1>6, <1>7
  DEF IInv, TypeOK, Succeed, Fail, WorkerGoes, caller, Verdicts, WorkerPlaces
<1>9. \A q \in Requests : RequestInv(q)'
  <2>1. CASE Succeed(r, from)
    BY <2>1 DEF IInv, TypeOK, RequestInv, Succeed, WorkerGoes, caller
  <2>2. CASE Fail(r, from)
    BY <2>2 DEF IInv, TypeOK, RequestInv, Fail, WorkerGoes, caller
  <2> QED
    BY <2>1, <2>2
<1>10. Cardinality(Open') = Cardinality(Open) - 1
  <2>1. PICK to \in {"returning", "failed"} : wpc' = [wpc EXCEPT ![r] = to]
    BY DEF Succeed, Fail, WorkerGoes
  <2> QED
    BY <1>3, <2>1, MoveCounts DEF IInv, Unrecorded
<1>11. stack' = stack
  BY DEF Succeed, Fail, WorkerGoes, caller
<1>12. AdmittedAreSettled'
  BY <1>6, <1>10, <1>11, OpenFinite, SettledUnfolded DEF IInv, Has
<1> QED
  BY <1>8, <1>9, <1>12 DEF IInv

LEMMA NextInv == IInv /\ [Next]_vars => IInv'
<1>1. ASSUME IInv, UNCHANGED vars PROVE IInv'
  BY <1>1, SettledUnfolded
  DEF vars, caller, breaker, IInv, TypeOK, RequestInv, Has, Open
<1>2. ASSUME IInv, NEW r \in Requests, WorkerStep(r) PROVE IInv'
  BY <1>2, WorkerInv, CallInv, RecordInv
  DEF WorkerStep, FnReturns, FnSucceeds, FnFails, FallbackReturns
<1> QED
  BY <1>1, <1>2, CallerInv DEF Next

-----------------------------------------------------------------------------
(* IInv is an invariant.                                                   *)
THEOREM Invariance == Spec => []IInv
BY InitInv, NextInv, PTL DEF Spec

(* The types; with them, no request calls fn more than MaxRetries + 1      *)
(* times, whatever the breaker refuses in between (backoff.go 199-230).    *)
THEOREM TypeCorrectness == Spec => []TypeOK
<1>1. IInv => TypeOK
  BY DEF IInv
<1> QED
  BY <1>1, Invariance, PTL

(* timeout.Execute drops the result of an operation that has succeeded     *)
(* only when the context is done (timeout.go 81-92).                       *)
THEOREM VerdictSafety == Spec => []ErrorOnlyIfDone
<1>1. IInv => ErrorOnlyIfDone
  BY DEF IInv, RequestInv, ErrorOnlyIfDone
<1> QED
  BY <1>1, Invariance, PTL

(* However many requests have timed out, been tried again or ended in a    *)
(* panic, each call that the breaker has admitted is in flight, recorded   *)
(* once, or lost for good, and lost only to a panic of fn or the fallback  *)
(* (executor.go 128-160, breaker.go 165-169).                              *)
THEOREM RecordSafety == Spec => []AdmittedAreSettled
<1>1. IInv => AdmittedAreSettled
  BY DEF IInv
<1> QED
  BY <1>1, Invariance, PTL

-----------------------------------------------------------------------------
(* The bulkhead of a stack.                                                *)

LEMMA InBulkheadFinite == IsFiniteSet(InBulkhead) /\ Cardinality(InBulkhead) \in Nat
BY BoundsAssumption, FS_Subset, FS_CardinalityType DEF InBulkhead

LEMMA StackIsFixed == [Next]_vars => stack' = stack
BY
DEF Next, vars, Arrive, ContextDone, CallerStep, Begin, RejectedByBulkhead, ReceiveResult,
   TimeOut, Leave, Unwind, WorkerStep, PassLimiter, RejectedByLimiter, Call,
   RejectedByBreaker, FnReturns,
   FnSucceeds, FnFails, FallBack, FallbackReturns, Hang, Panic, Pause, GiveUp, Retry,
   StopRetrying,
   Send,    Succeed, Fail, WorkerGoes

(* A caller enters the pool when it begins, leaves it when it leaves, and  *)
(* does nothing to it otherwise.                                           *)
LEMMA PoolStep ==
    ASSUME TypeOK, Has("bulkhead"), [Next]_vars
    PROVE  \/ \E r \in Requests : HasSlot /\ InBulkhead' = InBulkhead \union {r}
           \/ \E r \in Requests : InBulkhead' = InBulkhead \ {r}
           \/ InBulkhead' = InBulkhead
<1> USE DEF InBulkhead, CallerGoes
<1>1. cpc \in [Requests -> CallerPlaces]
  BY DEF TypeOK
<1>2. ASSUME NEW r \in Requests, Begin(r)
      PROVE  HasSlot /\ InBulkhead' = InBulkhead \union {r}
  BY <1>1, <1>2 DEF Begin
<1>3. ASSUME NEW r \in Requests, Leave(r) \/ Unwind(r)
      PROVE  InBulkhead' = InBulkhead \ {r}
  BY <1>1, <1>3 DEF Leave, Unwind
<1>4. ASSUME NEW r \in Requests, \/ Arrive(r) \/ RejectedByBulkhead(r)
                                \/ ReceiveResult(r) \/ TimeOut(r)
      PROVE  InBulkhead' = InBulkhead
  BY <1>1, <1>4 DEF Arrive, RejectedByBulkhead, ReceiveResult, TimeOut
<1>5. ASSUME NEW r \in Requests, ContextDone(r) \/ WorkerStep(r)
      PROVE  InBulkhead' = InBulkhead
  <2>1. cpc' = cpc
    BY <1>5
    DEF ContextDone, WorkerStep, PassLimiter, RejectedByLimiter, Call, RejectedByBreaker,
       FnReturns, FnSucceeds, FnFails, FallBack, FallbackReturns, Hang, Panic, Pause,
       GiveUp, Retry,
       StopRetrying, Send, Succeed, Fail, WorkerGoes, caller
  <2> QED
    BY <2>1
<1>6. CASE UNCHANGED vars
  BY <1>6 DEF vars
<1> QED
  BY <1>2, <1>3, <1>4, <1>5, <1>6 DEF Next, CallerStep

(* Without a timeout layer the caller waits for its worker to the end.     *)
Attended(r) == wpc[r] \notin {"none", "ended", "panicked"} => cpc[r] = "selecting"

Working == {r \in Requests : wpc[r] \in {"calling", "running", "hung", "fallingback",
                                         "failed", "pausing"}}

LEMMA AttendedStep ==
    ASSUME IInv, ~Has("timeout"), \A r \in Requests : Attended(r), [Next]_vars
    PROVE  \A r \in Requests : Attended(r)'
<1> USE DEF Attended, CallerGoes, WorkerGoes, caller
<1>1. /\ cpc \in [Requests -> CallerPlaces]
      /\ wpc \in [Requests -> WorkerPlaces]
  BY DEF IInv, TypeOK
<1>2. ASSUME NEW r \in Requests, \/ Arrive(r) \/ Begin(r) \/ RejectedByBulkhead(r)
                                \/ ReceiveResult(r) \/ TimeOut(r) \/ Leave(r) \/ Unwind(r)
                                \/ ContextDone(r)
      PROVE  \A q \in Requests : Attended(q)'
  BY <1>1, <1>2
  DEF Arrive, Begin, RejectedByBulkhead, ReceiveResult, TimeOut, Leave, Unwind, ContextDone
<1>3. ASSUME NEW r \in Requests, WorkerStep(r) PROVE \A q \in Requests : Attended(q)'
  <2>1. /\ cpc' = cpc /\ wpc[r] \notin {"none", "ended", "panicked"}
        /\ \E to : wpc' = [wpc EXCEPT ![r] = to]
    BY <1>3
    DEF WorkerStep, PassLimiter, RejectedByLimiter, Call, RejectedByBreaker, FnReturns,
       FnSucceeds, FnFails, FallBack, FallbackReturns, Hang, Panic, Pause, GiveUp, Retry,
       StopRetrying,
       Send, Succeed, Fail
  <2> QED
    BY <1>1, <2>1
<1>4. CASE UNCHANGED vars
  BY <1>4 DEF vars
<1> QED
  BY <1>2, <1>3, <1>4 DEF Next, CallerStep

(* The bound as a state predicate, and that it holds to begin with.        *)
BulkheadHolds == Cardinality(InBulkhead) <= MaxConcurrent

LEMMA EmptyBulkhead == Init => InBulkhead = {} /\ BulkheadHolds
<1> SUFFICES ASSUME Init PROVE InBulkhead = {} /\ BulkheadHolds
  OBVIOUS
<1>1. InBulkhead = {}
  BY DEF Init, InBulkhead
<1> QED
  BY <1>1, FS_EmptySet, BoundsAssumption DEF BulkheadHolds

LEMMA BulkheadStep ==
    ASSUME TypeOK, Has("bulkhead"), BulkheadHolds, [Next]_vars
    PROVE  BulkheadHolds'
<1>1. CASE InBulkhead' = InBulkhead
  BY <1>1 DEF BulkheadHolds
<1>2. ASSUME NEW r \in Requests, HasSlot /\ InBulkhead' = InBulkhead \union {r}
      PROVE  BulkheadHolds'
  <2>1. Cardinality(InBulkhead') \in {Cardinality(InBulkhead), Cardinality(InBulkhead) + 1}
    BY <1>2, InBulkheadFinite, FS_AddElement
  <2> QED
    BY <1>2, <2>1, InBulkheadFinite, BoundsAssumption DEF BulkheadHolds, HasSlot
<1>3. ASSUME NEW r \in Requests, InBulkhead' = InBulkhead \ {r} PROVE BulkheadHolds'
  <2>1. Cardinality(InBulkhead') \in {Cardinality(InBulkhead), Cardinality(InBulkhead) - 1}
    BY <1>3, InBulkheadFinite, FS_RemoveElement
  <2> QED
    BY <2>1, InBulkheadFinite, BoundsAssumption DEF BulkheadHolds
<1> QED
  BY <1>1, <1>2, <1>3, PoolStep

(* Without a timeout layer the bulkhead bounds the actual work, as         *)
(* docs/guide.md (30) says: at most MaxConcurrent requests are about to    *)
(* call fn, inside it or between two calls of it, though fn may panic and  *)
(* the slot comes back by the deferred release alone.  With a timeout      *)
(* layer the worker is detached from the slot and there is no such bound.  *)
THEOREM WorkBounded ==
    Spec /\ Has("bulkhead") /\ ~Has("timeout") => [](Cardinality(Working) <= MaxConcurrent)
<1> DEFINE J == /\ Has("bulkhead") /\ ~Has("timeout") /\ BulkheadHolds
                /\ \A r \in Requests : Attended(r)
<1>1. Init /\ Has("bulkhead") /\ ~Has("timeout") => J
  BY EmptyBulkhead DEF Init, Attended
<1>2. IInv /\ J /\ [Next]_vars => J'
  BY StackIsFixed, BulkheadStep, AttendedStep DEF IInv, Has
<1>3. J => Cardinality(Working) <= MaxConcurrent
  <2> SUFFICES ASSUME J PROVE Cardinality(Working) <= MaxConcurrent
    OBVIOUS
  <2>1. Working \subseteq InBulkhead
    BY DEF Working, InBulkhead, Attended
  <2>2. Cardinality(Working) <= Cardinality(InBulkhead) /\ Cardinality(Working) \in Nat
    BY <2>1, InBulkheadFinite, FS_Subset, FS_CardinalityType
  <2> QED
    BY <2>2, InBulkheadFinite, BoundsAssumption DEF BulkheadHolds
<1> HIDE DEF J
<1> QED
  BY Invariance, <1>1, <1>2, <1>3, PTL DEF Spec
=============================================================================
