---------------------------- MODULE WatcherProofs ----------------------------
(***************************************************************************)
(* Theorems of Watcher for a watcher that is started once (MaxStarts = 1), *)
(* by any number of goroutines and with any number of edits.  The run      *)
(* WatcherRestart shows that the condition cannot be dropped.  The last    *)
(* theorem does without it.                                                *)
(***************************************************************************)
EXTENDS Watcher, TLAPS

Spawning(u) == upc[u] = "spawning"
Stopping(u) == upc[u] \in {"closing", "waiting"}

(* There is one loop, one goroutine that spawns it, one that stops it.     *)
OneOfEach ==
    \A u, v \in Users : /\ Spawning(u) /\ Spawning(v) => u = v
                        /\ Stopping(u) /\ Stopping(v) => u = v

(* The life of the watcher: fresh, started, spawned, stopped, gone.        *)
StartFacts ==
    /\ starts = 0 => /\ ~running /\ stopCh = "open" /\ lpc[1] = "none"
                     /\ \A u \in Users : ~Spawning(u) /\ ~Stopping(u)
    /\ running => stopCh = "open" /\ \A u \in Users : ~Stopping(u)

LoopFacts ==
    /\ starts = 1 /\ lpc[1] = "none" => \E u \in Users : Spawning(u)
    /\ \A u \in Users : Spawning(u) => lpc[1] = "none"
    /\ lpc[1] \in {"returning", "gone"} => stopCh = "closed"
    /\ done = "closed" <=> lpc[1] = "gone"

StopFacts ==
    \A u \in Users : /\ upc[u] = "closing" => stopCh = "open" /\ ~running
                     /\ upc[u] = "waiting" => stopCh = "closed" /\ ~running

IInv == TypeOK /\ OneOfEach /\ StartFacts /\ LoopFacts /\ StopFacts /\ NeverPanics

LEMMA OneLoop == ASSUME MaxStarts = 1 PROVE Loops = {1}
<1>1. \A l : l \in 1 .. 1 <=> l = 1
  OBVIOUS
<1> QED
  BY <1>1 DEF Loops

LEMMA InitInv == ASSUME MaxStarts = 1 PROVE Init => IInv
<1> SUFFICES ASSUME Init PROVE IInv
  OBVIOUS
<1>1. TypeOK
  <2>1. upc \in [Users -> {"idle", "spawning", "closing", "waiting"}]
    BY DEF Init
  <2>2. lpc \in [Loops -> {"none", "selecting", "checking", "statted", "loading",
                           "returning", "gone"}]
    BY DEF Init
  <2>3. 0 \in 0 .. MaxEdits /\ 0 \in 0 .. MaxStarts
    BY BoundsAssumption
  <2>4. seen \in [Loops -> 0 .. MaxEdits]
    BY <2>3 DEF Init
  <2>5. file \in [stamp : 0 .. MaxEdits, content : Contents \union {"invalid", "absent"}]
    BY <2>3, ContentsAssumption DEF Init
  <2> QED
    BY <2>1, <2>2, <2>3, <2>4, <2>5, ContentsAssumption DEF Init, TypeOK
<1>2. lpc[1] = "none" /\ \A u \in Users : upc[u] = "idle"
  BY OneLoop DEF Init
<1> QED
  BY <1>1, <1>2
  DEF Init, IInv, OneOfEach, StartFacts, LoopFacts, StopFacts, NeverPanics, Spawning, Stopping

(* A step of a user.                                                       *)
LEMMA UserInv ==
    ASSUME MaxStarts = 1, IInv, NEW u \in Users, Start(u) \/ Stop(u) \/ UserNext(u)
    PROVE  IInv'
<1> USE OneLoop, BoundsAssumption DEF IInv, UserStep, control
<1>1. ASSUME Start(u) PROVE IInv'
  <2>1. TypeOK'
    BY <1>1 DEF Start, TypeOK
  <2> QED
    BY <1>1, <2>1
    DEF Start, TypeOK, OneOfEach, StartFacts, LoopFacts, StopFacts, NeverPanics, Spawning, Stopping
<1>2. ASSUME Stop(u) PROVE IInv'
  <2>1. TypeOK'
    BY <1>2 DEF Stop, TypeOK
  <2> QED
    BY <1>2, <2>1
    DEF Stop, TypeOK, OneOfEach, StartFacts, LoopFacts, StopFacts, NeverPanics, Spawning, Stopping
<1>3. ASSUME Spawn(u) PROVE IInv'
  <2>1. TypeOK'
    BY <1>3 DEF Spawn, TypeOK
  <2> QED
    BY <1>3, <2>1
    DEF Spawn, TypeOK, OneOfEach, StartFacts, LoopFacts, StopFacts, NeverPanics, Spawning, Stopping
<1>4. ASSUME CloseStop(u) PROVE IInv'
  <2>1. stopCh = "open" /\ ~panicked'
    BY <1>4 DEF CloseStop, StopFacts, TypeOK
  <2>2. TypeOK'
    BY <1>4, <2>1 DEF CloseStop, TypeOK
  <2> QED
    BY <1>4, <2>1, <2>2
    DEF CloseStop, TypeOK, OneOfEach, StartFacts, LoopFacts, StopFacts, NeverPanics, Spawning, Stopping
<1>5. ASSUME StopReturns(u) PROVE IInv'
  <2>1. TypeOK'
    BY <1>5 DEF StopReturns, TypeOK
  <2> QED
    BY <1>5, <2>1
    DEF StopReturns, TypeOK, OneOfEach, StartFacts, LoopFacts, StopFacts, NeverPanics, Spawning, Stopping
<1> QED
  BY <1>1, <1>2, <1>3, <1>4, <1>5 DEF UserNext

(* What the steps of a loop have in common, but for its last.              *)
LEMMA LoopMoveInv ==
    ASSUME MaxStarts = 1, IInv, NEW from, NEW to, LoopStep(1, from, to), TypeOK',
           from \notin {"none", "gone"}, to \notin {"none", "gone"},
           to = "returning" => stopCh = "closed",
           UNCHANGED done, UNCHANGED panicked
    PROVE  IInv'
BY OneLoop
DEF LoopStep, IInv, TypeOK, OneOfEach, StartFacts, LoopFacts, StopFacts, NeverPanics,
    Spawning, Stopping

LEMMA LoopInv == ASSUME MaxStarts = 1, IInv, NEW l \in Loops, LoopNext(l) PROVE IInv'
<1>l. l = 1
  BY OneLoop
<1>1. CASE SeeStop(l)
  <2>1. TypeOK'
    BY <1>1 DEF IInv, TypeOK, SeeStop, LoopStep
  <2> QED
    BY <1>1, <1>l, <2>1, LoopMoveInv DEF SeeStop
<1>2. CASE SeeTick(l)
  <2>1. TypeOK'
    BY <1>2 DEF IInv, TypeOK, SeeTick, LoopStep
  <2> QED
    BY <1>2, <1>l, <2>1, LoopMoveInv DEF SeeTick
<1>3. CASE CloseDone(l)
  <2>1. done = "open" /\ ~panicked'
    BY <1>3, <1>l DEF IInv, TypeOK, LoopFacts, CloseDone, LoopStep
  <2>2. TypeOK'
    BY <1>3, <2>1 DEF IInv, TypeOK, CloseDone, LoopStep
  <2> QED
    BY <1>3, <1>l, <2>1, <2>2, OneLoop
    DEF CloseDone, LoopStep, IInv, TypeOK, OneOfEach, StartFacts, LoopFacts, StopFacts,
        NeverPanics, Spawning, Stopping
<1>4. CASE StatFails(l)
  <2>1. TypeOK'
    BY <1>4 DEF IInv, TypeOK, StatFails, LoopStep
  <2> QED
    BY <1>4, <1>l, <2>1, LoopMoveInv DEF StatFails
<1>5. CASE Stat(l)
  <2>1. TypeOK'
    BY <1>5 DEF IInv, TypeOK, Stat, LoopStep
  <2> QED
    BY <1>5, <1>l, <2>1, LoopMoveInv DEF Stat
<1>6. CASE Unchanged(l)
  <2>1. TypeOK'
    BY <1>6 DEF IInv, TypeOK, Unchanged, LoopStep
  <2> QED
    BY <1>6, <1>l, <2>1, LoopMoveInv DEF Unchanged
<1>7. CASE Changed(l)
  <2>1. TypeOK'
    BY <1>7 DEF IInv, TypeOK, Changed, LoopStep
  <2> QED
    BY <1>7, <1>l, <2>1, LoopMoveInv DEF Changed
<1>8. CASE Load(l)
  <2>1. TypeOK'
    BY <1>8 DEF IInv, TypeOK, Load, LoopStep
  <2> QED
    BY <1>8, <1>l, <2>1, LoopMoveInv DEF Load
<1> QED
  BY <1>1, <1>2, <1>3, <1>4, <1>5, <1>6, <1>7, <1>8 DEF LoopNext

LEMMA EditInv ==
    ASSUME IInv, NEW content \in Contents \union {"invalid", "absent"}, Edit(content)
    PROVE  IInv'
<1>1. TypeOK'
  BY BoundsAssumption DEF Edit, IInv, TypeOK, control
<1> QED
  BY <1>1
  DEF Edit, control, IInv, OneOfEach, StartFacts, LoopFacts, StopFacts, NeverPanics,
      Spawning, Stopping

LEMMA NextInv == ASSUME MaxStarts = 1 PROVE IInv /\ [Next]_vars => IInv'
<1>1. ASSUME IInv, UNCHANGED vars PROVE IInv'
  BY <1>1
  DEF vars, control, IInv, TypeOK, OneOfEach, StartFacts, LoopFacts, StopFacts,
      NeverPanics, Spawning, Stopping
<1> QED
  BY <1>1, UserInv, LoopInv, EditInv DEF Next

-----------------------------------------------------------------------------
(* IInv is an invariant of a watcher that is started once.                 *)
THEOREM Invariance == ASSUME MaxStarts = 1 PROVE Spec => []IInv
BY InitInv, NextInv, PTL DEF Spec

(* The types; in particular onChange is only ever given a configuration    *)
(* that LoadFile and Validate accept (lines 144-155).                      *)
THEOREM TypeCorrectness == ASSUME MaxStarts = 1 PROVE Spec => []TypeOK
<1>1. IInv => TypeOK
  BY DEF IInv
<1> QED
  BY <1>1, Invariance, PTL

(* Any number of goroutines may call Start and Stop in any order: neither  *)
(* channel is closed twice (lines 100, 112).                               *)
THEOREM PanicSafety == ASSUME MaxStarts = 1 PROVE Spec => []NeverPanics
<1>1. IInv => NeverPanics
  BY DEF IInv
<1> QED
  BY <1>1, Invariance, PTL

(* running is TRUE only while a loop polls or is about to (lines 76-88).   *)
THEOREM WatchSafety == ASSUME MaxStarts = 1 PROVE Spec => []RunningMeansWatching
<1>1. IInv => RunningMeansWatching
  BY OneLoop
  DEF IInv, TypeOK, StartFacts, LoopFacts, RunningMeansWatching, Spawning
<1> QED
  BY <1>1, Invariance, PTL

(* When the Stop that stopped the watcher returns there is no loop, nor    *)
(* will there be one (lines 90-102).                                       *)
THEOREM StopSafety == ASSUME MaxStarts = 1 PROVE Spec => StopWaitsForLoops
<1> DEFINE Waits(u) ==
        StopReturns(u) => /\ \A l \in Loops : lpc[l] \in {"none", "gone"}
                          /\ \A v \in Users : upc[v] # "spawning"
<1>1. IInv /\ [Next]_vars => [\A u \in Users : Waits(u)]_vars
  BY OneLoop DEF IInv, LoopFacts, StopReturns, Spawning
<1> QED
  BY <1>1, Invariance, PTL DEF Spec, StopWaitsForLoops

(* What StopEnds rests on: a Stop never waits for nobody.  Until done is   *)
(* closed the loop is alive, or about to be spawned, and will find stopCh  *)
(* closed, even when Stop has overtaken the go statement (lines 84-102).   *)
StopIsHeard ==
    \A u \in Users : upc[u] = "waiting" =>
        /\ stopCh = "closed"
        /\ \/ done = "closed"
           \/ \E v \in Users : upc[v] = "spawning"
           \/ \E l \in Loops : lpc[l] \notin {"none", "gone"}

THEOREM HearingSafety == ASSUME MaxStarts = 1 PROVE Spec => []StopIsHeard
<1>1. IInv => StopIsHeard
  <2> SUFFICES ASSUME IInv, NEW u \in Users, upc[u] = "waiting"
               PROVE  /\ stopCh = "closed"
                      /\ \/ done = "closed"
                         \/ \E v \in Users : upc[v] = "spawning"
                         \/ \E l \in Loops : lpc[l] \notin {"none", "gone"}
    BY DEF StopIsHeard
  <2>1. starts = 1
    BY DEF IInv, TypeOK, StartFacts, Stopping
  <2> QED
    BY <2>1, OneLoop DEF IInv, TypeOK, LoopFacts, StopFacts, Spawning
<1> QED
  BY <1>1, Invariance, PTL

-----------------------------------------------------------------------------
(* What LastEditApplied rests on, for a watcher that may be started again  *)
(* as well: a valid configuration that onChange has not been given differs *)
(* from last in its stamp, so that the next poll sees it, or is being      *)
(* loaded.  An edit between os.Stat and LoadFile is loaded under the older *)
(* stamp and so seen again (lines 130-155).                                *)
NoEditMissed ==
    file.content \in Contents =>
        \/ applied = file.content \/ last # file.stamp
        \/ \E l \in Loops : lpc[l] = "loading"

(* No stamp is of the future.                                              *)
StampsInv ==
    /\ file \in [stamp : Nat, content : Contents \union {"invalid", "absent"}]
    /\ lpc \in [Loops -> {"none", "selecting", "checking", "statted", "loading",
                          "returning", "gone"}]
    /\ last \in Nat /\ last <= file.stamp
    /\ seen \in [Loops -> Nat] /\ \A l \in Loops : seen[l] <= file.stamp

LEMMA NoticeInit == Init => StampsInv /\ NoEditMissed
<1> SUFFICES ASSUME Init PROVE StampsInv /\ NoEditMissed
  OBVIOUS
<1>1. file = [stamp |-> 0, content |-> Initial] /\ applied = Initial /\ last = 0
  BY DEF Init
<1>2. file \in [stamp : Nat, content : Contents \union {"invalid", "absent"}]
  BY <1>1, ContentsAssumption
<1>3. NoEditMissed
  BY <1>1 DEF NoEditMissed
<1> QED
  BY <1>1, <1>2, <1>3 DEF Init, StampsInv

LEMMA NoticeLoop ==
    ASSUME StampsInv, NoEditMissed, NEW l \in Loops, LoopNext(l)
    PROVE  (StampsInv /\ NoEditMissed)'
<1> USE DEF StampsInv, LoopStep
<1>1. CASE SeeStop(l) \/ SeeTick(l) \/ CloseDone(l) \/ StatFails(l) \/ Unchanged(l)
  <2>1. StampsInv'
    BY <1>1 DEF SeeStop, SeeTick, CloseDone, StatFails, Unchanged
  <2>2. \A k \in Loops : lpc[k] = "loading" => lpc'[k] = "loading"
    BY <1>1 DEF SeeStop, SeeTick, CloseDone, StatFails, Unchanged
  <2>3. UNCHANGED <<file, last, applied>>
    BY <1>1 DEF SeeStop, SeeTick, CloseDone, StatFails, Unchanged
  <2> QED
    BY <2>1, <2>2, <2>3 DEF NoEditMissed
<1>2. CASE Stat(l)
  <2>1. StampsInv'
    BY <1>2 DEF Stat
  <2>2. \A k \in Loops : lpc[k] = "loading" => lpc'[k] = "loading"
    BY <1>2 DEF Stat
  <2> QED
    BY <1>2, <2>1, <2>2 DEF Stat, NoEditMissed
<1>3. CASE Changed(l)
  <2>1. StampsInv'
    BY <1>3 DEF Changed
  <2>2. lpc'[l] = "loading"
    BY <1>3 DEF Changed
  <2> QED
    BY <2>1, <2>2 DEF NoEditMissed
<1>4. CASE Load(l)
  <2>1. StampsInv'
    BY <1>4 DEF Load
  <2>2. file' = file /\ (file.content \in Contents => applied' = file.content)
    BY <1>4 DEF Load
  <2> QED
    BY <2>1, <2>2 DEF NoEditMissed
<1> QED
  BY <1>1, <1>2, <1>3, <1>4 DEF LoopNext

LEMMA NoticeNext == StampsInv /\ NoEditMissed /\ [Next]_vars => (StampsInv /\ NoEditMissed)'
<1> SUFFICES ASSUME StampsInv, NoEditMissed, [Next]_vars PROVE (StampsInv /\ NoEditMissed)'
  OBVIOUS
<1>1. ASSUME NEW u \in Users, Start(u) \/ Stop(u) \/ UserNext(u)
      PROVE  (StampsInv /\ NoEditMissed)'
  <2>1. UNCHANGED <<file, last, applied, seen>>
    BY <1>1 DEF Start, Stop, UserNext, Spawn, CloseStop, StopReturns, UserStep
  <2>2. lpc' = lpc \/ \E l \in Loops : lpc[l] = "none" /\ lpc' = [lpc EXCEPT ![l] = "selecting"]
    BY <1>1 DEF Start, Stop, UserNext, Spawn, CloseStop, StopReturns, UserStep
  <2>3. \A k \in Loops : lpc[k] = "loading" => lpc'[k] = "loading"
    BY <2>2 DEF StampsInv
  <2>4. StampsInv'
    BY <2>1, <2>2 DEF StampsInv
  <2> QED
    BY <2>1, <2>3, <2>4 DEF NoEditMissed
<1>2. ASSUME NEW content \in Contents \union {"invalid", "absent"}, Edit(content)
      PROVE  (StampsInv /\ NoEditMissed)'
  <2>1. file' = [stamp |-> file.stamp + 1, content |-> content] /\ UNCHANGED <<last, lpc, seen>>
    BY <1>2 DEF Edit
  <2>2. file.stamp \in Nat
    BY DEF StampsInv
  <2>3. /\ file'.stamp = file.stamp + 1
        /\ file' \in [stamp : Nat, content : Contents \union {"invalid", "absent"}]
    BY <2>1, <2>2
  <2>4. StampsInv' /\ last' # file'.stamp
    BY <2>1, <2>2, <2>3 DEF StampsInv
  <2> QED
    BY <2>4 DEF NoEditMissed
<1>3. CASE UNCHANGED vars
  BY <1>3 DEF vars, StampsInv, NoEditMissed
<1> QED
  BY <1>1, <1>2, <1>3, NoticeLoop DEF Next

(* However often the watcher is started and stopped and whenever the file  *)
(* is edited, no edit is passed over.                                      *)
THEOREM EditSafety == Spec => []NoEditMissed
BY NoticeInit, NoticeNext, PTL DEF Spec
=============================================================================
