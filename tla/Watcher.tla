------------------------------- MODULE Watcher -------------------------------
(***************************************************************************)
(* internal/config/watcher.go: one Watcher, the goroutines that call Start *)
(* and Stop (Users), the goroutines that Start spawns (Loops), and a       *)
(* program that edits the watched file meanwhile.                          *)
(*                                                                         *)
(* mu protects running alone: closing stopCh, waiting for done and         *)
(* spawning the loop happen after it is unlocked, and check reads and      *)
(* writes lastMod and lastSize with no lock.  check reads the file twice,  *)
(* once for its modification time and size and once for its content.       *)
(*                                                                         *)
(* A file is a stamp (its modification time and size together) and a       *)
(* content: a valid configuration, "invalid" (LoadFile or Validate fails)  *)
(* or "absent" (os.Stat fails).  onChange is modelled by what it is given; *)
(* onError is user code without effect here.                               *)
(***************************************************************************)
EXTENDS Integers, FiniteSets

CONSTANTS
    Users,      \* goroutines that call Start and Stop
    Contents,   \* the valid configurations
    Initial,    \* the one in the file when NewWatcher is called
    MaxStarts,  \* bound: how often Start finds the watcher not running
    MaxEdits    \* bound: how often the file is edited

ASSUME BoundsAssumption == MaxStarts \in Nat \ {0} /\ MaxEdits \in Nat

ASSUME ContentsAssumption == Initial \in Contents

Loops == 1 .. MaxStarts

VARIABLES
    running,        \* w.running
    stopCh, done,   \* whether each channel has been closed
    last,           \* w.lastMod and w.lastSize
    file,           \* the watched file
    upc,            \* where each user is in Start or Stop
    lpc,            \* where each loop is in watch and check
    seen,           \* the stamp a loop's os.Stat returned
    starts,         \* how many times Start has set running
    applied,        \* the last configuration given to onChange
    panicked        \* a channel has been closed twice: the process is dead

control == <<running, stopCh, done, starts>>
vars == <<control, last, file, upc, lpc, seen, applied, panicked>>

TypeOK ==
    /\ running \in BOOLEAN /\ panicked \in BOOLEAN
    /\ stopCh \in {"open", "closed"} /\ done \in {"open", "closed"}
    /\ file \in [stamp : 0 .. MaxEdits, content : Contents \union {"invalid", "absent"}]
    /\ last \in 0 .. MaxEdits
    /\ upc \in [Users -> {"idle", "spawning", "closing", "waiting"}]
    /\ lpc \in [Loops -> {"none", "selecting", "checking", "statted", "loading",
                          "returning", "gone"}]
    /\ seen \in [Loops -> 0 .. MaxEdits]
    /\ starts \in 0 .. MaxStarts
    /\ applied \in Contents

-----------------------------------------------------------------------------
(* NewWatcher has recorded the file's stamp.                               *)
Init ==
    /\ running = FALSE /\ panicked = FALSE
    /\ stopCh = "open" /\ done = "open"
    /\ file = [stamp |-> 0, content |-> Initial]
    /\ last = 0 /\ applied = Initial
    /\ upc = [u \in Users |-> "idle"]
    /\ lpc = [l \in Loops |-> "none"]
    /\ seen = [l \in Loops |-> 0]
    /\ starts = 0

UserStep(u, from, to) ==
    /\ ~panicked
    /\ upc[u] = from /\ upc' = [upc EXCEPT ![u] = to]
    /\ UNCHANGED <<last, file, seen, applied>>

LoopStep(l, from, to) ==
    /\ ~panicked
    /\ lpc[l] = from /\ lpc' = [lpc EXCEPT ![l] = to]
    /\ UNCHANGED <<running, stopCh, starts, file, upc>>

(* Start: the critical section.  When running already it does nothing.     *)
Start(u) ==
    /\ UserStep(u, "idle", "spawning")
    /\ ~running /\ starts < MaxStarts
    /\ running' = TRUE /\ starts' = starts + 1
    /\ UNCHANGED <<stopCh, done, lpc, panicked>>

(* go w.watch()                                                            *)
Spawn(u) ==
    /\ UserStep(u, "spawning", "idle")
    /\ \E l \in Loops :
         /\ lpc[l] = "none" /\ \A k \in 1 .. l - 1 : lpc[k] # "none"
         /\ lpc' = [lpc EXCEPT ![l] = "selecting"]
    /\ UNCHANGED <<control, panicked>>

(* A mutation of Stop: running is not looked at.                           *)
StopUnchecked(u) ==
    /\ UserStep(u, "idle", "closing")
    /\ running' = FALSE
    /\ UNCHANGED <<stopCh, done, starts, lpc, panicked>>

(* A mutation of Stop: running is not cleared.                             *)
StopStillRunning(u) ==
    /\ UserStep(u, "idle", "closing")
    /\ running
    /\ UNCHANGED <<control, lpc, panicked>>

(* Stop: the critical section.  When not running it does nothing.          *)
Stop(u) ==
    /\ UserStep(u, "idle", "closing")
    /\ running
    /\ running' = FALSE
    /\ UNCHANGED <<stopCh, done, starts, lpc, panicked>>

CloseStop(u) ==
    /\ UserStep(u, "closing", "waiting")
    /\ stopCh' = "closed"
    /\ panicked' = (stopCh = "closed")
    /\ UNCHANGED <<running, done, starts, lpc>>

(* A mutation of StopReturns: done is not waited for.                      *)
StopReturnsAtOnce(u) ==
    /\ UserStep(u, "waiting", "idle")
    /\ UNCHANGED <<control, lpc, panicked>>

StopReturns(u) ==
    /\ UserStep(u, "waiting", "idle")
    /\ done = "closed"
    /\ UNCHANGED <<control, lpc, panicked>>

(* Both arms of watch's select; when both are ready Go takes either.       *)
SeeStop(l) ==
    /\ LoopStep(l, "selecting", "returning")
    /\ stopCh = "closed"
    /\ UNCHANGED <<done, last, seen, applied, panicked>>

SeeTick(l) ==
    /\ LoopStep(l, "selecting", "checking")
    /\ UNCHANGED <<done, last, seen, applied, panicked>>

(* A mutation of CloseDone: no deferred close.                             *)
CloseDoneForgotten(l) ==
    /\ LoopStep(l, "returning", "gone")
    /\ UNCHANGED <<done, last, seen, applied, panicked>>

(* The deferred close(w.done).                                             *)
CloseDone(l) ==
    /\ LoopStep(l, "returning", "gone")
    /\ done' = "closed"
    /\ panicked' = (done = "closed")
    /\ UNCHANGED <<last, seen, applied>>

StatFails(l) ==
    /\ LoopStep(l, "checking", "selecting")
    /\ file.content = "absent"
    /\ UNCHANGED <<done, last, seen, applied, panicked>>

Stat(l) ==
    /\ LoopStep(l, "checking", "statted")
    /\ file.content # "absent"
    /\ seen' = [seen EXCEPT ![l] = file.stamp]
    /\ UNCHANGED <<done, last, applied, panicked>>

Unchanged(l) ==
    /\ LoopStep(l, "statted", "selecting")
    /\ seen[l] = last
    /\ UNCHANGED <<done, last, seen, applied, panicked>>

Changed(l) ==
    /\ LoopStep(l, "statted", "loading")
    /\ seen[l] # last
    /\ last' = seen[l]
    /\ UNCHANGED <<done, seen, applied, panicked>>

(* A mutation of Load: an error of LoadFile or Validate ends the loop.     *)
LoadGivesUp(l) ==
    /\ LoopStep(l, "loading", IF file.content \in Contents THEN "selecting" ELSE "returning")
    /\ applied' = IF file.content \in Contents THEN file.content ELSE applied
    /\ UNCHANGED <<done, last, seen, panicked>>

(* A mutation of Load: Validate is not called.                             *)
LoadUnvalidated(l) ==
    /\ LoopStep(l, "loading", "selecting")
    /\ applied' = file.content
    /\ UNCHANGED <<done, last, seen, panicked>>

(* LoadFile, Validate, onChange.                                           *)
Load(l) ==
    /\ LoopStep(l, "loading", "selecting")
    /\ applied' = IF file.content \in Contents THEN file.content ELSE applied
    /\ UNCHANGED <<done, last, seen, panicked>>

(* The file is written or removed.  Every edit gives it another stamp: a   *)
(* file system with fine timestamps.                                       *)
Edit(content) ==
    /\ file.stamp < MaxEdits
    /\ file' = [stamp |-> file.stamp + 1, content |-> content]
    /\ UNCHANGED <<control, last, upc, lpc, seen, applied, panicked>>

LoopNext(l) ==
    \/ SeeStop(l) \/ SeeTick(l) \/ CloseDone(l)
    \/ StatFails(l) \/ Stat(l) \/ Unchanged(l) \/ Changed(l) \/ Load(l)

UserNext(u) == Spawn(u) \/ CloseStop(u) \/ StopReturns(u)

Next ==
    \/ \E u \in Users : Start(u) \/ Stop(u) \/ UserNext(u)
    \/ \E l \in Loops : LoopNext(l)
    \/ \E content \in Contents \union {"invalid", "absent"} : Edit(content)

Spec == Init /\ [][Next]_vars

(* Goroutines run and the ticker ticks.  A select whose two arms are ready *)
(* is taken at random, so the stop arm is not passed over for ever: strong *)
(* fairness.  Nobody has to call Start or Stop or edit the file.           *)
FairSpec ==
    /\ Spec
    /\ \A u \in Users : WF_vars(UserNext(u))
    /\ \A l \in Loops : WF_vars(LoopNext(l)) /\ SF_vars(SeeStop(l))

-----------------------------------------------------------------------------
(* Properties.                                                             *)

(* No interleaving of Start, Stop and the loop closes a channel twice,     *)
(* which would end the process (lines 100, 112).                           *)
NeverPanics == ~panicked

(* "Start begins watching the config file." (line 76): whenever running is *)
(* TRUE there is a loop that will go on polling - one that runs or is      *)
(* about to be spawned, and no stop signal for it to find.                 *)
RunningMeansWatching ==
    running =>
        /\ stopCh = "open"
        /\ \/ \E u \in Users : upc[u] = "spawning"
           \/ \E l \in Loops : lpc[l] \notin {"none", "returning", "gone"}

(* "Stop stops watching and waits for the goroutine to exit." (line 90):   *)
(* from the moment the call of Stop that stopped the watcher returns, no   *)
(* loop is alive or yet to be spawned, so onChange is never called again.  *)
StopWaitsForLoops ==
    [][\A u \in Users : StopReturns(u) =>
          /\ \A l \in Loops : lpc[l] \in {"none", "gone"}
          /\ \A v \in Users : upc[v] # "spawning"]_vars

(* A Stop that has begun returns: the loop is never stuck and always finds *)
(* the closed channel, even when Stop overtakes Start's go statement.      *)
StopEnds == \A u \in Users : upc[u] \in {"closing", "waiting"} ~> upc[u] = "idle"

(* The last valid edit is applied: if the file is not edited any more and  *)
(* nobody stops the watcher, the configuration in the file is handed to    *)
(* onChange, even if it was written between check's os.Stat and its        *)
(* LoadFile, after an invalid one, or while the file was absent.           *)
LastEditApplied ==
    \A content \in Contents :
        (running /\ file.content = content /\ file.stamp = MaxEdits) ~>
            (applied = content \/ ~running)
=============================================================================
