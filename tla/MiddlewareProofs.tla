--------------------------- MODULE MiddlewareProofs ---------------------------
(***************************************************************************)
(* Safety of Middleware for every set of chains, any number of requests,   *)
(* slots and retries: where a goroutine can be, who holds the tokens of    *)
(* the bulkhead, and what the client and the breaker are told.             *)
(***************************************************************************)
EXTENDS Middleware, FiniteSetTheorems, TLAPS

-----------------------------------------------------------------------------
(* Goroutines and depths.                                                  *)

LEMMA ThreadFacts ==
    /\ \A r \in Requests :
         /\ Main(r) \in Threads /\ Worker(r) \in Threads
         /\ Main(r)[1] = r /\ Main(r)[2] = "main"
         /\ Worker(r)[1] = r /\ Worker(r)[2] = "worker"
         /\ Main(r) # Worker(r)
    /\ \A t \in Threads :
         /\ t[1] \in Requests /\ t[2] \in {"main", "worker"}
         /\ t[2] = "main" => t = Main(t[1])
         /\ t[2] = "worker" => t = Worker(t[1])
BY DEF Threads, Main, Worker

LEMMA ChainFacts ==
    ASSUME TypeOK
    PROVE  /\ Len(chain) \in Nat /\ DOMAIN chain = 1 .. Len(chain)
           /\ Depth \in Nat /\ Depth = Len(chain) + 1
           /\ \A i \in DOMAIN chain : chain[i] \in Layers
           /\ \A i, j \in DOMAIN chain :
                /\ chain[i] = chain[j] => i = j
                /\ chain[i] = "retry" /\ chain[j] = "respond" => j < i
<1>1. chain \in Chains
  BY DEF TypeOK
<1>2. /\ chain \in Seq(Layers)
      /\ \A i, j \in DOMAIN chain :
           /\ chain[i] = chain[j] => i = j
           /\ chain[i] = "retry" /\ chain[j] = "respond" => j < i
  BY <1>1, ChainsAssumption
<1>3. Len(chain) \in Nat /\ DOMAIN chain = 1 .. Len(chain)
      /\ \A i \in DOMAIN chain : chain[i] \in Layers
  BY <1>2
<1> QED
  BY <1>2, <1>3 DEF Depth

LEMMA LayerFacts ==
    ASSUME TypeOK, NEW t \in Threads, NEW layer \in Layers, LayerOf(t) = layer
    PROVE  /\ at[t] \in DOMAIN chain /\ chain[at[t]] = layer
           /\ at[t] \in 1 .. Depth - 1 /\ at[t] \in Int
<1>1. at[t] \in DOMAIN chain /\ chain[at[t]] = layer
  BY DEF LayerOf, Layers
<1> QED
  BY <1>1, ChainFacts

Writing == {"look", "mark", "forward"}

(* Where the goroutine of a request may be: never below the layer that     *)
(* detaches, and it never comes back up to that layer.                     *)
MainAt(depth, what) ==
    /\ what \in {"idle", "done", "dropped"} => depth = 0
    /\ what \in {"down", "awaiting"} \union Writing => depth > 0
    /\ what \in {"up", "panic"} => depth < Depth
    /\ \A i \in DOMAIN chain : chain[i] = "respond" =>
          /\ depth <= i
          /\ depth = i => what \in {"down", "awaiting"} \union Writing

(* Where a detached one may be: from that layer, which it only comes back  *)
(* to, downwards.                                                          *)
WorkerAt(depth, what) ==
    /\ what \notin {"awaiting", "dropped"}
    /\ what \in {"up", "panic"} => depth < Depth
    /\ what = "idle" => depth = 0
    /\ what # "idle" =>
         \E i \in DOMAIN chain :
             /\ chain[i] = "respond" /\ depth >= i
             /\ what \in {"down"} \union Writing => depth > i

(* There is a worker only when the request has gone down to that layer, to *)
(* which it never comes down again.                                        *)
Placed ==
    \A r \in Requests :
        /\ MainAt(at[Main(r)], doing[Main(r)])
        /\ WorkerAt(at[Worker(r)], doing[Worker(r)])
        /\ doing[Worker(r)] # "idle" => doing[Main(r)] \notin {"idle", "down"}

PlaceOf(t, depth, what) ==
    IF t[2] = "main" THEN MainAt(depth, what) ELSE WorkerAt(depth, what)

LEMMA PlacedAt ==
    ASSUME Placed, NEW t \in Threads
    PROVE  PlaceOf(t, at[t], doing[t])
BY ThreadFacts DEF Placed, PlaceOf

(* One goroutine moves.                                                    *)
LEMMA GoFacts ==
    ASSUME TypeOK, NEW t \in Threads, NEW depth \in 0 .. Depth,
           NEW what \in {"idle", "down", "up", "panic", "awaiting",
                         "look", "mark", "forward", "done", "dropped"},
           Go(t, depth, what)
    PROVE  /\ chain' = chain /\ Depth' = Depth /\ crashed' = crashed
           /\ at'[t] = depth /\ doing'[t] = what
           /\ \A u \in Threads : u # t => at'[u] = at[u] /\ doing'[u] = doing[u]
           /\ at' \in [Threads -> 0 .. Depth]
           /\ doing' \in [Threads -> {"idle", "down", "up", "panic", "awaiting",
                                      "look", "mark", "forward", "done", "dropped"}]
BY DEF Go, TypeOK, Depth

LEMMA GoPlaced ==
    ASSUME TypeOK, Placed, NEW t \in Threads, NEW depth \in 0 .. Depth,
           NEW what \in {"down", "up", "panic", "awaiting",
                         "look", "mark", "forward", "done", "dropped"},
           Go(t, depth, what), PlaceOf(t, depth, what),
           t[2] = "worker" => doing[t] # "idle",
           t[2] = "main" /\ what = "down" => doing[Worker(t[1])] = "idle"
    PROVE  Placed'
<1>1. /\ chain' = chain /\ Depth' = Depth
      /\ at'[t] = depth /\ doing'[t] = what
      /\ \A u \in Threads : u # t => at'[u] = at[u] /\ doing'[u] = doing[u]
  BY GoFacts
<1>2. SUFFICES ASSUME NEW r \in Requests
               PROVE  /\ MainAt(at'[Main(r)], doing'[Main(r)])
                      /\ WorkerAt(at'[Worker(r)], doing'[Worker(r)])
                      /\ doing'[Worker(r)] # "idle" => doing'[Main(r)] \notin {"idle", "down"}
  BY <1>1 DEF Placed, MainAt, WorkerAt
<1>3. /\ MainAt(at[Main(r)], doing[Main(r)])
      /\ WorkerAt(at[Worker(r)], doing[Worker(r)])
      /\ doing[Worker(r)] # "idle" => doing[Main(r)] \notin {"idle", "down"}
  BY DEF Placed
<1>4. CASE t = Main(r)
  <2>1. MainAt(depth, what) /\ Worker(r) # t /\ t[1] = r /\ t[2] = "main" /\ Worker(r) \in Threads
    BY <1>4, ThreadFacts DEF PlaceOf
  <2> QED
    BY <1>1, <1>3, <1>4, <2>1
<1>5. CASE t = Worker(r)
  <2>1. WorkerAt(depth, what) /\ Main(r) # t /\ t[2] = "worker" /\ Main(r) \in Threads
    BY <1>5, ThreadFacts DEF PlaceOf
  <2> QED
    BY <1>1, <1>3, <1>5, <2>1
<1>6. CASE t # Main(r) /\ t # Worker(r)
  BY <1>1, <1>3, <1>6, ThreadFacts
<1> QED
  BY <1>4, <1>5, <1>6

-----------------------------------------------------------------------------
(* Who holds a token.                                                      *)

(* Between acquire and release, for a goroutine at this depth.             *)
Inside(depth, what) ==
    /\ what \notin {"idle", "done", "dropped"}
    /\ \E i \in DOMAIN chain :
         /\ chain[i] = "bulkhead"
         /\ depth > i \/ (depth = i /\ what \in {"up", "panic"})

SlotsAreHeld == \A t \in Threads : t \in slots <=> Passes(t) /\ Inside(at[t], doing[t])

LEMMA GoSlots ==
    ASSUME TypeOK, SlotsAreHeld, NEW t \in Threads, NEW depth \in 0 .. Depth,
           NEW what \in {"down", "up", "panic", "awaiting",
                         "look", "mark", "forward", "done", "dropped"},
           Go(t, depth, what),
           slots' \ {t} = slots \ {t},
           t \in slots' <=> Passes(t) /\ Inside(depth, what)
    PROVE  SlotsAreHeld'
<1>1. /\ chain' = chain
      /\ at'[t] = depth /\ doing'[t] = what
      /\ \A u \in Threads : u # t => at'[u] = at[u] /\ doing'[u] = doing[u]
  BY GoFacts
<1>2. \A u \in Threads : Passes(u)' = Passes(u)
  BY <1>1 DEF Passes, IsAbove
<1>3. SUFFICES ASSUME NEW u \in Threads
               PROVE  u \in slots' <=> Passes(u) /\ Inside(at'[u], doing'[u])
  BY <1>1, <1>2 DEF SlotsAreHeld, Inside
<1>4. CASE u = t
  BY <1>1, <1>4
<1>5. CASE u # t
  BY <1>1, <1>5 DEF SlotsAreHeld
<1> QED
  BY <1>4, <1>5

(* The ways to move, and that all but acquire and release leave a          *)
(* goroutine inside or outside the bulkhead.                               *)
Kept(t, depth, what) ==
    /\ PlaceOf(t, depth, what)
    /\ Inside(depth, what) <=> Inside(at[t], doing[t])

LEMMA DownKeeps ==
    ASSUME TypeOK, Placed, NEW t \in Threads, NEW layer \in Layers,
           LayerOf(t) = layer, layer # "respond",
           doing[t] = "down" \/ (doing[t] = "up" /\ layer = "retry")
    PROVE  /\ at[t] + 1 \in 0 .. Depth
           /\ PlaceOf(t, at[t] + 1, "down")
           /\ t[2] = "main" => doing[Worker(t[1])] = "idle"
           /\ layer # "bulkhead" => Kept(t, at[t] + 1, "down")
<1> DEFINE d == at[t]
<1>1. d \in DOMAIN chain /\ chain[d] = layer /\ d \in 1 .. Depth - 1 /\ d \in Int
  BY LayerFacts
<1>2. PlaceOf(t, d, doing[t]) /\ DOMAIN chain \subseteq Int /\ Depth \in Nat
  BY PlacedAt, ChainFacts
<1> HIDE DEF d
<1>3. d + 1 \in 0 .. Depth
  BY <1>1, <1>2
<1>4. PlaceOf(t, d + 1, "down")
  BY <1>1, <1>2 DEF PlaceOf, MainAt, WorkerAt, Writing
<1>5. ASSUME t[2] = "main" PROVE doing[Worker(t[1])] = "idle"
  <2>1. t = Main(t[1]) /\ t[1] \in Requests
    BY <1>5, ThreadFacts
  <2>2. CASE doing[t] = "down"
    BY <2>1, <2>2 DEF Placed
  <2>3. CASE doing[t] = "up" /\ layer = "retry"
    <3>1. \A i \in DOMAIN chain : chain[i] = "respond" => i < d /\ d <= i
      BY <1>1, <1>2, <1>5, <2>3, ChainFacts DEF PlaceOf, MainAt
    <3>2. ~ \E i \in DOMAIN chain : chain[i] = "respond"
      BY <1>1, <1>2, <3>1
    <3> QED
      BY <2>1, <3>2 DEF Placed, WorkerAt
  <2> QED
    BY <2>2, <2>3
<1>6. ASSUME layer # "bulkhead"
      PROVE  Inside(d + 1, "down") <=> Inside(d, doing[t])
  BY <1>1, <1>2, <1>6 DEF Inside
<1> QED
  BY <1>3, <1>4, <1>5, <1>6 DEF Kept, d

LEMMA RiseKeeps ==
    ASSUME TypeOK, Placed, NEW t \in Threads, NEW what \in {"up", "panic"},
           at[t] \in 1 .. Depth,
           doing[t] \in {"down", "up", "panic", "awaiting", "forward"},
           doing[t] \in {"up", "panic"} =>
               LayerOf(t) # "bulkhead" /\ (t[2] = "worker" => LayerOf(t) # "respond")
    PROVE  at[t] - 1 \in 0 .. Depth /\ Kept(t, at[t] - 1, what)
<1> DEFINE d == at[t]
<1>1. PlaceOf(t, d, doing[t]) /\ DOMAIN chain = 1 .. Depth - 1 /\ Depth \in Nat
      /\ d \in 1 .. Depth /\ d \in Int
      /\ \A i, j \in DOMAIN chain : chain[i] = chain[j] => i = j
  BY PlacedAt, ChainFacts
<1>2. \A i \in DOMAIN chain :
        /\ chain[i] = "bulkhead" /\ doing[t] \in {"up", "panic"} => d # i
        /\ chain[i] = "respond" /\ doing[t] \in {"up", "panic"} /\ t[2] = "worker" => d # i
  BY DEF LayerOf
<1> HIDE DEF d
<1>3. d - 1 \in 0 .. Depth
  BY <1>1
<1>4. ASSUME t[2] = "main" PROVE PlaceOf(t, d - 1, what)
  BY <1>1, <1>4 DEF PlaceOf, MainAt, Writing
<1>5. ASSUME t[2] # "main" PROVE PlaceOf(t, d - 1, what)
  <2>1. WorkerAt(d, doing[t]) /\ t[2] = "worker"
    BY <1>1, <1>5, ThreadFacts DEF PlaceOf
  <2>2. doing[t] # "idle" /\ doing[t] # "awaiting"
    BY <2>1 DEF WorkerAt
  <2>3. PICK i \in DOMAIN chain :
          /\ chain[i] = "respond" /\ d >= i
          /\ doing[t] \in {"down"} \union Writing => d > i
    BY <2>1, <2>2 DEF WorkerAt
  <2>4. i \in Int /\ d > i
    BY <1>1, <1>2, <2>1, <2>2, <2>3 DEF Writing
  <2>5. d - 1 >= i /\ d - 1 < Depth
    BY <1>1, <2>4
  <2>6. WorkerAt(d - 1, what)
    BY <2>3, <2>5 DEF WorkerAt, Writing
  <2> QED
    BY <1>5, <2>6 DEF PlaceOf
<1>6. PlaceOf(t, d - 1, what)
  BY <1>4, <1>5
<1>7. Inside(d - 1, what) <=> Inside(d, doing[t])
  <2>1. \A i \in DOMAIN chain : chain[i] = "bulkhead" =>
          ((d - 1 > i \/ d - 1 = i) <=>
           (d > i \/ (d = i /\ doing[t] \in {"up", "panic"})))
    BY <1>1, <1>2
  <2> QED
    BY <2>1 DEF Inside
<1> QED
  BY <1>3, <1>6, <1>7 DEF Kept, d

LEMMA StayKeeps ==
    ASSUME TypeOK, Placed, NEW t \in Threads, NEW what \in Writing,
           at[t] \in 1 .. Depth,
           doing[t] \in {"down", "up", "awaiting"} \union Writing,
           doing[t] = "up" => LayerOf(t) = "retry"
    PROVE  at[t] \in 0 .. Depth /\ Kept(t, at[t], what)
<1> DEFINE d == at[t]
<1>1. PlaceOf(t, d, doing[t]) /\ DOMAIN chain = 1 .. Depth - 1 /\ Depth \in Nat
      /\ d \in 1 .. Depth /\ d \in Int
  BY PlacedAt, ChainFacts
<1>2. \A i \in DOMAIN chain :
        chain[i] \in {"bulkhead", "respond"} /\ doing[t] = "up" => d # i
  BY DEF LayerOf
<1> HIDE DEF d
<1>3. d \in 0 .. Depth
  BY <1>1
<1>4. ASSUME t[2] = "main" PROVE PlaceOf(t, d, what)
  BY <1>1, <1>2, <1>4 DEF PlaceOf, MainAt, Writing
<1>5. ASSUME t[2] # "main" PROVE PlaceOf(t, d, what)
  <2>1. WorkerAt(d, doing[t]) /\ doing[t] # "idle"
    BY <1>1, <1>5 DEF PlaceOf, Writing
  <2>2. PICK i \in DOMAIN chain :
          /\ chain[i] = "respond" /\ d >= i
          /\ doing[t] \in {"down"} \union Writing => d > i
    BY <2>1 DEF WorkerAt
  <2>3. doing[t] # "awaiting"
    BY <2>1 DEF WorkerAt
  <2>4. i \in Int /\ d > i
    BY <1>1, <1>2, <2>2, <2>3
  <2>5. WorkerAt(d, what)
    BY <2>2, <2>4 DEF WorkerAt, Writing
  <2> QED
    BY <1>5, <2>5 DEF PlaceOf
<1>6. PlaceOf(t, d, what)
  BY <1>4, <1>5
<1>7. Inside(d, what) <=> Inside(d, doing[t])
  <2>1. \A i \in DOMAIN chain : chain[i] = "bulkhead" =>
          ~(d = i /\ doing[t] \in {"up", "panic"})
    BY <1>2 DEF Writing
  <2> QED
    BY <2>1 DEF Inside, Writing
<1> QED
  BY <1>3, <1>6, <1>7 DEF Kept, d

(* Together: what such a move preserves.                                   *)
LEMMA KeptStep ==
    ASSUME TypeOK, Placed, SlotsAreHeld, NEW t \in Threads, NEW depth \in 0 .. Depth,
           NEW what \in {"down", "up", "panic", "look", "mark", "forward"},
           Go(t, depth, what), Kept(t, depth, what), slots' = slots,
           doing[t] # "idle",
           t[2] = "main" /\ what = "down" => doing[Worker(t[1])] = "idle"
    PROVE  Placed' /\ SlotsAreHeld'
<1>1. Placed'
  BY GoPlaced DEF Kept
<1>2. t \in slots' <=> Passes(t) /\ Inside(depth, what)
  BY DEF Kept, SlotsAreHeld
<1> QED
  BY <1>1, <1>2, GoSlots

-----------------------------------------------------------------------------
(* Every step keeps the goroutines in their places and the tokens with     *)
(* those inside.                                                           *)

Positioned ==
    /\ chain \in Chains
    /\ at \in [Threads -> 0 .. Depth]
    /\ doing \in [Threads -> {"idle", "down", "up", "panic", "awaiting",
                              "look", "mark", "forward", "done", "dropped"}]
    /\ crashed \in BOOLEAN
    /\ Placed /\ SlotsAreHeld

DataOK ==
    /\ code \in [Threads -> Statuses]
    /\ passes \in [Threads -> BOOLEAN]
    /\ recorded \in [Requests -> [1 .. Depth -> Statuses]]
    /\ client \in [Requests -> Statuses]
    /\ slots \subseteq Threads
    /\ attempt \in [Requests -> 0 .. MaxRetries]
    /\ ctx \in [Requests -> {"live", "expired", "gone"}]
    /\ verdict \in [Requests -> {"none", "admitted", "success", "failure"}]
    /\ refusing \in BOOLEAN
    /\ handled \subseteq Requests /\ blank \subseteq Requests

Base == Positioned /\ DataOK

LEMMA BaseTypes == Base <=> TypeOK /\ Placed /\ SlotsAreHeld
BY DEF Base, Positioned, DataOK, TypeOK

LEMMA MoveStep ==
    ASSUME Base, NEW t \in Threads, NEW depth \in 0 .. Depth,
           NEW what \in {"down", "up", "panic", "look", "mark", "forward"},
           Go(t, depth, what), Kept(t, depth, what), slots' = slots,
           doing[t] # "idle",
           t[2] = "main" /\ what = "down" => doing[Worker(t[1])] = "idle"
    PROVE  Positioned' /\ Depth' = Depth
<1>1. TypeOK /\ Placed /\ SlotsAreHeld
  BY BaseTypes
<1>2. Placed' /\ SlotsAreHeld'
  BY <1>1, KeptStep
<1>3. /\ chain' = chain /\ Depth' = Depth /\ crashed' = crashed
      /\ at' \in [Threads -> 0 .. Depth]
      /\ doing' \in [Threads -> {"idle", "down", "up", "panic", "awaiting",
                                 "look", "mark", "forward", "done", "dropped"}]
  BY <1>1, GoFacts
<1> QED
  BY <1>2, <1>3 DEF Positioned, Base

LEMMA DownStep ==
    ASSUME Base, NEW t \in Threads, NEW layer \in Layers \ {"respond", "bulkhead"},
           LayerOf(t) = layer, doing[t] = "down" \/ (doing[t] = "up" /\ layer = "retry"),
           Go(t, at[t] + 1, "down"), slots' = slots
    PROVE  Positioned' /\ Depth' = Depth
<1>1. TypeOK /\ Placed
  BY BaseTypes
<1>2. /\ at[t] + 1 \in 0 .. Depth
      /\ t[2] = "main" => doing[Worker(t[1])] = "idle"
      /\ Kept(t, at[t] + 1, "down")
  BY <1>1, DownKeeps
<1> QED
  BY <1>2, MoveStep

LEMMA RiseStep ==
    ASSUME Base, NEW t \in Threads, NEW what \in {"up", "panic"},
           at[t] \in 1 .. Depth,
           doing[t] \in {"down", "up", "panic", "awaiting", "forward"},
           doing[t] \in {"up", "panic"} =>
               LayerOf(t) # "bulkhead" /\ (t[2] = "worker" => LayerOf(t) # "respond"),
           Go(t, at[t] - 1, what), slots' = slots
    PROVE  Positioned' /\ Depth' = Depth
<1>1. TypeOK /\ Placed
  BY BaseTypes
<1>2. at[t] - 1 \in 0 .. Depth /\ Kept(t, at[t] - 1, what)
  BY <1>1, RiseKeeps
<1> QED
  BY <1>2, MoveStep

LEMMA StayStep ==
    ASSUME Base, NEW t \in Threads, NEW what \in Writing,
           at[t] \in 1 .. Depth,
           doing[t] \in {"down", "up", "awaiting"} \union Writing,
           doing[t] = "up" => LayerOf(t) = "retry",
           Go(t, at[t], what), slots' = slots
    PROVE  Positioned' /\ Depth' = Depth
<1>1. TypeOK /\ Placed
  BY BaseTypes
<1>2. at[t] \in 0 .. Depth /\ Kept(t, at[t], what)
  BY <1>1, StayKeeps
<1> QED
  BY <1>2, MoveStep DEF Writing

(* A goroutine that writes is at a layer or at the handler.                *)
LEMMA WritingPlace ==
    ASSUME Base, NEW t \in Threads, doing[t] \in Writing
    PROVE  at[t] \in 1 .. Depth
<1>1. at[t] \in 0 .. Depth /\ PlaceOf(t, at[t], doing[t]) /\ Depth \in Nat
      /\ DOMAIN chain = 1 .. Depth - 1
  BY BaseTypes, PlacedAt, ChainFacts DEF TypeOK
<1>2. at[t] # 0
  BY <1>1 DEF PlaceOf, MainAt, WorkerAt, Writing
<1> QED
  BY <1>1, <1>2

LEMMA LayerPlace ==
    ASSUME Base, NEW t \in Threads, NEW layer \in Layers, LayerOf(t) = layer
    PROVE  /\ at[t] \in 1 .. Depth /\ at[t] \in DOMAIN chain /\ chain[at[t]] = layer
           /\ at[t] < Depth
BY LayerFacts, BaseTypes, ChainFacts

LEMMA HandlerPlace ==
    ASSUME Base, NEW t \in Threads, AtHandler(t)
    PROVE  at[t] \in 1 .. Depth /\ doing[t] = "down"
BY BaseTypes, ChainFacts DEF AtHandler

(* Whoever is at the bulkhead is the goroutine that passes it, and comes   *)
(* back up from it to a place of its own.                                  *)
LEMMA HolderPasses ==
    ASSUME TypeOK, Placed, NEW t \in Threads, at[t] \in DOMAIN chain,
           chain[at[t]] = "bulkhead", doing[t] # "idle"
    PROVE  Passes(t)
<1> DEFINE d == at[t]
<1>1. /\ PlaceOf(t, d, doing[t]) /\ DOMAIN chain \subseteq Int
      /\ \A i, j \in DOMAIN chain : chain[i] = chain[j] => i = j
  BY PlacedAt, ChainFacts
<1>2. ASSUME t[2] = "main" PROVE ~IsAbove("respond", "bulkhead")
  <2>1. \A i \in DOMAIN chain : chain[i] = "respond" => d <= i
    BY <1>1, <1>2 DEF PlaceOf, MainAt
  <2> QED
    BY <1>1, <2>1 DEF IsAbove
<1>3. ASSUME t[2] = "worker" PROVE IsAbove("respond", "bulkhead")
  <2>1. PICK i \in DOMAIN chain : chain[i] = "respond" /\ d >= i
    BY <1>1, <1>3 DEF PlaceOf, WorkerAt
  <2>2. i # d /\ i \in Int /\ d \in Int /\ d \in DOMAIN chain /\ chain[d] = "bulkhead"
    BY <1>1, <2>1
  <2>3. i < d
    BY <2>1, <2>2
  <2> QED
    BY <2>1, <2>2, <2>3 DEF IsAbove
<1> QED
  BY <1>2, <1>3, ThreadFacts DEF Passes

LEMMA PlaceBelowBulkhead ==
    ASSUME TypeOK, Placed, NEW t \in Threads, at[t] \in DOMAIN chain,
           chain[at[t]] = "bulkhead", doing[t] \in {"up", "panic"}
    PROVE  at[t] - 1 \in 0 .. Depth /\ PlaceOf(t, at[t] - 1, doing[t])
<1> DEFINE d == at[t]
<1>1. /\ PlaceOf(t, d, doing[t]) /\ DOMAIN chain = 1 .. Depth - 1 /\ Depth \in Nat
      /\ d \in DOMAIN chain /\ chain[d] = "bulkhead"
  BY PlacedAt, ChainFacts
<1> HIDE DEF d
<1>2. d - 1 \in 0 .. Depth /\ d - 1 < Depth /\ d \in Int
  BY <1>1
<1>3. ASSUME t[2] = "main" PROVE MainAt(d - 1, doing[t])
  BY <1>1, <1>2, <1>3 DEF PlaceOf, MainAt, Writing
<1>4. ASSUME t[2] # "main" PROVE WorkerAt(d - 1, doing[t])
  <2>1. PICK i \in DOMAIN chain : chain[i] = "respond" /\ d >= i
    BY <1>1, <1>4 DEF PlaceOf, WorkerAt
  <2>2. i # d /\ i \in Int
    BY <1>1, <2>1
  <2>3. d - 1 >= i
    BY <1>2, <2>1, <2>2
  <2> QED
    BY <1>2, <2>1, <2>3 DEF WorkerAt, Writing
<1> QED
  BY <1>2, <1>3, <1>4 DEF PlaceOf, d

LEMMA HandlerBase ==
    ASSUME Base, NEW t \in Threads, HandlerStep(t)
    PROVE  Base'
<1> USE ThreadFacts DEF writeVars, callVars
<1>1. ASSUME HandlerAnswers(t) PROVE Base'
  <2>1. PICK status \in {"ok", "failed"} : Answer(t, status)
    BY <1>1 DEF HandlerAnswers
  <2>2. at[t] \in 1 .. Depth /\ doing[t] = "down"
    BY <1>1, HandlerPlace DEF HandlerAnswers, Handled
  <2>3. Positioned' /\ Depth' = Depth
    BY <1>1, <2>1, <2>2, StayStep DEF HandlerAnswers, Handled, Answer, Writing
  <2>4. DataOK'
    BY <1>1, <2>1, <2>3 DEF HandlerAnswers, Handled, Answer, Base, DataOK, Statuses
  <2> QED
    BY <2>3, <2>4 DEF Base
<1>2. ASSUME HandlerReturns(t) PROVE Base'
  <2>1. at[t] \in 1 .. Depth /\ doing[t] = "down"
    BY <1>2, HandlerPlace DEF HandlerReturns, Handled
  <2>2. Positioned' /\ Depth' = Depth
    BY <1>2, <2>1, RiseStep DEF HandlerReturns, Handled, Return
  <2>3. DataOK'
    BY <1>2, <2>2 DEF HandlerReturns, Handled, Return, Base, DataOK
  <2> QED
    BY <2>2, <2>3 DEF Base
<1>3. ASSUME HandlerPanics(t) PROVE Base'
  <2>1. at[t] \in 1 .. Depth /\ doing[t] = "down"
    BY <1>3, HandlerPlace DEF HandlerPanics, Handled
  <2>2. Positioned' /\ Depth' = Depth
    BY <1>3, <2>1, RiseStep DEF HandlerPanics, Handled
  <2>3. DataOK'
    BY <1>3, <2>2 DEF HandlerPanics, Handled, Base, DataOK
  <2> QED
    BY <2>2, <2>3 DEF Base
<1>4. ASSUME Unwind(t) PROVE Base'
  <2>1. at[t] \in 1 .. Depth
    BY <1>4 DEF Unwind, Base, Positioned
  <2>2. Positioned' /\ Depth' = Depth
    BY <1>4, <2>1, RiseStep DEF Unwind
  <2>3. DataOK'
    BY <1>4, <2>2 DEF Unwind, Base, DataOK
  <2> QED
    BY <2>2, <2>3 DEF Base
<1>5. ASSUME Recover(t) PROVE Base'
  <2>1. TypeOK /\ Placed /\ SlotsAreHeld /\ Depth \in Nat
        /\ DOMAIN chain = 1 .. Depth - 1
    BY BaseTypes, ChainFacts
  <2>2. t[2] = "main" /\ 0 \in 0 .. Depth
    <3>1. ~WorkerAt(0, "panic")
      BY <2>1 DEF WorkerAt
    <3>2. PlaceOf(t, 0, "panic")
      BY <1>5, <2>1, PlacedAt DEF Recover
    <3> QED
      BY <2>1, <3>1, <3>2 DEF PlaceOf
  <2>3. PlaceOf(t, 0, "dropped") /\ ~Inside(0, "dropped") /\ ~Inside(0, "panic")
    BY <2>1, <2>2 DEF PlaceOf, MainAt, Inside, Writing
  <2>4. Go(t, 0, "dropped") /\ slots' = slots /\ at[t] = 0 /\ doing[t] = "panic"
    BY <1>5 DEF Recover
  <2>5. Placed'
    BY <2>1, <2>2, <2>3, <2>4, GoPlaced
  <2>6. SlotsAreHeld'
    <3>1. t \notin slots
      BY <2>1, <2>3, <2>4 DEF SlotsAreHeld
    <3> QED
      BY <2>1, <2>2, <2>3, <2>4, <3>1, GoSlots
  <2>7. Positioned' /\ Depth' = Depth
    BY <2>1, <2>2, <2>4, <2>5, <2>6, GoFacts DEF Positioned, TypeOK
  <2>8. DataOK'
    BY <1>5, <2>7 DEF Recover, Base, DataOK
  <2> QED
    BY <2>7, <2>8 DEF Base
<1>6. ASSUME Crash(t) PROVE Base'
  <2>1. /\ UNCHANGED <<chain, at, doing>> /\ crashed' \in BOOLEAN
        /\ UNCHANGED <<writeVars, callVars>>
    BY <1>6 DEF Crash
  <2>2. Depth' = Depth /\ slots' = slots
    BY <2>1 DEF Depth
  <2>3. Placed' /\ SlotsAreHeld'
    BY <2>1, <2>2 DEF Base, Positioned, Placed, MainAt, WorkerAt, SlotsAreHeld,
                      Passes, IsAbove, Inside
  <2> QED
    BY <2>1, <2>2, <2>3 DEF Base, Positioned, DataOK
<1> QED
  BY <1>1, <1>2, <1>3, <1>4, <1>5, <1>6 DEF HandlerStep

(* The recorders that Mark sets.                                           *)
Marked(t) ==
    IF passes[t] THEN Above(at[t])
    ELSE {i \in Above(at[t]) :
            \A j \in Above(at[t]) : j >= i => recorded[t[1]][j] = "none"}

LEMMA MarkFacts ==
    ASSUME NEW t \in Threads, Mark(t)
    PROVE  recorded' = [recorded EXCEPT ![t[1]] =
             [i \in 1 .. Depth |-> IF i \in Marked(t) THEN code[t] ELSE recorded[t[1]][i]]]
BY DEF Mark, Marked

LEMMA WriteBase ==
    ASSUME Base, NEW t \in Threads, Write(t)
    PROVE  Base'
<1> USE ThreadFacts DEF callVars
<1>1. at[t] \in 1 .. Depth
  BY WritingPlace DEF Write, Look, Mark, Forward, Writing
<1>2. ASSUME Look(t) PROVE Base'
  <2>1. Positioned' /\ Depth' = Depth
    BY <1>1, <1>2, StayStep DEF Look, Writing
  <2>2. DataOK'
    BY <1>2, <2>1 DEF Look, Base, DataOK
  <2> QED
    BY <2>1, <2>2 DEF Base
<1>3. ASSUME Mark(t) PROVE Base'
  <2>1. Positioned' /\ Depth' = Depth
    BY <1>1, <1>3, StayStep DEF Mark, Writing
  <2>2. recorded' \in [Requests -> [1 .. Depth -> Statuses]]
    <3>1. recorded' = [recorded EXCEPT ![t[1]] =
             [i \in 1 .. Depth |-> IF i \in Marked(t) THEN code[t] ELSE recorded[t[1]][i]]]
      BY <1>3, MarkFacts
    <3>2. [i \in 1 .. Depth |-> IF i \in Marked(t) THEN code[t] ELSE recorded[t[1]][i]]
            \in [1 .. Depth -> Statuses]
      <4>1. /\ code[t] \in Statuses /\ t[1] \in Requests
            /\ recorded[t[1]] \in [1 .. Depth -> Statuses]
        BY DEF Base, DataOK
      <4>2. \A i \in 1 .. Depth :
              (IF i \in Marked(t) THEN code[t] ELSE recorded[t[1]][i]) \in Statuses
        BY <4>1
      <4> QED
        BY <4>2
    <3> QED
      BY <3>1, <3>2 DEF Base, DataOK
  <2>3. DataOK'
    BY <1>3, <2>1, <2>2 DEF Mark, Base, DataOK
  <2> QED
    BY <2>1, <2>3 DEF Base
<1>4. ASSUME Forward(t) PROVE Base'
  <2>1. Positioned' /\ Depth' = Depth
    BY <1>1, <1>4, RiseStep DEF Forward
  <2>2. DataOK'
    BY <1>4, <2>1 DEF Forward, Base, DataOK, Statuses
  <2> QED
    BY <2>1, <2>2 DEF Base
<1> QED
  BY <1>2, <1>3, <1>4 DEF Write

LEMMA LayerBase ==
    ASSUME Base, NEW t \in Threads, LayerStep(t)
    PROVE  Base'
<1> USE ThreadFacts, BoundsAssumption DEF writeVars, callVars
<1>1. ASSUME Refused(t) PROVE Base'
  <2>1. at[t] \in 1 .. Depth /\ at[t] \in DOMAIN chain
    BY <1>1, LayerPlace DEF Refused, Is, Layers
  <2>2. Positioned' /\ Depth' = Depth
    BY <1>1, <2>1, StayStep DEF Refused, Is, Answer, Layers, Writing, Statuses
  <2>3. DataOK'
    BY <1>1, <2>1, <2>2 DEF Refused, Is, Answer, Layers, Writing, Statuses, Base, DataOK
  <2> QED
    BY <2>2, <2>3 DEF Base
<1>2. ASSUME Admitted(t) PROVE Base'
  <2>1. at[t] \in 1 .. Depth /\ at[t] \in DOMAIN chain
    BY <1>2, LayerPlace DEF Admitted, Is, Layers
  <2>2. Positioned' /\ Depth' = Depth
    BY <1>2, <2>1, DownStep DEF Admitted, Is, DeeperRecording, Layers, Statuses
  <2>3. DataOK'
    BY <1>2, <2>1, <2>2 DEF Admitted, Is, DeeperRecording, Layers, Statuses, Base, DataOK
  <2> QED
    BY <2>2, <2>3 DEF Base
<1>3. ASSUME Judged(t) PROVE Base'
  <2>1. at[t] \in 1 .. Depth /\ at[t] \in DOMAIN chain
    BY <1>3, LayerPlace DEF Judged, Is, Layers
  <2>2. Positioned' /\ Depth' = Depth
    BY <1>3, <2>1, RiseStep DEF Judged, Is, Return, Layers
  <2>3. DataOK'
    BY <1>3, <2>1, <2>2 DEF Judged, Is, Return, Layers, Base, DataOK
  <2> QED
    BY <2>2, <2>3 DEF Base
<1>4. ASSUME Pass(t) PROVE Base'
  <2>1. at[t] \in 1 .. Depth /\ at[t] \in DOMAIN chain
    BY <1>4, LayerPlace DEF Pass, Is, Layers
  <2>2. Positioned' /\ Depth' = Depth
    BY <1>4, <2>1, DownStep DEF Pass, Is, Deeper, Layers
  <2>3. DataOK'
    BY <1>4, <2>1, <2>2 DEF Pass, Is, Deeper, Layers, Base, DataOK
  <2> QED
    BY <2>2, <2>3 DEF Base
<1>5. ASSUME PassBack(t) PROVE Base'
  <2>1. at[t] \in 1 .. Depth /\ at[t] \in DOMAIN chain
    BY <1>5, LayerPlace DEF PassBack, Is, Layers
  <2>2. Positioned' /\ Depth' = Depth
    BY <1>5, <2>1, RiseStep DEF PassBack, Is, Return, Layers
  <2>3. DataOK'
    BY <1>5, <2>1, <2>2 DEF PassBack, Is, Return, Layers, Base, DataOK
  <2> QED
    BY <2>2, <2>3 DEF Base
<1>6. ASSUME TooMany(t) PROVE Base'
  <2>1. at[t] \in 1 .. Depth /\ at[t] \in DOMAIN chain
    BY <1>6, LayerPlace DEF TooMany, Is, Layers
  <2>2. Positioned' /\ Depth' = Depth
    BY <1>6, <2>1, StayStep DEF TooMany, Is, Answer, Layers, Writing, Statuses
  <2>3. DataOK'
    BY <1>6, <2>1, <2>2 DEF TooMany, Is, Answer, Layers, Writing, Statuses, Base, DataOK
  <2> QED
    BY <2>2, <2>3 DEF Base
<1>7. ASSUME Full(t) PROVE Base'
  <2>1. at[t] \in 1 .. Depth /\ at[t] \in DOMAIN chain
    BY <1>7, LayerPlace DEF Full, Is, Layers
  <2>2. Positioned' /\ Depth' = Depth
    BY <1>7, <2>1, StayStep DEF Full, Is, Answer, Layers, Writing, Statuses
  <2>3. DataOK'
    BY <1>7, <2>1, <2>2 DEF Full, Is, Answer, Layers, Writing, Statuses, Base, DataOK
  <2> QED
    BY <2>2, <2>3 DEF Base
<1>8. ASSUME GiveUp(t) PROVE Base'
  <2>1. at[t] \in 1 .. Depth /\ at[t] \in DOMAIN chain
    BY <1>8, LayerPlace DEF GiveUp, Is, Layers
  <2>2. Positioned' /\ Depth' = Depth
    BY <1>8, <2>1, RiseStep DEF GiveUp, Is, Return, Layers
  <2>3. DataOK'
    BY <1>8, <2>1, <2>2 DEF GiveUp, Is, Return, Layers, Base, DataOK
  <2> QED
    BY <2>2, <2>3 DEF Base
<1>9. ASSUME BeginAttempts(t) PROVE Base'
  <2>1. at[t] \in 1 .. Depth /\ at[t] \in DOMAIN chain
    BY <1>9, LayerPlace DEF BeginAttempts, Is, Layers
  <2>2. Positioned' /\ Depth' = Depth
    BY <1>9, <2>1, DownStep DEF BeginAttempts, Is, DeeperRecording, Layers, Statuses
  <2>3. DataOK'
    BY <1>9, <2>1, <2>2 DEF BeginAttempts, Is, DeeperRecording, Layers, Statuses, Base, DataOK
  <2> QED
    BY <2>2, <2>3 DEF Base
<1>10. ASSUME StopRetrying(t) PROVE Base'
  <2>1. at[t] \in 1 .. Depth /\ at[t] \in DOMAIN chain
    BY <1>10, LayerPlace DEF StopRetrying, Is, Layers
  <2>2. Positioned' /\ Depth' = Depth
    BY <1>10, <2>1, RiseStep DEF StopRetrying, Is, Return, Layers
  <2>3. DataOK'
    BY <1>10, <2>1, <2>2 DEF StopRetrying, Is, Return, Layers, Base, DataOK
  <2> QED
    BY <2>2, <2>3 DEF Base
<1>11. ASSUME TryAgain(t) PROVE Base'
  <2>1. at[t] \in 1 .. Depth /\ at[t] \in DOMAIN chain
    BY <1>11, LayerPlace DEF TryAgain, Is, Layers, AttemptFailed
  <2>2. Positioned' /\ Depth' = Depth
    BY <1>11, <2>1, DownStep DEF TryAgain, Is, DeeperRecording, Layers, Statuses, AttemptFailed
  <2>3. DataOK'
    BY <1>11, <2>1, <2>2 DEF TryAgain, Is, DeeperRecording, Layers, Statuses, Base, DataOK, AttemptFailed
  <2> QED
    BY <2>2, <2>3 DEF Base
<1>12. ASSUME Exhausted(t) PROVE Base'
  <2>1. at[t] \in 1 .. Depth /\ at[t] \in DOMAIN chain
    BY <1>12, LayerPlace DEF Exhausted, Is, Layers, AttemptFailed
  <2>2. Positioned' /\ Depth' = Depth
    BY <1>12, <2>1, StayStep DEF Exhausted, Is, Answer, Layers, Writing, Statuses, AttemptFailed
  <2>3. DataOK'
    BY <1>12, <2>1, <2>2 DEF Exhausted, Is, Answer, Layers, Writing, Statuses, Base, DataOK, AttemptFailed
  <2> QED
    BY <2>2, <2>3 DEF Base
<1>13. ASSUME Acquire(t) PROVE Base'
  <2>1. /\ Is(t, "bulkhead", "down") /\ Go(t, at[t] + 1, "down")
        /\ slots' = slots \union {t}
    BY <1>13 DEF Acquire, Deeper
  <2>2. /\ TypeOK /\ Placed /\ SlotsAreHeld /\ Depth \in Nat
        /\ DOMAIN chain = 1 .. Depth - 1
    BY BaseTypes, ChainFacts
  <2>3. /\ at[t] \in DOMAIN chain /\ chain[at[t]] = "bulkhead" /\ doing[t] = "down"
        /\ at[t] \in 1 .. Depth - 1
    BY <2>1, LayerFacts, <2>2 DEF Is, Layers
  <2>4. /\ at[t] + 1 \in 0 .. Depth /\ PlaceOf(t, at[t] + 1, "down")
        /\ t[2] = "main" => doing[Worker(t[1])] = "idle"
    BY <2>1, <2>2, DownKeeps DEF Is, Layers
  <2>5. Placed'
    BY <2>1, <2>2, <2>3, <2>4, GoPlaced
  <2>6. Inside(at[t] + 1, "down")
    BY <2>2, <2>3 DEF Inside
  <2>7. Passes(t)
    BY <2>2, <2>3, HolderPasses
  <2>8. SlotsAreHeld'
    <3>1. slots' \ {t} = slots \ {t} /\ t \in slots'
      BY <2>1
    <3> QED
      BY <2>1, <2>2, <2>4, <2>6, <2>7, <3>1, GoSlots
  <2>9. Positioned' /\ Depth' = Depth
    BY <2>1, <2>2, <2>4, <2>5, <2>8, GoFacts DEF Positioned, TypeOK
  <2>10. DataOK'
    BY <1>13, <2>9 DEF Acquire, Deeper, Base, DataOK
  <2> QED
    BY <2>9, <2>10 DEF Base
<1>14. ASSUME Release(t) PROVE Base'
  <2>1. /\ LayerOf(t) = "bulkhead" /\ doing[t] \in {"up", "panic"}
        /\ Go(t, at[t] - 1, doing[t]) /\ slots' = slots \ {t}
    BY <1>14 DEF Release
  <2>2. /\ TypeOK /\ Placed /\ SlotsAreHeld /\ Depth \in Nat
        /\ DOMAIN chain = 1 .. Depth - 1
        /\ \A i, j \in DOMAIN chain : chain[i] = chain[j] => i = j
    BY BaseTypes, ChainFacts
  <2>3. /\ at[t] \in DOMAIN chain /\ chain[at[t]] = "bulkhead"
        /\ at[t] \in 1 .. Depth - 1
    BY <2>1, <2>2, LayerFacts DEF Layers
  <2>4. at[t] - 1 \in 0 .. Depth /\ PlaceOf(t, at[t] - 1, doing[t])
    BY <2>1, <2>2, <2>3, PlaceBelowBulkhead
  <2>5. Placed'
    BY <2>1, <2>2, <2>4, GoPlaced
  <2>6. ~Inside(at[t] - 1, doing[t])
    BY <2>2, <2>3 DEF Inside
  <2>7. SlotsAreHeld'
    <3>1. slots' \ {t} = slots \ {t} /\ t \notin slots'
      BY <2>1
    <3> QED
      BY <2>1, <2>2, <2>4, <2>6, <3>1, GoSlots
  <2>8. Positioned' /\ Depth' = Depth
    BY <2>1, <2>2, <2>4, <2>5, <2>7, GoFacts DEF Positioned, TypeOK
  <2>9. DataOK'
    BY <1>14, <2>8 DEF Release, Base, DataOK
  <2> QED
    BY <2>8, <2>9 DEF Base
<1> QED
  BY <1>1, <1>2, <1>3, <1>4, <1>5, <1>6, <1>7, <1>8, <1>9, <1>10, <1>11, <1>12,
     <1>13, <1>14 DEF LayerStep

(* Steps in which nobody moves.                                            *)
LEMMA NobodyMoves ==
    ASSUME Base, UNCHANGED <<chain, at, doing, crashed, slots>>
    PROVE  Positioned' /\ Depth' = Depth
<1>1. Depth' = Depth
  BY DEF Depth
<1>2. Placed' /\ SlotsAreHeld'
  BY <1>1 DEF Base, Positioned, Placed, MainAt, WorkerAt, SlotsAreHeld,
              Passes, IsAbove, Inside
<1> QED
  BY <1>1, <1>2 DEF Base, Positioned

(* Steps to and from the ends of the chain, of goroutines outside of the   *)
(* bulkhead.                                                               *)
LEMMA EndStep ==
    ASSUME Base, NEW t \in Threads, NEW depth \in 0 .. Depth,
           NEW what \in {"down", "done"},
           Go(t, depth, what), PlaceOf(t, depth, what), slots' = slots,
           t[2] = "worker" => doing[t] # "idle",
           t[2] = "main" /\ what = "down" => doing[Worker(t[1])] = "idle",
           Passes(t) => ~Inside(at[t], doing[t]) /\ ~Inside(depth, what)
    PROVE  Positioned' /\ Depth' = Depth
<1>1. TypeOK /\ Placed /\ SlotsAreHeld
  BY BaseTypes
<1>2. Placed'
  BY <1>1, GoPlaced
<1>3. SlotsAreHeld'
  <2>1. t \notin slots
    BY <1>1 DEF SlotsAreHeld
  <2> QED
    BY <1>1, <2>1, GoSlots
<1> QED
  BY <1>1, <1>2, <1>3, GoFacts DEF Positioned, TypeOK

LEMMA ArriveBase == ASSUME Base, NEW r \in Requests, Arrive(r) PROVE Base'
<1> DEFINE t == Main(r)
<1>1. /\ t \in Threads /\ t[1] = r /\ t[2] = "main" /\ doing[t] = "idle" /\ Go(t, 1, "down")
      /\ UNCHANGED writeVars /\ UNCHANGED callVars
  BY ThreadFacts DEF Arrive
<1>2. TypeOK /\ Placed /\ Depth \in Nat /\ DOMAIN chain = 1 .. Depth - 1
      /\ Depth = Len(chain) + 1 /\ Len(chain) \in Nat
  BY BaseTypes, ChainFacts
<1>3. 1 \in 0 .. Depth /\ MainAt(1, "down")
  BY <1>2 DEF MainAt, Writing
<1>4. doing[Worker(r)] = "idle"
  BY <1>1, <1>2 DEF Placed
<1>5. ~Inside(at[t], "idle") /\ ~Inside(1, "down")
  BY <1>2 DEF Inside
<1> HIDE DEF t
<1>6. Positioned' /\ Depth' = Depth
  BY <1>1, <1>3, <1>4, <1>5, EndStep DEF PlaceOf, callVars
<1> QED
  BY <1>1, <1>6 DEF Base, DataOK, writeVars, callVars

LEMMA FinishBase == ASSUME Base, NEW r \in Requests, Finish(r) PROVE Base'
<1> DEFINE t == Main(r)
<1>1. /\ t \in Threads /\ t[1] = r /\ t[2] = "main" /\ doing[t] = "up" /\ at[t] = 0
      /\ Go(t, 0, "done") /\ UNCHANGED <<code, passes, recorded>> /\ UNCHANGED callVars
      /\ client' = [client EXCEPT ![r] = IF @ = "none" THEN "ok" ELSE @]
  BY ThreadFacts DEF Finish
<1>2. TypeOK /\ Placed /\ Depth \in Nat /\ DOMAIN chain = 1 .. Depth - 1
  BY BaseTypes, ChainFacts
<1>3. 0 \in 0 .. Depth /\ MainAt(0, "done")
  BY <1>2 DEF MainAt, Writing
<1>4. ~Inside(0, "up") /\ ~Inside(0, "done")
  BY <1>2 DEF Inside
<1> HIDE DEF t
<1>5. Positioned' /\ Depth' = Depth
  BY <1>1, <1>3, <1>4, EndStep DEF PlaceOf, callVars
<1> QED
  BY <1>1, <1>5 DEF Base, DataOK, callVars, Statuses

LEMMA WorkerDoneBase == ASSUME Base, NEW r \in Requests, WorkerDone(r) PROVE Base'
<1> DEFINE t == Worker(r)
           d == at[t]
<1>1. /\ t \in Threads /\ t[1] = r /\ t[2] = "worker" /\ doing[t] = "up"
      /\ LayerOf(t) = "respond" /\ Go(t, d, "done")
      /\ UNCHANGED writeVars /\ UNCHANGED callVars
  BY ThreadFacts DEF WorkerDone, Is
<1>2. TypeOK /\ Placed /\ DOMAIN chain = 1 .. Depth - 1 /\ Depth \in Nat
      /\ \A i, j \in DOMAIN chain : chain[i] = chain[j] => i = j
  BY BaseTypes, ChainFacts
<1>3. d \in DOMAIN chain /\ chain[d] = "respond" /\ d \in 0 .. Depth /\ d \in Int
  BY <1>1, <1>2, LayerFacts DEF Layers
<1>4. WorkerAt(d, "done")
  BY <1>3 DEF WorkerAt, Writing
<1>5. ASSUME Passes(t) PROVE ~Inside(d, "up") /\ ~Inside(d, "done")
  <2>1. PICK i \in DOMAIN chain, j \in DOMAIN chain :
          i < j /\ chain[i] = "respond" /\ chain[j] = "bulkhead"
    BY <1>1, <1>5 DEF Passes, IsAbove
  <2>2. i = d
    BY <1>2, <1>3, <2>1
  <2>3. \A k \in DOMAIN chain : chain[k] = "bulkhead" => k = j
    BY <1>2, <2>1
  <2> QED
    BY <1>2, <1>3, <2>1, <2>2, <2>3 DEF Inside
<1> HIDE DEF t, d
<1>6. Positioned' /\ Depth' = Depth
  BY <1>1, <1>3, <1>4, <1>5, EndStep DEF PlaceOf, callVars, d
<1> QED
  BY <1>1, <1>6 DEF Base, DataOK, writeVars, callVars

LEMMA DetachBase == ASSUME Base, NEW r \in Requests, Detach(r) PROVE Base'
<1> DEFINE t == Main(r)
           w == Worker(r)
           d == at[t]
<1>1. /\ t \in Threads /\ w \in Threads /\ t # w /\ doing[t] = "down"
      /\ w[2] = "worker" /\ LayerOf(t) = "respond"
      /\ at' = [at EXCEPT ![w] = d + 1]
      /\ doing' = [doing EXCEPT ![t] = "awaiting", ![w] = "down"]
      /\ chain' = chain /\ crashed' = crashed
      /\ UNCHANGED writeVars /\ UNCHANGED callVars
  BY ThreadFacts DEF Detach, Is
<1>2. TypeOK /\ Placed /\ SlotsAreHeld /\ DOMAIN chain = 1 .. Depth - 1 /\ Depth \in Nat
      /\ \A i, j \in DOMAIN chain : chain[i] = chain[j] => i = j
  BY BaseTypes, ChainFacts
<1>3. d \in DOMAIN chain /\ chain[d] = "respond" /\ d \in 1 .. Depth - 1 /\ d \in Int
  BY <1>1, <1>2, LayerFacts DEF Layers
<1>4. Depth' = Depth
  BY <1>1 DEF Depth
<1>5. /\ at \in [Threads -> 0 .. Depth] /\ at' \in [Threads -> 0 .. Depth]
      /\ at'[t] = d /\ at'[w] = d + 1
      /\ doing'[t] = "awaiting" /\ doing'[w] = "down"
      /\ (\A u \in Threads \ {t, w} : at'[u] = at[u] /\ doing'[u] = doing[u])
      /\ doing' \in [Threads -> {"idle", "down", "up", "panic", "awaiting",
                                 "look", "mark", "forward", "done", "dropped"}]
  <2> HIDE DEF w
  <2>1. d + 1 \in 0 .. Depth /\ d = at[t] /\ at \in [Threads -> 0 .. Depth]
    BY <1>2, <1>3 DEF TypeOK
  <2> HIDE DEF t, d
  <2> QED
    BY <1>1, <1>2, <2>1 DEF TypeOK
<1>6. MainAt(d, "down") /\ doing[w] = "idle"
  BY <1>1, <1>2 DEF Placed
<1>7. MainAt(d, "awaiting") /\ WorkerAt(d + 1, "down")
  BY <1>2, <1>3, <1>6 DEF MainAt, WorkerAt, Writing
<1> HIDE DEF d
<1>8. Placed'
  <2> SUFFICES ASSUME NEW q \in Requests
               PROVE  /\ MainAt(at'[Main(q)], doing'[Main(q)])
                      /\ WorkerAt(at'[Worker(q)], doing'[Worker(q)])
                      /\ doing'[Worker(q)] # "idle" =>
                            doing'[Main(q)] \notin {"idle", "down"}
    BY <1>1, <1>4 DEF Placed, MainAt, WorkerAt
  <2>1. CASE q = r
    BY <1>5, <1>7, <2>1
  <2>2. CASE q # r
    <3>1. Main(q) \in Threads \ {t, w} /\ Worker(q) \in Threads \ {t, w}
      BY <2>2, ThreadFacts
    <3> HIDE DEF t, w
    <3> QED
      BY <1>2, <1>5, <3>1 DEF Placed
  <2> QED
    BY <2>1, <2>2
<1>9. Inside(d, "awaiting") <=> Inside(d, "down")
  BY DEF Inside
<1>10. ASSUME Passes(w) PROVE ~Inside(d + 1, "down")
  <2>1. PICK i \in DOMAIN chain, j \in DOMAIN chain :
          i < j /\ chain[i] = "respond" /\ chain[j] = "bulkhead"
    BY <1>1, <1>10 DEF Passes, IsAbove
  <2>2. i = d
    BY <1>2, <1>3, <2>1
  <2>3. \A k \in DOMAIN chain : chain[k] = "bulkhead" => k = j
    BY <1>2, <2>1
  <2> QED
    BY <1>2, <1>3, <2>1, <2>2, <2>3 DEF Inside
<1> HIDE DEF t, w
<1>11. SlotsAreHeld'
  <2>1. \A u \in Threads : Passes(u)' = Passes(u)
    BY <1>1 DEF Passes, IsAbove
  <2> SUFFICES ASSUME NEW u \in Threads
               PROVE  u \in slots <=> Passes(u) /\ Inside(at'[u], doing'[u])
    BY <1>1, <2>1 DEF SlotsAreHeld, Inside, callVars
  <2>2. u \in slots <=> Passes(u) /\ Inside(at[u], doing[u])
    BY <1>2 DEF SlotsAreHeld
  <2>3. CASE u = t
    BY <1>1, <1>5, <1>9, <2>2, <2>3 DEF d
  <2>4. CASE u = w
    <3>1. ~Inside(at[w], "idle")
      BY DEF Inside
    <3> QED
      BY <1>5, <1>6, <1>10, <2>2, <2>4, <3>1
  <2>5. CASE u \notin {t, w}
    BY <1>5, <2>2, <2>5
  <2> QED
    BY <2>3, <2>4, <2>5
<1>12. Positioned'
  BY <1>1, <1>4, <1>5, <1>8, <1>11 DEF Positioned, Base
<1> QED
  BY <1>1, <1>4, <1>12 DEF Base, DataOK, writeVars, callVars

LEMMA RequestBase ==
    ASSUME Base, NEW r \in Requests, RequestStep(r)
    PROVE  Base'
<1> USE ThreadFacts DEF writeVars, callVars
<1>1. ASSUME ClientLeaves(r) PROVE Base'
  <2>1. Positioned' /\ Depth' = Depth
    BY <1>1, NobodyMoves DEF ClientLeaves
  <2> QED
    BY <1>1, <2>1 DEF ClientLeaves, Base, DataOK
<1>2. ASSUME Expire(r) PROVE Base'
  <2>1. Positioned' /\ Depth' = Depth
    BY <1>2, NobodyMoves DEF Expire
  <2> QED
    BY <1>2, <2>1 DEF Expire, Base, DataOK
<1>3. ASSUME SeeDone(r) PROVE Base'
  <2>1. at[Main(r)] \in 1 .. Depth
    BY <1>3, LayerPlace DEF SeeDone, Is, Layers
  <2>2. Positioned' /\ Depth' = Depth
    BY <1>3, <2>1, RiseStep DEF SeeDone, Is, Return
  <2> QED
    BY <1>3, <2>2 DEF SeeDone, Return, Base, DataOK
<1>4. ASSUME SeeExpired(r) PROVE Base'
  <2>1. at[Main(r)] \in 1 .. Depth
    BY <1>4, LayerPlace DEF SeeExpired, Is, Layers
  <2>2. Positioned' /\ Depth' = Depth
    BY <1>4, <2>1, StayStep DEF SeeExpired, Is, Answer, Writing
  <2> QED
    BY <1>4, <2>2 DEF SeeExpired, Answer, Base, DataOK, Statuses
<1> QED
  BY <1>1, <1>2, <1>3, <1>4, ArriveBase, FinishBase, DetachBase, WorkerDoneBase
  DEF RequestStep

LEMMA InitBase == ASSUME Init PROVE Base
<1>1. /\ chain \in Chains /\ chain \in Seq(Layers) /\ Depth \in Nat
      /\ 0 \in 0 .. Depth /\ 0 \in 0 .. MaxRetries
  BY ChainsAssumption, BoundsAssumption DEF Init, Depth
<1>2. MainAt(0, "idle") /\ WorkerAt(0, "idle") /\ ~Inside(0, "idle")
  <2>1. DOMAIN chain = 1 .. Len(chain)
    BY <1>1
  <2> QED
    BY <2>1 DEF MainAt, WorkerAt, Inside, Writing
<1>3. Placed
  BY <1>2, ThreadFacts DEF Init, Placed
<1>4. SlotsAreHeld
  BY <1>2 DEF Init, SlotsAreHeld
<1> QED
  BY <1>1, <1>3, <1>4 DEF Init, Base, Positioned, DataOK, Statuses

LEMMA NextBase == ASSUME Base, [Next]_vars PROVE Base'
<1>1. CASE UNCHANGED vars
  <2>1. Positioned' /\ Depth' = Depth
    BY <1>1, NobodyMoves DEF vars
  <2> QED
    BY <1>1, <2>1 DEF vars, Base, DataOK
<1> QED
  BY <1>1, HandlerBase, LayerBase, WriteBase, RequestBase DEF Next

(* What a program point is: any state of the program has this shape.       *)
THEOREM TypeCorrectness == Spec => []TypeOK
<1>1. Spec => []Base
  BY InitBase, NextBase, PTL DEF Spec
<1>2. Base => TypeOK
  BY BaseTypes
<1> QED
  BY <1>1, <1>2, PTL

-----------------------------------------------------------------------------
(* How many run at once.                                                   *)

LEMMA FiniteThreads ==
    /\ IsFiniteSet(Threads)
    /\ MaxConcurrent \in Nat
    /\ \A S \in SUBSET Threads : IsFiniteSet(S) /\ Cardinality(S) \in Nat
<1>1. IsFiniteSet({"main", "worker"})
  <2>1. IsFiniteSet({}) /\ IsFiniteSet({"main"} \union {"worker"})
    BY FS_EmptySet, FS_AddElement, FS_Singleton
  <2>2. {"main"} \union {"worker"} = {"main", "worker"}
    OBVIOUS
  <2> QED
    BY <2>1, <2>2
<1>2. IsFiniteSet(Threads)
  BY <1>1, BoundsAssumption, FS_Product DEF Threads
<1> QED
  BY <1>2, BoundsAssumption, FS_Subset, FS_CardinalityType

FewTokens == Cardinality(slots) <= MaxConcurrent

LEMMA FewTokensStep ==
    ASSUME Base, FewTokens, [Next]_vars
    PROVE  FewTokens'
<1>1. slots \subseteq Threads /\ IsFiniteSet(slots)
      /\ Cardinality(slots) \in Nat /\ MaxConcurrent \in Nat
  BY FiniteThreads DEF Base, DataOK
<1>2. ASSUME NEW t \in Threads, Acquire(t) PROVE FewTokens'
  <2>1. slots' = slots \union {t} /\ Cardinality(slots) < MaxConcurrent
    BY <1>2 DEF Acquire
  <2>2. Cardinality(slots') <= Cardinality(slots) + 1 /\ Cardinality(slots') \in Nat
    <3>1. /\ IsFiniteSet(slots \union {t})
          /\ Cardinality(slots \union {t}) = IF t \in slots THEN Cardinality(slots)
                                             ELSE Cardinality(slots) + 1
      BY <1>1, FS_AddElement
    <3> QED
      BY <1>1, <2>1, <3>1
  <2> QED
    BY <1>1, <2>1, <2>2 DEF FewTokens
<1>3. ASSUME NEW t \in Threads, Release(t) PROVE FewTokens'
  <2>1. slots' = slots \ {t}
    BY <1>3 DEF Release
  <2>2. Cardinality(slots \ {t}) <= Cardinality(slots)
        /\ Cardinality(slots \ {t}) \in Nat
    BY <1>1, FiniteThreads, FS_Subset
  <2> QED
    BY <1>1, <2>1, <2>2 DEF FewTokens
<1>4. ASSUME slots' = slots PROVE FewTokens'
  BY <1>4 DEF FewTokens
<1>5. ASSUME NEW t \in Threads, HandlerStep(t) PROVE slots' = slots
  BY <1>5 DEF HandlerStep, HandlerAnswers, HandlerReturns, HandlerPanics, Handled,
              Unwind, Recover, Crash, callVars
<1>6. ASSUME NEW t \in Threads, Write(t) PROVE slots' = slots
  BY <1>6 DEF Write, Look, Mark, Forward, callVars
<1>7. ASSUME NEW t \in Threads, LayerStep(t), ~Acquire(t), ~Release(t)
      PROVE  slots' = slots
  BY <1>7 DEF LayerStep, Refused, Admitted, Judged, Pass, PassBack, TooMany, Full, GiveUp,
              BeginAttempts, StopRetrying, TryAgain, Exhausted, callVars
<1>8. ASSUME NEW r \in Requests, RequestStep(r) PROVE slots' = slots
  BY <1>8 DEF RequestStep, Arrive, Finish, ClientLeaves, Expire, Detach, WorkerDone,
              SeeDone, SeeExpired, callVars
<1>9. CASE UNCHANGED vars
  BY <1>4, <1>9 DEF vars
<1> QED
  BY <1>2, <1>3, <1>4, <1>5, <1>6, <1>7, <1>8, <1>9 DEF Next

(* A handler that runs below the bulkhead holds a token, unless the layer  *)
(* that detaches stands between the two.                                   *)
LEMMA HandlersHoldTokens ==
    ASSUME Base, Contains("bulkhead"), ~IsAbove("bulkhead", "respond"),
           NEW t \in Threads, AtHandler(t)
    PROVE  t \in slots
<1>1. /\ SlotsAreHeld /\ PlaceOf(t, Depth, "down") /\ DOMAIN chain = 1 .. Depth - 1
      /\ Depth \in Nat
      /\ \A i, j \in DOMAIN chain : chain[i] = chain[j] => i = j
  BY BaseTypes, ChainFacts, PlacedAt DEF AtHandler
<1>2. PICK b \in DOMAIN chain : chain[b] = "bulkhead"
  BY DEF Contains
<1>3. Inside(Depth, "down")
  BY <1>1, <1>2 DEF Inside
<1>4. ASSUME t[2] = "main" PROVE ~IsAbove("respond", "bulkhead")
  <2>1. \A i \in DOMAIN chain : chain[i] # "respond"
    BY <1>1, <1>4 DEF PlaceOf, MainAt
  <2> QED
    BY <2>1 DEF IsAbove
<1>5. ASSUME t[2] = "worker" PROVE IsAbove("respond", "bulkhead")
  <2>1. PICK i \in DOMAIN chain : chain[i] = "respond"
    BY <1>1, <1>5 DEF PlaceOf, WorkerAt
  <2>2. i # b /\ i \in Int /\ b \in Int /\ ~(b < i)
    BY <1>1, <1>2, <2>1 DEF IsAbove
  <2>3. i < b
    BY <2>2
  <2> QED
    BY <1>2, <2>1, <2>3 DEF IsAbove
<1>6. Passes(t)
  BY <1>4, <1>5, ThreadFacts DEF Passes
<1> QED
  BY <1>1, <1>3, <1>6 DEF SlotsAreHeld, AtHandler

LEMMA TokensBound == Base /\ FewTokens => HandlersAreBounded
<1> SUFFICES ASSUME Base, FewTokens PROVE HandlersAreBounded
  OBVIOUS
<1>1. slots = {t \in Threads : Passes(t) /\ Below(t, "bulkhead")}
  <2>1. SlotsAreHeld /\ slots \subseteq Threads
    BY DEF Base, Positioned, DataOK
  <2>2. \A t \in Threads : Below(t, "bulkhead") <=> Inside(at[t], doing[t])
    BY DEF Below, Inside
  <2> QED
    BY <2>1, <2>2 DEF SlotsAreHeld
<1>2. ASSUME Contains("bulkhead"), ~IsAbove("bulkhead", "respond")
      PROVE  Cardinality({t \in Threads : AtHandler(t)}) <= MaxConcurrent
  <2> DEFINE running == {t \in Threads : AtHandler(t)}
  <2>1. running \subseteq slots
    BY <1>2, HandlersHoldTokens
  <2>2. slots \subseteq Threads /\ running \subseteq Threads
    BY DEF Base, DataOK
  <2> HIDE DEF running
  <2>3. Cardinality(running) <= Cardinality(slots)
        /\ Cardinality(running) \in Nat /\ Cardinality(slots) \in Nat
        /\ MaxConcurrent \in Nat
    BY <2>1, <2>2, FiniteThreads, FS_Subset
  <2>4. Cardinality(running) <= MaxConcurrent
    BY <2>3 DEF FewTokens
  <2> QED
    BY <2>4 DEF running
<1> QED
  BY <1>1, <1>2 DEF HandlersAreBounded, FewTokens

(* Bulkhead bounds the handlers that run at once for any chain, and no     *)
(* panic, retry, timeout or client that leaves loses one of its tokens.    *)
THEOREM BoundSafety == Spec => []HandlersAreBounded
<1>1. Init => Base /\ FewTokens
  <2>1. ASSUME Init PROVE FewTokens
    BY <2>1, FS_EmptySet, FiniteThreads DEF Init, FewTokens
  <2> QED
    BY <2>1, InitBase
<1>2. Base /\ FewTokens /\ [Next]_vars => (Base /\ FewTokens)'
  BY NextBase, FewTokensStep
<1>3. Spec => [](Base /\ FewTokens)
  BY <1>1, <1>2, PTL DEF Spec
<1> QED
  BY <1>3, TokensBound, PTL

-----------------------------------------------------------------------------
(* What the client is told, in a chain without TimeoutWithResponse: one    *)
(* goroutine deals with a request, so what it has looked at does not       *)
(* change before it writes.                                                *)

LEMMA OnlyMain ==
    ASSUME Base, ~Contains("respond"), NEW t \in Threads, doing[t] # "idle"
    PROVE  t[1] \in Requests /\ t = Main(t[1]) /\ t[2] = "main"
<1>1. PlaceOf(t, at[t], doing[t])
  BY BaseTypes, PlacedAt
<1>2. ~WorkerAt(at[t], doing[t])
  BY DEF WorkerAt, Contains
<1> QED
  BY <1>1, <1>2, ThreadFacts DEF PlaceOf

Sent(r) ==
    LET t == Main(r) IN
    /\ doing[t] \in Writing => code[t] # "none"
    /\ code[t] = "ok" => r \in handled
    /\ client[r] = "none" =>
          /\ doing[t] # "forward" => \A i \in DOMAIN chain : recorded[r][i] = "none"
          /\ doing[t] \in {"mark", "forward"} => passes[t]
          /\ doing[t] \in {"up", "done"} => r \in handled \union blank
    /\ client[r] = "ok" => r \in handled \union blank

AllSent == \A r \in Requests : Sent(r)

(* What a step of one goroutine leaves alone.                              *)
Alone(t) ==
    /\ chain' = chain
    /\ \A u \in Threads \ {t} :
         at'[u] = at[u] /\ doing'[u] = doing[u] /\ code'[u] = code[u] /\ passes'[u] = passes[u]
    /\ \A r \in Requests \ {t[1]} : recorded'[r] = recorded[r] /\ client'[r] = client[r]
    /\ handled \subseteq handled' /\ blank \subseteq blank'

LEMMA AloneSent ==
    ASSUME AllSent, NEW t \in Threads, t = Main(t[1]), Alone(t), Sent(t[1])'
    PROVE  AllSent'
<1> SUFFICES ASSUME NEW r \in Requests, r # t[1] PROVE Sent(r)'
  BY DEF AllSent
<1>1. Main(r) \in Threads \ {t} /\ r \in Requests \ {t[1]}
  BY ThreadFacts
<1>2. Sent(r)
  BY DEF AllSent
<1> QED
  BY <1>1, <1>2 DEF Sent, Alone

(* The goroutine moves on without writing, behind a fresh recorder or not. *)
Fresh(t) == \/ recorded' = recorded
            \/ recorded' = [recorded EXCEPT ![t[1]][at[t]] = "none"]

LEMMA QuietStep ==
    ASSUME Base, AllSent, NEW t \in Threads, t = Main(t[1]), NEW depth \in 0 .. Depth,
           NEW what \in {"down", "up", "panic", "dropped"}, Go(t, depth, what),
           code' = code, passes' = passes, client' = client, Fresh(t),
           handled \subseteq handled', blank \subseteq blank',
           doing[t] # "forward",
           what = "up" => doing[t] = "up" \/ t[1] \in handled' \union blank'
    PROVE  Alone(t) /\ AllSent'
<1>1. /\ chain' = chain /\ doing'[t] = what
      /\ \A u \in Threads : u # t => at'[u] = at[u] /\ doing'[u] = doing[u]
  BY GoFacts, BaseTypes
<1>2. recorded \in [Requests -> [1 .. Depth -> Statuses]] /\ t[1] \in Requests
      /\ DOMAIN chain \subseteq 1 .. Depth
  BY ThreadFacts, BaseTypes, ChainFacts DEF TypeOK
<1>3. /\ \A r \in Requests \ {t[1]} : recorded'[r] = recorded[r]
      /\ \A i \in DOMAIN chain : recorded'[t[1]][i] \in {recorded[t[1]][i], "none"}
  BY <1>2 DEF Fresh
<1>4. Alone(t)
  BY <1>1, <1>3 DEF Alone
<1>5. Sent(t[1])
  BY <1>2 DEF AllSent
<1>6. Sent(t[1])'
  BY <1>1, <1>3, <1>5 DEF Sent, Writing
<1> QED
  BY <1>4, <1>6, AloneSent

(* The goroutine begins to write a status.                                 *)
LEMMA AnswerStep ==
    ASSUME Base, AllSent, NEW t \in Threads, t = Main(t[1]),
           NEW status \in Statuses \ {"none"}, Answer(t, status),
           handled \subseteq handled', blank \subseteq blank',
           doing[t] # "forward",
           status = "ok" => t[1] \in handled'
    PROVE  Alone(t) /\ AllSent'
<1>1. /\ chain' = chain /\ doing'[t] = "look"
      /\ \A u \in Threads : u # t => at'[u] = at[u] /\ doing'[u] = doing[u]
  BY GoFacts, BaseTypes DEF Answer, TypeOK
<1>2. code'[t] = status /\ (\A u \in Threads : u # t => code'[u] = code[u])
      /\ UNCHANGED <<passes, recorded, client>> /\ t[1] \in Requests
  BY ThreadFacts, BaseTypes DEF TypeOK, Answer
<1>3. Alone(t)
  BY <1>1, <1>2 DEF Alone
<1>4. Sent(t[1])
  BY <1>2 DEF AllSent
<1>5. Sent(t[1])'
  BY <1>1, <1>2, <1>4 DEF Sent, Writing
<1> QED
  BY <1>3, <1>5, AloneSent

LEMMA WriteSent ==
    ASSUME Base, AllSent, ~Contains("respond"), NEW t \in Threads, Write(t)
    PROVE  Alone(t) /\ AllSent'
<1>1. t = Main(t[1]) /\ t[1] \in Requests /\ at[t] \in 1 .. Depth
  BY OnlyMain, WritingPlace DEF Write, Look, Mark, Forward, Writing
<1>2. TypeOK /\ Depth \in Nat /\ DOMAIN chain = 1 .. Depth - 1
      /\ at[t] \in 0 .. Depth /\ at[t] - 1 \in 0 .. Depth
  BY <1>1, BaseTypes, ChainFacts
<1>3. Sent(t[1])
  BY <1>1 DEF AllSent
<1>4. ASSUME Look(t) PROVE Alone(t) /\ Sent(t[1])'
  <2>1. /\ chain' = chain /\ doing'[t] = "mark" /\ doing[t] = "look"
        /\ \A u \in Threads : u # t => at'[u] = at[u] /\ doing'[u] = doing[u]
    BY <1>2, <1>4, GoFacts DEF Look
  <2>2. /\ UNCHANGED <<code, recorded, client, handled, blank>>
        /\ passes'[t] = \A i \in Above(at[t]) : recorded[t[1]][i] = "none"
        /\ \A u \in Threads : u # t => passes'[u] = passes[u]
    BY <1>2, <1>4 DEF Look, TypeOK, callVars
  <2>3. Alone(t)
    BY <2>1, <2>2 DEF Alone
  <2>4. ASSUME client[t[1]] = "none" PROVE passes'[t]
    BY <1>1, <1>3, <2>1, <2>2, <2>4 DEF Sent, Above
  <2> QED
    BY <1>1, <1>3, <2>1, <2>2, <2>3, <2>4 DEF Sent, Writing
<1>5. ASSUME Mark(t) PROVE Alone(t) /\ Sent(t[1])'
  <2>1. /\ chain' = chain /\ doing'[t] = "forward" /\ doing[t] = "mark"
        /\ \A u \in Threads : u # t => at'[u] = at[u] /\ doing'[u] = doing[u]
    BY <1>2, <1>5, GoFacts DEF Mark
  <2>2. /\ UNCHANGED <<code, passes, client, handled, blank>>
        /\ \A r \in Requests \ {t[1]} : recorded'[r] = recorded[r]
    BY <1>2, <1>5, MarkFacts DEF Mark, TypeOK, callVars
  <2>3. Alone(t)
    BY <2>1, <2>2 DEF Alone
  <2> QED
    BY <1>1, <1>3, <2>1, <2>2, <2>3 DEF Sent, Writing
<1>6. ASSUME Forward(t) PROVE Alone(t) /\ Sent(t[1])'
  <2>1. /\ chain' = chain /\ doing'[t] = "up" /\ doing[t] = "forward"
        /\ \A u \in Threads : u # t => at'[u] = at[u] /\ doing'[u] = doing[u]
    BY <1>2, <1>6, GoFacts DEF Forward
  <2>2. /\ UNCHANGED <<passes, recorded, handled, blank>>
        /\ code'[t] = "none" /\ (\A u \in Threads : u # t => code'[u] = code[u])
        /\ \A r \in Requests \ {t[1]} : client'[r] = client[r]
    BY <1>1, <1>2, <1>6 DEF Forward, TypeOK, callVars
  <2>3. Alone(t)
    BY <2>1, <2>2 DEF Alone
  <2>4. client[t[1]] = "none" => passes[t]
    BY <1>1, <1>3, <2>1 DEF Sent
  <2>5. client'[t[1]] = IF client[t[1]] # "none" THEN client[t[1]] ELSE code[t]
    BY <1>1, <1>2, <1>6, <2>4 DEF Forward, TypeOK
  <2>6. code[t] # "none" /\ (code[t] = "ok" => t[1] \in handled)
    BY <1>1, <1>3, <2>1 DEF Sent, Writing
  <2> QED
    BY <1>1, <1>3, <2>1, <2>2, <2>3, <2>5, <2>6 DEF Sent, Writing
<1> QED
  BY <1>1, <1>4, <1>5, <1>6, AloneSent DEF Write

LEMMA HandlerSent ==
    ASSUME Base, AllSent, ~Contains("respond"), NEW t \in Threads, HandlerStep(t)
    PROVE  Alone(t) /\ AllSent'
<1>1. doing[t] # "idle" /\ doing[t] # "forward"
  BY DEF HandlerStep, HandlerAnswers, HandlerReturns, HandlerPanics, Handled, AtHandler,
         Unwind, Recover, Crash, Is
<1>2. t[1] \in Requests /\ t = Main(t[1]) /\ t[2] = "main"
  BY <1>1, OnlyMain
<1>3. Depth \in Nat /\ at[t] \in 0 .. Depth /\ 0 \in 0 .. Depth
      /\ (at[t] > 0 => at[t] - 1 \in 0 .. Depth)
  BY BaseTypes, ChainFacts DEF TypeOK
<1> USE DEF Handled, Fresh, callVars, writeVars
<1>4. ASSUME HandlerAnswers(t) PROVE Alone(t) /\ AllSent'
  <2>1. PICK status \in {"ok", "failed"} : Answer(t, status)
    BY <1>4 DEF HandlerAnswers
  <2>2. status \in Statuses \ {"none"} /\ t[1] \in handled'
    BY <1>4 DEF HandlerAnswers, Statuses
  <2> QED
    BY <1>1, <1>2, <1>4, <2>1, <2>2, AnswerStep DEF HandlerAnswers
<1>5. ASSUME HandlerReturns(t) PROVE Alone(t) /\ AllSent'
  <2>1. at[t] - 1 \in 0 .. Depth
    BY <1>3, <1>5, ChainFacts, BaseTypes DEF HandlerReturns, AtHandler
  <2> QED
    BY <1>1, <1>2, <1>5, <2>1, QuietStep DEF HandlerReturns, Return
<1>6. ASSUME HandlerPanics(t) PROVE Alone(t) /\ AllSent'
  <2>1. at[t] - 1 \in 0 .. Depth
    BY <1>3, <1>6, ChainFacts, BaseTypes DEF HandlerPanics, AtHandler
  <2> QED
    BY <1>1, <1>2, <1>6, <2>1, QuietStep DEF HandlerPanics
<1>7. ASSUME Unwind(t) PROVE Alone(t) /\ AllSent'
  BY <1>1, <1>2, <1>3, <1>7, QuietStep DEF Unwind
<1>8. ASSUME Recover(t) PROVE Alone(t) /\ AllSent'
  BY <1>1, <1>2, <1>3, <1>8, QuietStep DEF Recover
<1>9. ~Crash(t)
  BY <1>2 DEF Crash
<1> QED
  BY <1>4, <1>5, <1>6, <1>7, <1>8, <1>9 DEF HandlerStep

LEMMA LayerSent ==
    ASSUME Base, AllSent, ~Contains("respond"), NEW t \in Threads, LayerStep(t)
    PROVE  Alone(t) /\ AllSent'
<1>1. doing[t] \in {"down", "up", "panic"} /\ \E layer \in Layers : LayerOf(t) = layer
  BY DEF LayerStep, Refused, Admitted, Judged, Pass, PassBack, TooMany, Acquire, Full, GiveUp,
         Release, BeginAttempts, StopRetrying, TryAgain, Exhausted, AttemptFailed, Is, Layers
<1>2. t[1] \in Requests /\ t = Main(t[1]) /\ doing[t] # "forward"
  BY <1>1, OnlyMain
<1>3. at[t] + 1 \in 0 .. Depth /\ at[t] - 1 \in 0 .. Depth /\ at[t] \in 0 .. Depth
  BY <1>1, BaseTypes, ChainFacts, LayerFacts
<1>4. "busy" \in Statuses \ {"none"} /\ "limited" \in Statuses \ {"none"}
  BY DEF Statuses
<1> USE DEF Is, Fresh, callVars, writeVars
<1>5. ASSUME Refused(t) \/ Full(t) \/ Exhausted(t) PROVE Alone(t) /\ AllSent'
  BY <1>2, <1>4, <1>5, AnswerStep DEF Refused, Full, Exhausted
<1>6. ASSUME TooMany(t) PROVE Alone(t) /\ AllSent'
  BY <1>2, <1>4, <1>6, AnswerStep DEF TooMany
<1>7. ASSUME Admitted(t) PROVE Alone(t) /\ AllSent'
  BY <1>2, <1>3, <1>7, QuietStep DEF Admitted, DeeperRecording
<1>8. ASSUME BeginAttempts(t) \/ TryAgain(t) PROVE Alone(t) /\ AllSent'
  BY <1>2, <1>3, <1>8, QuietStep DEF BeginAttempts, TryAgain, DeeperRecording
<1>9. ASSUME Pass(t) \/ Acquire(t) PROVE Alone(t) /\ AllSent'
  BY <1>2, <1>3, <1>9, QuietStep DEF Pass, Acquire, Deeper
<1>10. ASSUME Judged(t) PROVE Alone(t) /\ AllSent'
  BY <1>2, <1>3, <1>10, QuietStep DEF Judged, Return
<1>11. ASSUME PassBack(t) \/ StopRetrying(t) PROVE Alone(t) /\ AllSent'
  BY <1>2, <1>3, <1>11, QuietStep DEF PassBack, StopRetrying, Return
<1>12. ASSUME GiveUp(t) PROVE Alone(t) /\ AllSent'
  <2>1. t[1] \in blank' /\ blank \subseteq blank' /\ handled' = handled
    BY <1>12 DEF GiveUp
  <2> QED
    BY <1>2, <1>3, <1>12, <2>1, QuietStep DEF GiveUp, Return
<1>13. ASSUME Release(t) PROVE Alone(t) /\ AllSent'
  BY <1>2, <1>3, <1>13, QuietStep DEF Release
<1> QED
  BY <1>5, <1>6, <1>7, <1>8, <1>9, <1>10, <1>11, <1>12, <1>13 DEF LayerStep

LEMMA RequestSent ==
    ASSUME Base, AllSent, ~Contains("respond"), NEW r \in Requests, RequestStep(r)
    PROVE  Alone(Main(r)) /\ AllSent'
<1> DEFINE t == Main(r)
<1>1. t \in Threads /\ t[1] = r /\ t = Main(t[1]) /\ Worker(r) \in Threads
  BY ThreadFacts
<1>2. TypeOK /\ Depth \in Nat /\ 0 \in 0 .. Depth /\ 1 \in 0 .. Depth
      /\ DOMAIN chain = 1 .. Depth - 1
  BY BaseTypes, ChainFacts
<1>3. \A u \in Threads, what \in {"down", "up", "awaiting"} : ~Is(u, "respond", what)
  BY LayerFacts, BaseTypes DEF Is, Contains, Layers
<1>4. ~Detach(r) /\ ~WorkerDone(r) /\ ~SeeDone(r) /\ ~SeeExpired(r)
  BY <1>1, <1>3 DEF Detach, WorkerDone, SeeDone, SeeExpired
<1> USE DEF Fresh, callVars, writeVars
<1>5. ASSUME Arrive(r) PROVE Alone(t) /\ AllSent'
  <2>1. doing[t] = "idle" /\ Go(t, 1, "down")
        /\ UNCHANGED <<code, passes, recorded, client, handled, blank>>
    BY <1>5 DEF Arrive
  <2> HIDE DEF t
  <2> QED
    BY <1>1, <1>2, <2>1, QuietStep
<1>6. ASSUME ClientLeaves(r) \/ Expire(r) PROVE Alone(t) /\ AllSent'
  <2>1. UNCHANGED <<chain, at, doing, code, passes, recorded, client, handled, blank>>
    BY <1>6 DEF ClientLeaves, Expire
  <2> QED
    BY <2>1 DEF Alone, AllSent, Sent
<1>7. ASSUME Finish(r) PROVE Alone(t) /\ AllSent'
  <2>1. /\ doing[t] = "up" /\ Go(t, 0, "done")
        /\ UNCHANGED <<code, passes, recorded, handled, blank>>
        /\ client' = [client EXCEPT ![r] = IF @ = "none" THEN "ok" ELSE @]
    BY <1>7 DEF Finish
  <2>2. client'[r] = (IF client[r] = "none" THEN "ok" ELSE client[r])
        /\ \A q \in Requests \ {r} : client'[q] = client[q]
    BY <1>2, <2>1 DEF TypeOK
  <2>3. Sent(r)
    BY DEF AllSent
  <2> HIDE DEF t
  <2>4. /\ chain' = chain /\ doing'[t] = "done"
        /\ \A u \in Threads : u # t => at'[u] = at[u] /\ doing'[u] = doing[u]
    BY <1>1, <1>2, <2>1, GoFacts
  <2>5. Alone(t)
    BY <1>1, <2>1, <2>2, <2>4 DEF Alone
  <2>6. Sent(r)'
    BY <1>1, <2>1, <2>2, <2>3, <2>4 DEF Sent, Writing, t
  <2> QED
    BY <1>1, <2>5, <2>6, AloneSent
<1> QED
  BY <1>4, <1>5, <1>6, <1>7 DEF RequestStep

Told == ~Contains("respond") => AllSent

LEMMA InitTold == ASSUME Init PROVE Told
<1>1. Base
  BY InitBase
<1>2. DOMAIN chain \subseteq 1 .. Depth
  BY <1>1, BaseTypes, ChainFacts
<1> QED
  BY <1>2, ThreadFacts DEF Init, Told, AllSent, Sent, Writing

LEMMA SameChain == ASSUME [Next]_vars PROVE chain' = chain
BY DEF Next, vars, HandlerStep, HandlerAnswers, HandlerReturns, HandlerPanics, Unwind, Recover,
       Crash, LayerStep, Refused, Admitted, Judged, Pass, PassBack, TooMany, Acquire, Full,
       GiveUp, Release, BeginAttempts, StopRetrying, TryAgain, Exhausted, Write, Look, Mark,
       Forward, RequestStep, Arrive, Finish, ClientLeaves, Expire, Detach, WorkerDone,
       SeeDone, SeeExpired, Answer, Deeper, DeeperRecording, Return, Go

LEMMA NextTold == ASSUME Base, Told, [Next]_vars PROVE Told'
<1>1. chain' = chain
  BY SameChain
<1> SUFFICES ASSUME ~Contains("respond") PROVE AllSent'
  BY <1>1 DEF Told, Contains
<1>2. CASE UNCHANGED vars
  BY <1>2 DEF vars, Told, AllSent, Sent
<1> QED
  BY <1>2, HandlerSent, LayerSent, WriteSent, RequestSent DEF Next, Told

(* Whatever the chain, unless it detaches handlers, and whatever happens   *)
(* to its requests, 200 comes from a handler - or from the one error that  *)
(* Bulkhead writes nothing for.                                            *)
THEOREM AnswerSafety == Spec => []SuccessIsEarned
<1>1. Spec => [](Base /\ Told)
  BY InitBase, NextBase, InitTold, NextTold, PTL DEF Spec
<1>2. Told => SuccessIsEarned
  BY DEF Told, AllSent, Sent, SuccessIsEarned
<1> QED
  BY <1>1, <1>2, PTL

-----------------------------------------------------------------------------
(* What the breaker is told, when it is the outermost layer: below it, its *)
(* recorder holds what the client has been sent.                           *)

BreakerFirst == chain # <<>> /\ chain[1] = "breaker" /\ ~Contains("respond")

Judging(r) ==
    LET t == Main(r) IN
    /\ doing[t] = "idle" \/ (at[t] = 1 /\ doing[t] \in {"down"} \union Writing) =>
          verdict[r] = "none"
    /\ doing[t] = "idle" \/ (at[t] = 1 /\ doing[t] = "down") => client[r] = "none"
    /\ at[t] > 1 \/ (at[t] = 1 /\ doing[t] = "up") =>
          /\ verdict[r] = "admitted"
          /\ doing[t] # "forward" => recorded[r][1] = client[r]
          /\ doing[t] \in {"mark", "forward"} =>
                IF passes[t] THEN client[r] = "none"
                ELSE client[r] # "none" /\ recorded[r][1] = client[r]
          /\ doing[t] = "forward" /\ passes[t] => recorded[r][1] = code[t]
    /\ at[t] = 0 /\ doing[t] \in {"up", "done"} =>
          /\ verdict[r] = "failure" => client[r] \in ServerErrors
          /\ verdict[r] = "success" => client[r] \notin ServerErrors
          /\ verdict[r] # "admitted"

AllJudging == \A r \in Requests : Judging(r)

LEMMA AloneJudging ==
    ASSUME AllJudging, NEW t \in Threads, t = Main(t[1]), Alone(t),
           \A r \in Requests \ {t[1]} : verdict'[r] = verdict[r],
           Judging(t[1])'
    PROVE  AllJudging'
<1> SUFFICES ASSUME NEW r \in Requests, r # t[1] PROVE Judging(r)'
  BY DEF AllJudging
<1>1. Main(r) \in Threads \ {t} /\ r \in Requests \ {t[1]}
  BY ThreadFacts
<1>2. Judging(r)
  BY DEF AllJudging
<1> QED
  BY <1>1, <1>2 DEF Judging, Alone

LEMMA FirstFacts ==
    ASSUME Base, BreakerFirst
    PROVE  /\ Depth \in Nat /\ Depth > 1 /\ 1 \in DOMAIN chain
           /\ DOMAIN chain = 1 .. Depth - 1
           /\ \A t \in Threads : LayerOf(t) \in Layers =>
                /\ at[t] \in 1 .. Depth - 1
                /\ LayerOf(t) = "breaker" <=> at[t] = 1
<1>1. /\ Depth \in Nat /\ Depth = Len(chain) + 1 /\ DOMAIN chain = 1 .. Depth - 1
      /\ Len(chain) \in Nat /\ chain \in Seq(Layers)
      /\ \A i, j \in DOMAIN chain : chain[i] = chain[j] => i = j
  BY BaseTypes, ChainFacts, ChainsAssumption DEF TypeOK
<1>2. Len(chain) > 0
  BY <1>1 DEF BreakerFirst
<1>3. Depth > 1 /\ 1 \in DOMAIN chain
  BY <1>1, <1>2
<1>4. ASSUME NEW t \in Threads, LayerOf(t) \in Layers
      PROVE  at[t] \in 1 .. Depth - 1 /\ (LayerOf(t) = "breaker" <=> at[t] = 1)
  <2>1. at[t] \in DOMAIN chain /\ LayerOf(t) = chain[at[t]]
    BY <1>4 DEF LayerOf, Layers
  <2> QED
    BY <1>1, <1>3, <2>1 DEF BreakerFirst
<1> QED
  BY <1>1, <1>3, <1>4

(* Below the breaker the goroutine moves on without writing ...            *)
LEMMA QuietBelow ==
    ASSUME Base, AllJudging, BreakerFirst, NEW t \in Threads, t = Main(t[1]), at[t] > 1,
           NEW depth \in 1 .. Depth, NEW what \in {"down", "up", "panic"},
           Go(t, depth, what), what = "down" => depth > 1,
           client' = client, Fresh(t), verdict' = verdict, Alone(t),
           doing[t] \notin Writing
    PROVE  AllJudging'
<1>1. /\ chain' = chain /\ doing'[t] = what /\ at'[t] = depth /\ depth \in Int
      /\ t[1] \in Requests /\ at[t] \in 0 .. Depth /\ Depth \in Nat /\ Depth > 1
      /\ recorded \in [Requests -> [1 .. Depth -> Statuses]]
  <2>1. depth \in 0 .. Depth
    BY FirstFacts
  <2> QED
    BY <2>1, GoFacts, BaseTypes, ThreadFacts, FirstFacts DEF TypeOK
<1>2. recorded'[t[1]][1] = recorded[t[1]][1]
  BY <1>1 DEF Fresh
<1>3. Judging(t[1])
  BY <1>1 DEF AllJudging
<1>4. Judging(t[1])'
  BY <1>1, <1>2, <1>3 DEF Judging, Writing
<1> QED
  BY <1>4, AloneJudging

(* ... or begins to write.                                                 *)
LEMMA AnswerBelow ==
    ASSUME Base, AllJudging, BreakerFirst, NEW t \in Threads, t = Main(t[1]), at[t] > 1,
           NEW status \in Statuses, Answer(t, status),
           verdict' = verdict, Alone(t), doing[t] \notin Writing
    PROVE  AllJudging'
<1>1. /\ chain' = chain /\ doing'[t] = "look" /\ at'[t] = at[t]
      /\ t[1] \in Requests /\ at[t] \in 0 .. Depth /\ Depth \in Nat
      /\ UNCHANGED <<passes, recorded, client>>
  BY GoFacts, BaseTypes, ThreadFacts, FirstFacts DEF TypeOK, Answer
<1>2. Judging(t[1])
  BY <1>1 DEF AllJudging
<1>3. Judging(t[1])'
  BY <1>1, <1>2 DEF Judging, Writing
<1> QED
  BY <1>3, AloneJudging

LEMMA HandlerJudging ==
    ASSUME Base, AllJudging, BreakerFirst, NEW t \in Threads, HandlerStep(t), Alone(t)
    PROVE  AllJudging'
<1>1. doing[t] # "idle" /\ doing[t] \notin Writing
  BY DEF HandlerStep, HandlerAnswers, HandlerReturns, HandlerPanics, Handled, AtHandler,
         Unwind, Recover, Crash, Is, Writing
<1>2. t[1] \in Requests /\ t = Main(t[1]) /\ t[2] = "main"
  BY <1>1, OnlyMain DEF BreakerFirst
<1>3. TypeOK /\ Depth \in Nat /\ Depth > 1 /\ at[t] \in 0 .. Depth /\ 0 \in 0 .. Depth
  BY BaseTypes, FirstFacts DEF TypeOK
<1> USE DEF Handled, Fresh, callVars, writeVars
<1>4. ASSUME AtHandler(t) PROVE at[t] > 1 /\ at[t] - 1 \in 1 .. Depth
  BY <1>3, <1>4 DEF AtHandler
<1>5. ASSUME HandlerAnswers(t) PROVE AllJudging'
  <2>1. PICK status \in {"ok", "failed"} : Answer(t, status)
    BY <1>5 DEF HandlerAnswers
  <2>2. status \in Statuses /\ verdict' = verdict /\ at[t] > 1
    BY <1>4, <1>5 DEF HandlerAnswers, Statuses
  <2> QED
    BY <1>1, <1>2, <2>1, <2>2, AnswerBelow
<1>6. ASSUME HandlerReturns(t) PROVE AllJudging'
  BY <1>1, <1>2, <1>4, <1>6, QuietBelow DEF HandlerReturns, Return
<1>7. ASSUME HandlerPanics(t) PROVE AllJudging'
  BY <1>1, <1>2, <1>4, <1>7, QuietBelow DEF HandlerPanics
<1>8. ASSUME Unwind(t) PROVE AllJudging'
  <2>1. CASE at[t] > 1
    <3>1. at[t] - 1 \in 1 .. Depth
      BY <1>3, <2>1
    <3> QED
      BY <1>1, <1>2, <1>8, <2>1, <3>1, QuietBelow DEF Unwind
  <2>2. CASE at[t] = 1
    <3>1. doing'[t] = "panic" /\ at'[t] = 0 /\ verdict' = verdict
      BY <1>3, <1>8, <2>2, GoFacts DEF Unwind
    <3>2. Judging(t[1])'
      BY <1>2, <3>1 DEF Judging, Writing
    <3> QED
      BY <1>2, <3>1, <3>2, AloneJudging
  <2> QED
    BY <1>3, <1>8, <2>1, <2>2 DEF Unwind
<1>9. ASSUME Recover(t) PROVE AllJudging'
  <2>1. doing'[t] = "dropped" /\ at'[t] = 0 /\ verdict' = verdict
    BY <1>3, <1>9, GoFacts DEF Recover
  <2>2. Judging(t[1])'
    BY <1>2, <2>1 DEF Judging, Writing
  <2> QED
    BY <1>2, <2>1, <2>2, AloneJudging
<1>10. ~Crash(t)
  BY <1>2 DEF Crash
<1> QED
  BY <1>5, <1>6, <1>7, <1>8, <1>9, <1>10 DEF HandlerStep

LEMMA LayerJudging ==
    ASSUME Base, AllJudging, BreakerFirst, NEW t \in Threads, LayerStep(t), Alone(t)
    PROVE  AllJudging'
<1>1. doing[t] \in {"down", "up", "panic"} /\ LayerOf(t) \in Layers
  BY DEF LayerStep, Refused, Admitted, Judged, Pass, PassBack, TooMany, Acquire, Full, GiveUp,
         Release, BeginAttempts, StopRetrying, TryAgain, Exhausted, AttemptFailed, Is, Layers
<1>2. t[1] \in Requests /\ t = Main(t[1]) /\ doing[t] \notin Writing
  BY <1>1, OnlyMain DEF BreakerFirst, Writing
<1>3. /\ TypeOK /\ Depth \in Nat /\ Depth > 1
      /\ at[t] \in 1 .. Depth - 1 /\ (LayerOf(t) = "breaker" <=> at[t] = 1)
      /\ at[t] + 1 \in 0 .. Depth /\ at[t] - 1 \in 0 .. Depth
  <2>1. at[t] \in 1 .. Depth - 1 /\ Depth \in Nat
    BY <1>1, FirstFacts
  <2> QED
    BY <1>1, <2>1, FirstFacts, BaseTypes
<1>4. Judging(t[1])
  BY <1>2 DEF AllJudging
<1>5. "busy" \in Statuses /\ "limited" \in Statuses
  BY DEF Statuses
<1>6. ASSUME LayerOf(t) # "breaker"
      PROVE  at[t] > 1 /\ at[t] + 1 \in 1 .. Depth /\ at[t] - 1 \in 1 .. Depth /\ at[t] + 1 > 1
  BY <1>3, <1>6
<1> USE DEF Is, Fresh, callVars, writeVars
<1>7. ASSUME Refused(t) PROVE AllJudging'
  <2>1. /\ doing'[t] = "look" /\ at'[t] = 1 /\ verdict' = verdict /\ client' = client
        /\ doing[t] = "down" /\ at[t] = 1
    BY <1>3, <1>7, GoFacts DEF Refused, Answer
  <2>2. Judging(t[1])'
    BY <1>2, <1>4, <2>1 DEF Judging, Writing
  <2> QED
    BY <1>2, <2>1, <2>2, AloneJudging
<1>8. ASSUME Admitted(t) PROVE AllJudging'
  <2>1. /\ doing'[t] = "down" /\ at'[t] = 2 /\ client' = client
        /\ doing[t] = "down" /\ at[t] = 1 /\ Go(t, 2, "down")
        /\ recorded' = [recorded EXCEPT ![t[1]][1] = "none"]
        /\ verdict' = [verdict EXCEPT ![t[1]] = "admitted"]
    <3>1. at[t] = 1 /\ at[t] + 1 = 2 /\ 2 \in 0 .. Depth
      BY <1>3, <1>8 DEF Admitted
    <3>2. Go(t, 2, "down")
      BY <1>8, <3>1 DEF Admitted, DeeperRecording
    <3>3. doing'[t] = "down" /\ at'[t] = 2
      BY <1>3, <3>1, <3>2, GoFacts
    <3> QED
      BY <1>8, <3>1, <3>2, <3>3 DEF Admitted, DeeperRecording
  <2>2. /\ recorded'[t[1]][1] = "none" /\ verdict'[t[1]] = "admitted"
        /\ \A r \in Requests \ {t[1]} : verdict'[r] = verdict[r]
    BY <1>2, <1>3, <2>1 DEF TypeOK
  <2>3. Judging(t[1])'
    BY <1>2, <1>4, <2>1, <2>2 DEF Judging, Writing
  <2> QED
    BY <1>2, <2>2, <2>3, AloneJudging
<1>9. ASSUME Judged(t) PROVE AllJudging'
  <2>1. /\ doing'[t] = "up" /\ at'[t] = 0 /\ UNCHANGED <<client, recorded>>
        /\ doing[t] = "up" /\ at[t] = 1 /\ Go(t, 0, "up")
        /\ verdict' = [verdict EXCEPT ![t[1]] =
                          IF recorded[t[1]][1] \in ServerErrors THEN "failure" ELSE "success"]
    <3>1. at[t] = 1 /\ at[t] - 1 = 0 /\ 0 \in 0 .. Depth
      BY <1>3, <1>9 DEF Judged
    <3>2. Go(t, 0, "up")
      BY <1>9, <3>1 DEF Judged, Return
    <3>3. doing'[t] = "up" /\ at'[t] = 0
      BY <1>3, <3>1, <3>2, GoFacts
    <3> QED
      BY <1>9, <3>1, <3>2, <3>3 DEF Judged, Return
  <2>2. /\ verdict'[t[1]] = (IF recorded[t[1]][1] \in ServerErrors THEN "failure" ELSE "success")
        /\ \A r \in Requests \ {t[1]} : verdict'[r] = verdict[r]
    BY <1>2, <1>3, <2>1 DEF TypeOK
  <2>3. recorded[t[1]][1] = client[t[1]]
    BY <1>2, <1>4, <2>1 DEF Judging
  <2>4. Judging(t[1])'
    BY <1>2, <2>1, <2>2, <2>3 DEF Judging, Writing
  <2> QED
    BY <1>2, <2>2, <2>4, AloneJudging
<1>10. ASSUME TooMany(t) \/ Full(t) \/ Exhausted(t) PROVE AllJudging'
  <2>1. at[t] > 1
    BY <1>6, <1>10 DEF TooMany, Full, Exhausted, AttemptFailed
  <2>2. \/ Answer(t, "limited") /\ verdict' = verdict
        \/ Answer(t, "busy") /\ verdict' = verdict
    BY <1>10 DEF TooMany, Full, Exhausted
  <2> QED
    BY <1>2, <1>5, <2>1, <2>2, AnswerBelow
<1>11. ASSUME BeginAttempts(t) \/ TryAgain(t) PROVE AllJudging'
  BY <1>2, <1>6, <1>11, QuietBelow DEF BeginAttempts, TryAgain, AttemptFailed, DeeperRecording
<1>12. ASSUME Pass(t) \/ Acquire(t) PROVE AllJudging'
  BY <1>2, <1>6, <1>12, QuietBelow DEF Pass, Acquire, Deeper
<1>13. ASSUME PassBack(t) \/ StopRetrying(t) \/ GiveUp(t) PROVE AllJudging'
  BY <1>2, <1>6, <1>13, QuietBelow DEF PassBack, StopRetrying, GiveUp, Return
<1>14. ASSUME Release(t) PROVE AllJudging'
  BY <1>2, <1>6, <1>14, QuietBelow DEF Release
<1> QED
  BY <1>7, <1>8, <1>9, <1>10, <1>11, <1>12, <1>13, <1>14 DEF LayerStep

LEMMA WriteJudging ==
    ASSUME Base, AllSent, AllJudging, BreakerFirst, NEW t \in Threads, Write(t), Alone(t)
    PROVE  AllJudging'
<1>1. t = Main(t[1]) /\ t[1] \in Requests /\ at[t] \in 1 .. Depth
  BY OnlyMain, WritingPlace DEF Write, Look, Mark, Forward, Writing, BreakerFirst
<1>2. TypeOK /\ Depth \in Nat /\ Depth > 1 /\ DOMAIN chain = 1 .. Depth - 1 /\ 1 \in DOMAIN chain
      /\ at[t] \in 0 .. Depth /\ at[t] - 1 \in 0 .. Depth /\ at[t] \in Int
  BY <1>1, BaseTypes, FirstFacts
<1>3. Sent(t[1]) /\ Judging(t[1])
  BY <1>1 DEF AllSent, AllJudging
<1>4. at[t] > 1 => 1 \in Above(at[t])
  BY <1>2 DEF Above, HasRecorder, BreakerFirst
<1>5. verdict' = verdict
  BY DEF Write, Look, Mark, Forward, callVars
<1>6. ASSUME Look(t) PROVE Judging(t[1])'
  <2>1. doing'[t] = "mark" /\ doing[t] = "look" /\ at'[t] = at[t]
    BY <1>2, <1>6, GoFacts DEF Look
  <2>2. /\ UNCHANGED <<code, recorded, client>>
        /\ passes'[t] = \A i \in Above(at[t]) : recorded[t[1]][i] = "none"
    BY <1>2, <1>6 DEF Look, TypeOK, callVars
  <2>3. ASSUME at[t] > 1 PROVE passes'[t] <=> client[t[1]] = "none"
    <3>1. recorded[t[1]][1] = client[t[1]]
      BY <1>1, <1>3, <2>1, <2>3 DEF Judging
    <3>2. client[t[1]] = "none" => \A i \in DOMAIN chain : recorded[t[1]][i] = "none"
      BY <1>1, <1>3, <2>1 DEF Sent
    <3> QED
      BY <1>4, <2>2, <2>3, <3>1, <3>2 DEF Above
  <2>4. passes'[t] \in BOOLEAN
    BY <2>2
  <2> QED
    BY <1>1, <1>2, <1>3, <1>5, <2>1, <2>2, <2>3, <2>4 DEF Judging, Writing
<1>7. ASSUME Mark(t) PROVE Judging(t[1])'
  <2>1. doing'[t] = "forward" /\ doing[t] = "mark" /\ at'[t] = at[t]
    BY <1>2, <1>7, GoFacts DEF Mark
  <2>2. /\ UNCHANGED <<code, passes, client>> /\ passes[t] \in BOOLEAN
        /\ recorded'[t[1]][1] = IF 1 \in Marked(t) THEN code[t] ELSE recorded[t[1]][1]
    <3>1. /\ recorded \in [Requests -> [1 .. Depth -> Statuses]] /\ 1 \in 1 .. Depth
          /\ recorded' = [recorded EXCEPT ![t[1]] =
               [i \in 1 .. Depth |-> IF i \in Marked(t) THEN code[t] ELSE recorded[t[1]][i]]]
      BY <1>2, <1>7, MarkFacts DEF TypeOK
    <3>2. recorded'[t[1]][1] = IF 1 \in Marked(t) THEN code[t] ELSE recorded[t[1]][1]
      BY <1>1, <3>1
    <3> QED
      BY <1>2, <1>7, <3>2 DEF Mark, TypeOK
  <2>3. ASSUME at[t] > 1, passes[t] PROVE 1 \in Marked(t)
    BY <1>4, <2>3 DEF Marked
  <2>4. ASSUME at[t] > 1, ~passes[t] PROVE 1 \notin Marked(t)
    <3>1. recorded[t[1]][1] # "none"
      BY <1>1, <1>3, <2>1, <2>4 DEF Judging
    <3>2. 1 >= 1
      OBVIOUS
    <3> QED
      BY <1>4, <2>4, <3>1, <3>2 DEF Marked
  <2> QED
    BY <1>1, <1>2, <1>3, <1>5, <2>1, <2>2, <2>3, <2>4 DEF Judging, Writing
<1>8. ASSUME Forward(t) PROVE Judging(t[1])'
  <2>1. doing'[t] = "up" /\ doing[t] = "forward" /\ at'[t] = at[t] - 1
    BY <1>2, <1>8, GoFacts DEF Forward
  <2>2. recorded' = recorded /\ passes[t] \in BOOLEAN
        /\ client'[t[1]] = IF client[t[1]] # "none" THEN client[t[1]]
                           ELSE IF passes[t] THEN code[t] ELSE "ok"
    BY <1>1, <1>2, <1>8 DEF Forward, TypeOK, callVars
  <2>3. CASE at[t] = 1
    <3>1. verdict[t[1]] = "none" /\ at'[t] = 0
      BY <1>1, <1>3, <2>1, <2>3 DEF Judging, Writing
    <3> QED
      BY <1>1, <1>5, <2>1, <3>1 DEF Judging, Writing
  <2>4. CASE at[t] > 1
    <3>1. at'[t] >= 1 /\ at'[t] # 0 /\ at'[t] \in Int
      BY <1>2, <2>1, <2>4
    <3>2. recorded[t[1]][1] = client'[t[1]]
      BY <1>1, <1>3, <2>1, <2>2, <2>4 DEF Judging
    <3>3. verdict[t[1]] = "admitted"
      BY <1>1, <1>3, <2>4 DEF Judging
    <3> QED
      BY <1>1, <1>5, <2>1, <2>2, <3>1, <3>2, <3>3 DEF Judging, Writing
  <2> QED
    BY <1>1, <1>2, <2>3, <2>4
<1> QED
  BY <1>1, <1>5, <1>6, <1>7, <1>8, AloneJudging DEF Write

LEMMA RequestJudging ==
    ASSUME Base, AllJudging, BreakerFirst, NEW r \in Requests, RequestStep(r), Alone(Main(r))
    PROVE  AllJudging'
<1> DEFINE t == Main(r)
<1>1. t \in Threads /\ t[1] = r /\ t = Main(t[1]) /\ Worker(r) \in Threads
  BY ThreadFacts
<1>2. TypeOK /\ Depth \in Nat /\ 0 \in 0 .. Depth /\ 1 \in 0 .. Depth
  BY BaseTypes, FirstFacts
<1>3. \A u \in Threads, what \in {"down", "up", "awaiting"} : ~Is(u, "respond", what)
  BY LayerFacts, BaseTypes DEF Is, Contains, Layers, BreakerFirst
<1>4. ~Detach(r) /\ ~WorkerDone(r) /\ ~SeeDone(r) /\ ~SeeExpired(r)
  BY <1>1, <1>3 DEF Detach, WorkerDone, SeeDone, SeeExpired
<1>5. Judging(r)
  BY DEF AllJudging
<1> USE DEF callVars, writeVars
<1>6. ASSUME Arrive(r) PROVE AllJudging'
  <2>1. /\ doing[t] = "idle" /\ Go(t, 1, "down")
        /\ UNCHANGED <<code, passes, recorded, client, verdict>>
    BY <1>6 DEF Arrive
  <2> HIDE DEF t
  <2>2. at'[t] = 1 /\ doing'[t] = "down"
    BY <1>1, <1>2, <2>1, GoFacts
  <2>3. Judging(r)'
    BY <1>5, <2>1, <2>2 DEF Judging, Writing, t
  <2> QED
    BY <1>1, <2>1, <2>3, AloneJudging DEF t
<1>7. ASSUME ClientLeaves(r) \/ Expire(r) PROVE AllJudging'
  <2>1. UNCHANGED <<chain, at, doing, code, passes, recorded, client, verdict>>
    BY <1>7 DEF ClientLeaves, Expire
  <2> QED
    BY <2>1 DEF AllJudging, Judging
<1>8. ASSUME Finish(r) PROVE AllJudging'
  <2>1. /\ doing[t] = "up" /\ at[t] = 0 /\ Go(t, 0, "done")
        /\ UNCHANGED <<code, passes, recorded, verdict>>
        /\ client' = [client EXCEPT ![r] = IF @ = "none" THEN "ok" ELSE @]
    BY <1>8 DEF Finish
  <2>2. client'[r] = IF client[r] = "none" THEN "ok" ELSE client[r]
    BY <1>2, <2>1 DEF TypeOK
  <2> HIDE DEF t
  <2>3. at'[t] = 0 /\ doing'[t] = "done"
    BY <1>1, <1>2, <2>1, GoFacts
  <2>4. Judging(r)'
    BY <1>5, <2>1, <2>2, <2>3 DEF Judging, Writing, ServerErrors, t
  <2> QED
    BY <1>1, <2>1, <2>4, AloneJudging DEF t
<1> QED
  BY <1>4, <1>6, <1>7, <1>8 DEF RequestStep

Heard == BreakerFirst => AllJudging

LEMMA InitHeard == ASSUME Init PROVE Heard
BY ThreadFacts DEF Init, Heard, AllJudging, Judging, Writing

LEMMA NextHeard == ASSUME Base, Told, Heard, [Next]_vars PROVE Heard'
<1>1. chain' = chain
  BY SameChain
<1> SUFFICES ASSUME BreakerFirst PROVE AllJudging'
  BY <1>1 DEF Heard, BreakerFirst, Contains
<1>2. AllSent /\ AllJudging /\ ~Contains("respond")
  BY DEF Told, Heard, BreakerFirst
<1>3. CASE UNCHANGED vars
  BY <1>2, <1>3 DEF vars, AllJudging, Judging
<1>4. ASSUME NEW t \in Threads, HandlerStep(t) \/ LayerStep(t) \/ Write(t) PROVE AllJudging'
  <2>1. Alone(t)
    BY <1>2, <1>4, HandlerSent, LayerSent, WriteSent
  <2> QED
    BY <1>2, <1>4, <2>1, HandlerJudging, LayerJudging, WriteJudging
<1>5. ASSUME NEW r \in Requests, RequestStep(r) PROVE AllJudging'
  <2>1. Alone(Main(r))
    BY <1>2, <1>5, RequestSent
  <2> QED
    BY <1>2, <1>5, <2>1, RequestJudging
<1> QED
  BY <1>3, <1>4, <1>5 DEF Next

(* The breaker and the client never disagree about a request, however many *)
(* layers answer it and however often it is retried.                       *)
THEOREM VerdictSafety == Spec => []VerdictMatchesClient
<1>1. Spec => [](Base /\ Told /\ Heard)
  BY InitBase, NextBase, InitTold, NextTold, InitHeard, NextHeard, PTL DEF Spec
<1>2. Base /\ Heard => VerdictMatchesClient
  <2> SUFFICES ASSUME Base, Heard, BreakerFirst, NEW r \in Requests, doing[Main(r)] = "done"
               PROVE  /\ verdict[r] = "failure" => client[r] \in ServerErrors
                      /\ verdict[r] = "success" => client[r] \notin ServerErrors
                      /\ verdict[r] # "admitted"
    BY DEF VerdictMatchesClient, BreakerFirst
  <2>1. at[Main(r)] = 0
    BY BaseTypes DEF Placed, MainAt
  <2> QED
    BY <2>1 DEF Heard, AllJudging, Judging
<1> QED
  BY <1>1, <1>2, PTL
=============================================================================
