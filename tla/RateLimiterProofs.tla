-------------------------- MODULE RateLimiterProofs --------------------------
(***************************************************************************)
(* Safety of RateLimiter for all buckets and windows, any number of        *)
(* waiters, any request sizes and any horizon.                             *)
(***************************************************************************)
EXTENDS RateLimiter, FiniteSetTheorems, SequenceTheorems, TLAPS

-----------------------------------------------------------------------------
(* Arithmetic.                                                             *)

LEMMA ProductOrder ==
    ASSUME NEW a \in Int, NEW b \in Int, NEW r \in Nat, a <= b
    PROVE  r * a <= r * b
<1>1. b - a \in Nat
  OBVIOUS
<1>2. r * (b - a) \in Nat /\ r * (b - a) = r * b - r * a
  BY <1>1, Z3
<1> QED
  BY <1>2

LEMMA ProductNat == ASSUME NEW a \in Nat, NEW b \in Nat PROVE a * b \in Nat
BY Z3

LEMMA DivFacts ==
    ASSUME NEW a \in Int, NEW r \in Nat \ {0}
    PROVE  /\ a \div r \in Int
           /\ r * (a \div r) <= a /\ a < r * (a \div r) + r
BY Z3

LEMMA DivOrder ==
    ASSUME NEW a \in Int, NEW b \in Int, NEW r \in Nat \ {0}, a <= b
    PROVE  a \div r <= b \div r
<1> DEFINE p == a \div r
           q == b \div r
<1>1. p \in Int /\ q \in Int /\ r * p <= a /\ b < r * q + r
  BY DivFacts
<1> HIDE DEF p, q
<1>2. CASE p > q
  <2>1. q + 1 \in Int /\ q + 1 <= p
    BY <1>1, <1>2
  <2>2. r * (q + 1) <= r * p
    BY <1>1, <2>1, ProductOrder
  <2>3. r * (q + 1) = r * q + r /\ r * q \in Int /\ r * p \in Int
    BY <1>1, Z3
  <2> QED
    BY <1>1, <2>2, <2>3
<1> QED
  BY <1>1, <1>2 DEF p, q

LEMMA DivShift ==
    ASSUME NEW a \in Int, NEW r \in Nat \ {0}
    PROVE  (a + r) \div r = a \div r + 1
<1> DEFINE p == (a + r) \div r
           q == a \div r
<1>1. p \in Int /\ q \in Int
      /\ r * p <= a + r /\ a + r < r * p + r
      /\ r * q <= a /\ a < r * q + r
  BY DivFacts
<1> HIDE DEF p, q
<1>2. r * (q + 1) = r * q + r /\ r * (q + 2) = r * q + r + r /\ r * (p + 1) = r * p + r
      /\ r * q \in Int /\ r * p \in Int
  BY <1>1, Z3
<1>3. CASE p < q + 1
  <2>1. r * (p + 1) <= r * (q + 1)
    BY <1>1, <1>3, ProductOrder
  <2> QED
    BY <1>1, <1>2, <2>1
<1>4. CASE p > q + 1
  <2>1. r * (q + 2) <= r * p
    BY <1>1, <1>4, ProductOrder
  <2> QED
    BY <1>1, <1>2, <2>1
<1> QED
  BY <1>1, <1>3, <1>4 DEF p, q

LEMMA CappedFacts ==
    ASSUME NEW n \in Nat, NEW limit \in Nat
    PROVE  /\ Capped(n, limit) \in 0 .. limit /\ Capped(n, limit) <= n
           /\ n <= limit => Capped(n, limit) = n
BY DEF Capped

-----------------------------------------------------------------------------
(* The time until a bucket that gains rate in a tick and has got has units *)
(* has got wants of them, rounded up.                                      *)
UntilEnough(wants, has, rate) ==
    IF has >= wants THEN 0 ELSE (wants - has + rate - 1) \div rate

LEMMA UntilEnoughFacts ==
    ASSUME NEW wants \in Int, NEW has \in Int, NEW rate \in Nat \ {0}
    PROVE  /\ UntilEnough(wants, has, rate) \in Nat
           /\ has < wants =>
                /\ (wants - has) \div rate \in Nat
                /\ (wants - has) \div rate <= UntilEnough(wants, has, rate)
<1>1. CASE has >= wants
  BY <1>1 DEF UntilEnough
<1>2. CASE has < wants
  <2> DEFINE lack == wants - has
             more == lack + rate - 1
  <2>1. lack \in Int /\ more \in Int /\ 0 <= lack /\ lack <= more
    BY <1>2
  <2>2. 0 \div rate = 0
    BY Z3
  <2>3. 0 \div rate <= lack \div rate /\ lack \div rate <= more \div rate
    BY <2>1, DivOrder
  <2>4. lack \div rate \in Int /\ more \div rate \in Int
    BY <2>1, DivFacts
  <2>5. UntilEnough(wants, has, rate) = more \div rate
    BY <1>2 DEF UntilEnough
  <2> HIDE DEF lack, more
  <2>6. lack \div rate \in Nat /\ more \div rate \in Nat /\ lack \div rate <= more \div rate
    BY <2>2, <2>3, <2>4
  <2> QED
    BY <2>5, <2>6 DEF lack
<1> QED
  BY <1>1, <1>2

(* With less it takes longer, and a tick makes it at most one tick less.   *)
LEMMA UntilEnoughOrder ==
    ASSUME NEW wants \in Int, NEW has \in Int, NEW now \in Int, NEW rate \in Nat \ {0}
    PROVE  /\ now <= has => UntilEnough(wants, has, rate) <= UntilEnough(wants, now, rate)
           /\ now <= has + rate =>
                UntilEnough(wants, has, rate) <= UntilEnough(wants, now, rate) + 1
<1> DEFINE before == wants - has + rate - 1
           after == wants - now + rate - 1
<1>1. /\ UntilEnough(wants, has, rate) \in Nat /\ UntilEnough(wants, now, rate) \in Nat
  BY UntilEnoughFacts
<1>2. before \in Int /\ after \in Int /\ before \div rate \in Int /\ after \div rate \in Int
  BY DivFacts
<1>3. ASSUME now <= has
      PROVE  UntilEnough(wants, has, rate) <= UntilEnough(wants, now, rate)
  <2>1. CASE has >= wants
    BY <1>1, <2>1 DEF UntilEnough
  <2>2. CASE has < wants
    <3>1. before <= after
      BY <1>3
    <3>2. before \div rate <= after \div rate
      BY <1>2, <3>1, DivOrder
    <3>3. ~(has >= wants) /\ ~(now >= wants)
      BY <1>3, <2>2
    <3> QED
      BY <3>2, <3>3 DEF UntilEnough
  <2> QED
    BY <2>1, <2>2
<1>4. ASSUME now <= has + rate
      PROVE  UntilEnough(wants, has, rate) <= UntilEnough(wants, now, rate) + 1
  <2>1. CASE has >= wants
    BY <1>1, <2>1 DEF UntilEnough
  <2>2. CASE has < wants
    <3>1. before <= after + rate
      BY <1>4
    <3>2. before \div rate <= (after + rate) \div rate
      BY <1>2, <3>1, DivOrder
    <3>3. (after + rate) \div rate = after \div rate + 1
      BY <1>2, DivShift
    <3>4. UntilEnough(wants, has, rate) = before \div rate
      BY <2>2 DEF UntilEnough
    <3> HIDE DEF before
    <3>5. CASE now < wants
      <4>1. UntilEnough(wants, now, rate) = after \div rate
        BY <3>5 DEF UntilEnough
      <4> QED
        BY <1>2, <3>2, <3>3, <3>4, <4>1
    <3>6. CASE now >= wants
      <4>1. UntilEnough(wants, now, rate) = 0
        BY <3>6 DEF UntilEnough
      <4>2. after <= rate - 1 /\ rate - 1 \in Int
        BY <3>6
      <4>3. after \div rate <= (rate - 1) \div rate
        BY <1>2, <4>2, DivOrder
      <4>4. (rate - 1) \div rate = 0
        BY Z3
      <4> HIDE DEF after
      <4> QED
        BY <1>2, <3>2, <3>3, <3>4, <4>1, <4>3, <4>4
    <3> QED
      BY <3>5, <3>6
  <2> QED
    BY <2>1, <2>2
<1> QED
  BY <1>3, <1>4

-----------------------------------------------------------------------------
(* What cleanup does to a sequence of ages.                                *)
Prefix(ages, window) == {i \in DOMAIN ages : \A j \in 1 .. i : ages[j] > window}

Kept(ages, window) == SubSeq(ages, Cardinality(Prefix(ages, window)) + 1, Len(ages))

LEMMA CleanupIsKept ==
    /\ Cleanup = Kept(requests, limiter.window)
    /\ Cleanup' = Kept(requests', limiter'.window)
BY DEF Cleanup, Stale, Kept, Prefix

LEMMA UpToFinite ==
    ASSUME NEW n \in Nat
    PROVE  IsFiniteSet(1 .. n) /\ Cardinality(1 .. n) = n
BY FS_Interval

LEMMA FunctionIsSeq ==
    ASSUME NEW T, NEW n \in Nat, NEW f \in [1 .. n -> T]
    PROVE  f \in Seq(T) /\ Len(f) = n
BY SeqDef

LEMMA KeptFacts ==
    ASSUME NEW window \in Nat, NEW ages \in Seq(0 .. window + 1)
    PROVE  LET dropped == Cardinality(Prefix(ages, window))
               kept    == Kept(ages, window)
           IN  /\ dropped \in 0 .. Len(ages)
               /\ kept \in Seq(0 .. window + 1)
               /\ Len(kept) = Len(ages) - dropped
               /\ \A i \in 1 .. Len(kept) : kept[i] = ages[dropped + i]
               /\ dropped = 0 => kept = ages /\ (Len(ages) > 0 => ages[1] <= window)
               /\ Len(ages) > 0 /\ ages[1] > window => dropped > 0
<1> DEFINE prefix  == Prefix(ages, window)
           dropped == Cardinality(prefix)
           kept    == Kept(ages, window)
           n       == Len(ages)
<1>1. n \in Nat /\ DOMAIN ages = 1 .. n /\ \A i \in 1 .. n : ages[i] \in 0 .. window + 1
  OBVIOUS
<1>2. IsFiniteSet(1 .. n) /\ Cardinality(1 .. n) = n
  BY <1>1, UpToFinite
<1>3. prefix \subseteq 1 .. n
  BY <1>1 DEF Prefix
<1>4. IsFiniteSet(prefix) /\ dropped \in Nat /\ dropped <= n
  BY <1>2, <1>3, FS_Subset, FS_CardinalityType
<1>5. kept = SubSeq(ages, dropped + 1, n)
  BY DEF Kept
<1>6. 1 \in prefix <=> n > 0 /\ ages[1] > window
  BY <1>1 DEF Prefix
<1>7. dropped = 0 <=> prefix = {}
  BY <1>4, FS_EmptySet
<1> HIDE DEF prefix, dropped, kept, n
<1>8. dropped + 1 \in Int /\ n \in Int /\ \A i \in dropped + 1 .. n : ages[i] \in 0 .. window + 1
  BY <1>1, <1>4
<1>9. /\ kept \in Seq(0 .. window + 1)
      /\ Len(kept) = IF dropped + 1 <= n THEN n - (dropped + 1) + 1 ELSE 0
      /\ \A i \in 1 .. n - (dropped + 1) + 1 : kept[i] = ages[dropped + 1 + i - 1]
  BY ONLY <1>5, <1>8, SubSeqProperties
<1>10. Len(kept) = n - dropped /\ \A i \in 1 .. Len(kept) : kept[i] = ages[dropped + i]
  BY <1>1, <1>4, <1>9
<1>11. dropped = 0 => kept = ages /\ (n > 0 => ages[1] <= window)
  <2> SUFFICES ASSUME dropped = 0 PROVE kept = ages /\ (n > 0 => ages[1] <= window)
    OBVIOUS
  <2>1. Len(kept) = n /\ \A i \in 1 .. n : kept[i] = ages[i]
    BY <1>1, <1>10
  <2>2. kept = ages
    BY <1>9, <2>1, SeqEqual DEF n
  <2>3. n > 0 => ages[1] <= window
    BY <1>1, <1>6, <1>7
  <2> QED
    BY <2>2, <2>3
<1>12. n > 0 /\ ages[1] > window => dropped > 0
  BY <1>4, <1>6, <1>7
<1> QED
  BY <1>4, <1>9, <1>10, <1>11, <1>12 DEF prefix, dropped, kept, n

(* A young entry stops cleanup: it and what comes after it stay.           *)
LEMMA YoungAreKept ==
    ASSUME NEW window \in Nat, NEW ages \in Seq(0 .. window + 1),
           NEW m \in 1 .. Len(ages), ages[Len(ages) - m + 1] <= window
    PROVE  Cardinality(Prefix(ages, window)) <= Len(ages) - m
<1> DEFINE prefix == Prefix(ages, window)
           k == Len(ages) - m
<1>1. k \in Nat /\ k + 1 \in 1 .. Len(ages) /\ DOMAIN ages = 1 .. Len(ages)
      /\ \A i \in 1 .. Len(ages) : ages[i] \in Int
  OBVIOUS
<1>2. prefix \subseteq 1 .. k
  BY <1>1 DEF Prefix
<1>3. IsFiniteSet(1 .. k) /\ Cardinality(1 .. k) = k
  BY <1>1, UpToFinite
<1> QED
  BY <1>2, <1>3, FS_Subset

-----------------------------------------------------------------------------
(* The inductive invariant.  TypeOK and WakesInTime, and                   *)
(* - MeterInv: what has been granted in any interval, together with what a *)
(*   bucket holds now, is inside the envelope;                             *)
(* - RecentInv: what a window has granted in the last t ticks, t no longer *)
(*   than the window, are its last entries;                                *)
(* - a window is asked for one event at a time.                            *)

MeterInv ==
    Bucket => \A t \in 0 .. Horizon :
                  granted[t] * limiter.cost + RefreshTokens <= Full + t * limiter.rate

RecentInv ==
    ~Bucket => \A t \in 0 .. Horizon : t <= limiter.window =>
                 /\ granted[t] <= Len(requests)
                 /\ \A i \in 1 .. Len(requests) :
                      i > Len(requests) - granted[t] => requests[i] <= t

OneByOne == ~Bucket => \A w \in Waiters : need[w] = 1

LimiterTypeOK ==
    /\ limiter \in Limiters
    /\ tokens \in 0 .. Full
    /\ elapsed \in 0 .. Full
    /\ requests \in Seq(0 .. limiter.window + 1) /\ Len(requests) <= limiter.burst
    /\ granted \in [0 .. Horizon -> Nat]

WaiterTypeOK ==
    /\ pc \in [Waiters -> {"idle", "trying", "sleeping"}]
    /\ need \in [Waiters -> Sizes]
    /\ timer \in [Waiters -> Nat]

LimiterInv == LimiterTypeOK /\ MeterInv /\ RecentInv

IInv == LimiterInv /\ WaiterTypeOK /\ OneByOne /\ WakesInTime

LEMMA LimiterTypes ==
    ASSUME limiter \in Limiters
    PROVE  /\ limiter.burst \in Nat \ {0} /\ limiter.rate \in Nat \ {0}
           /\ limiter.cost \in Nat \ {0} /\ limiter.window \in Nat \ {0}
           /\ Full \in Nat
<1>1. /\ limiter.burst \in Nat \ {0} /\ limiter.rate \in Nat \ {0}
      /\ limiter.cost \in Nat \ {0} /\ limiter.window \in Nat \ {0}
  BY LimitersAssumption
<1>2. limiter.burst * limiter.cost \in Nat
  BY <1>1, ProductNat
<1> QED
  BY <1>1, <1>2 DEF Full

LEMMA RefreshFacts ==
    ASSUME LimiterTypeOK
    PROVE  /\ RefreshTokens \in 0 .. Full
           /\ RefreshTokens >= tokens
<1>1. Full \in Nat /\ tokens \in 0 .. Full /\ elapsed \in Nat /\ limiter.rate \in Nat
  BY LimiterTypes DEF LimiterTypeOK
<1>2. elapsed * limiter.rate \in Nat
  BY <1>1, ProductNat
<1> DEFINE gain == elapsed * limiter.rate
<1> HIDE DEF gain
<1>3. RefreshTokens = Capped(tokens + gain, Full)
  BY DEF RefreshTokens, gain
<1> QED
  BY <1>1, <1>2, <1>3 DEF Capped, gain

(* A window without room holds limit young entries and drops none.         *)
LEMMA NoRoom ==
    ASSUME LimiterTypeOK, ~Bucket, NEW n, ~HasRoom(n)
    PROVE  /\ Cleanup = requests /\ Len(requests) = limiter.burst /\ Len(requests) > 0
           /\ Head(Cleanup) = requests[1] /\ requests[1] \in 0 .. limiter.window
<1> DEFINE window == limiter.window
           dropped == Cardinality(Prefix(requests, window))
<1>1. /\ window \in Nat /\ limiter.burst \in Nat /\ limiter.burst > 0
      /\ requests \in Seq(0 .. window + 1) /\ Len(requests) <= limiter.burst
  BY LimiterTypes DEF LimiterTypeOK
<1>2. Cleanup = Kept(requests, window)
  BY CleanupIsKept
<1> HIDE DEF window
<1>3. /\ dropped \in 0 .. Len(requests) /\ Len(Cleanup) = Len(requests) - dropped
      /\ dropped = 0 => Cleanup = requests /\ (Len(requests) > 0 => requests[1] <= window)
  BY <1>1, <1>2, KeptFacts
<1>4. Len(Cleanup) >= limiter.burst
  <2>1. ~(Len(Cleanup) < limiter.burst)
    BY DEF HasRoom
  <2> QED
    BY <1>1, <1>3, <2>1
<1>5. Len(requests) \in Nat
  BY <1>1
<1>6. dropped = 0 /\ Len(requests) = limiter.burst
  BY <1>1, <1>3, <1>4, <1>5
<1>7. Cleanup = requests /\ requests[1] <= window /\ Len(requests) > 0
  BY <1>1, <1>3, <1>6
<1>8. Head(requests) = requests[1] /\ requests[1] \in 0 .. window + 1
  BY <1>1, <1>7
<1> QED
  BY <1>1, <1>6, <1>7, <1>8 DEF window

LEMMA ShortfallFacts ==
    ASSUME LimiterTypeOK, NEW n \in Sizes
    PROVE  /\ Shortfall(n) \in Nat
           /\ HasRoom(n) => Shortfall(n) = 0
           /\ Bucket => Shortfall(n) = UntilEnough(n * limiter.cost, RefreshTokens, limiter.rate)
           /\ ~Bucket /\ ~HasRoom(n) => Shortfall(n) = limiter.window + 1 - requests[1]
           /\ ~HasRoom(n) => WaitTime(n) \in Nat /\ WaitTime(n) <= Shortfall(n)
<1>1. /\ limiter.cost \in Nat \ {0} /\ limiter.rate \in Nat \ {0} /\ limiter.window \in Nat
      /\ n \in Nat
  BY LimiterTypes, BoundsAssumption DEF LimiterTypeOK
<1>2. CASE Bucket
  <2> DEFINE wants == n * limiter.cost
             has == RefreshTokens
  <2>1. wants \in Int /\ has \in Int
    <3>1. n * limiter.cost \in Nat
      BY <1>1, ProductNat
    <3>2. RefreshTokens \in 0 .. Full /\ Full \in Nat
      BY RefreshFacts, LimiterTypes DEF LimiterTypeOK
    <3> QED
      BY <3>1, <3>2
  <2>2. HasRoom(n) <=> has >= wants
    BY <1>2 DEF HasRoom
  <2>3. Shortfall(n) = UntilEnough(wants, has, limiter.rate)
    BY <1>2, <2>2 DEF Shortfall, UntilEnough
  <2>4. WaitTime(n) = (wants - has) \div limiter.rate
    BY <1>2 DEF WaitTime
  <2>5. HasRoom(n) => Shortfall(n) = 0
    BY <2>2, <2>3 DEF UntilEnough
  <2> HIDE DEF wants, has
  <2>6. /\ UntilEnough(wants, has, limiter.rate) \in Nat
        /\ has < wants => /\ (wants - has) \div limiter.rate \in Nat
                          /\ (wants - has) \div limiter.rate
                               <= UntilEnough(wants, has, limiter.rate)
    BY <1>1, <2>1, UntilEnoughFacts
  <2>7. ~HasRoom(n) => has < wants
    BY <2>1, <2>2
  <2> QED
    BY <1>2, <2>3, <2>4, <2>5, <2>6, <2>7 DEF wants, has
<1>3. CASE ~Bucket
  <2>1. CASE HasRoom(n)
    BY <1>3, <2>1 DEF Shortfall
  <2>2. CASE ~HasRoom(n)
    <3>1. Head(Cleanup) = requests[1] /\ requests[1] \in 0 .. limiter.window
      BY <1>3, <2>2, NoRoom
    <3>2. /\ Shortfall(n) = limiter.window + 1 - requests[1]
          /\ WaitTime(n) = limiter.window - requests[1]
      BY <1>3, <2>2, <3>1 DEF Shortfall, WaitTime
    <3> QED
      BY <1>1, <1>3, <2>2, <3>1, <3>2
  <2> QED
    BY <2>1, <2>2
<1> QED
  BY <1>2, <1>3

(* The same after a step.                                                  *)
LEMMA RefreshNext == LimiterTypeOK' => (RefreshTokens \in 0 .. Full)'
<1>1. LimiterTypeOK => RefreshTokens \in 0 .. Full
  BY RefreshFacts
<1> QED
  BY <1>1, PTL

ShortfallOK(n) ==
    /\ Shortfall(n) \in Nat
    /\ Bucket => Shortfall(n) = UntilEnough(n * limiter.cost, RefreshTokens, limiter.rate)
    /\ ~Bucket /\ ~HasRoom(n) => Shortfall(n) = limiter.window + 1 - requests[1]
    /\ HasRoom(n) => Shortfall(n) = 0

LEMMA ShortfallNext == LimiterTypeOK' => \A n \in Sizes : ShortfallOK(n)'
<1>1. LimiterTypeOK => \A n \in Sizes : ShortfallOK(n)
  BY ShortfallFacts DEF ShortfallOK
<1>2. LimiterTypeOK' => (\A n \in Sizes : ShortfallOK(n))'
  BY <1>1, PTL
<1> QED
  BY <1>2

LEMMA NoRoomNext ==
    LimiterTypeOK' /\ ~Bucket' =>
        \A n \in Sizes : ~HasRoom(n)' =>
            /\ Cleanup' = requests' /\ Len(requests') = limiter'.burst /\ Len(requests') > 0
            /\ requests'[1] \in 0 .. limiter'.window
<1>1. LimiterTypeOK /\ ~Bucket =>
        \A n \in Sizes : ~HasRoom(n) =>
            /\ Cleanup = requests /\ Len(requests) = limiter.burst /\ Len(requests) > 0
            /\ requests[1] \in 0 .. limiter.window
  BY NoRoom
<1>2. LimiterTypeOK' /\ ~Bucket' =>
        (\A n \in Sizes : ~HasRoom(n) =>
            /\ Cleanup = requests /\ Len(requests) = limiter.burst /\ Len(requests) > 0
            /\ requests[1] \in 0 .. limiter.window)'
  BY <1>1, PTL
<1> QED
  BY <1>2

-----------------------------------------------------------------------------
(* What a critical section and a tick do to the limiter.                   *)

(* Taking events from a bucket leaves it with fewer tokens by so many, and *)
(* taking none leaves it as it was found.                                  *)
LEMMA BucketTake ==
    ASSUME LimiterInv, Bucket, NEW n \in Nat, n = 0 \/ HasRoom(n), Take(n)
    PROVE  /\ LimiterInv'
           /\ RefreshTokens' = RefreshTokens - n * limiter.cost
           /\ RefreshTokens' <= RefreshTokens
<1> DEFINE cost == limiter.cost
           R == RefreshTokens
           c == n * cost
<1>1. /\ limiter \in Limiters /\ limiter' = limiter /\ Bucket' = Bucket /\ Full' = Full
      /\ cost \in Nat /\ limiter.rate \in Nat /\ Full \in Nat
      /\ tokens' = R - c /\ elapsed' = 0 /\ requests' = requests
      /\ granted' = [t \in 0 .. Horizon |-> granted[t] + n]
  BY LimiterTypes DEF LimiterInv, LimiterTypeOK, Take, Bucket, Full
<1>2. R \in 0 .. Full /\ c \in Nat
  BY <1>1, RefreshFacts, ProductNat DEF LimiterInv
<1>3. c <= R
  <2>1. CASE n = 0
    <3>1. c = 0
      BY <1>1, <2>1
    <3> QED
      BY <1>2, <3>1
  <2>2. CASE HasRoom(n)
    BY <1>2, <2>2 DEF HasRoom
  <2> QED
    BY <2>1, <2>2
<1> HIDE DEF c, R
<1>4. tokens' \in 0 .. Full /\ tokens' <= R
  BY <1>1, <1>2, <1>3
<1>5. RefreshTokens' = tokens'
  <2>1. RefreshTokens' = Capped(tokens' + 0 * limiter.rate, Full)
    BY <1>1 DEF RefreshTokens
  <2>2. 0 * limiter.rate = 0
    BY <1>1
  <2>3. tokens' + 0 = tokens' /\ tokens' \in Nat
    BY <1>1, <1>4
  <2> QED
    BY <1>1, <1>4, <2>1, <2>2, <2>3 DEF Capped
<1>6. granted \in [0 .. Horizon -> Nat] /\ granted' \in [0 .. Horizon -> Nat]
  <2>1. granted \in [0 .. Horizon -> Nat]
    BY DEF LimiterInv, LimiterTypeOK
  <2> QED
    BY <1>1, <2>1
<1>7. LimiterTypeOK'
  BY <1>1, <1>4, <1>6 DEF LimiterInv, LimiterTypeOK
<1>8. MeterInv'
  <2> SUFFICES ASSUME NEW t \in 0 .. Horizon
               PROVE  granted'[t] * cost + tokens' <= Full + t * limiter.rate
    BY <1>1, <1>5 DEF MeterInv
  <2>1. granted[t] \in Nat /\ granted'[t] = granted[t] + n
    BY <1>1, <1>6
  <2>2. granted[t] * cost + R <= Full + t * limiter.rate
    BY DEF LimiterInv, MeterInv, R
  <2>3. (granted[t] + n) * cost = granted[t] * cost + c
    BY <1>1, <2>1, Z3 DEF c
  <2>4. granted[t] * cost \in Nat /\ t * limiter.rate \in Int
    BY <1>1, <2>1, BoundsAssumption, ProductNat
  <2> QED
    BY <1>1, <1>2, <2>1, <2>2, <2>3, <2>4
<1>9. RecentInv'
  BY <1>1 DEF RecentInv
<1> QED
  BY <1>1, <1>2, <1>4, <1>5, <1>7, <1>8, <1>9 DEF LimiterInv, R, c

(* A window takes one event when it has room for it.                       *)
LEMMA WindowTake ==
    ASSUME LimiterInv, ~Bucket, NEW n \in {0, 1}, n = 0 \/ HasRoom(n), Take(n)
    PROVE  /\ LimiterInv'
           /\ requests' = Cleanup \o [i \in 1 .. n |-> 0]
<1> DEFINE window == limiter.window
           ages == requests
           dropped == Cardinality(Prefix(ages, window))
           kept == Cleanup
           new == [i \in 1 .. n |-> 0]
<1>1. /\ limiter \in Limiters /\ limiter' = limiter /\ Bucket' = Bucket /\ Full' = Full
      /\ window \in Nat /\ limiter.burst \in Nat
      /\ tokens' = tokens /\ elapsed' = elapsed /\ requests' = kept \o new
      /\ granted' = [t \in 0 .. Horizon |-> granted[t] + n]
  BY LimiterTypes DEF LimiterInv, LimiterTypeOK, Take, Bucket, Full
<1>2. ages \in Seq(0 .. window + 1) /\ Len(ages) <= limiter.burst /\ Len(ages) \in Nat
  BY DEF LimiterInv, LimiterTypeOK
<1>3. granted \in [0 .. Horizon -> Nat] /\ granted' \in [0 .. Horizon -> Nat]
  <2>1. granted \in [0 .. Horizon -> Nat]
    BY DEF LimiterInv, LimiterTypeOK
  <2> QED
    BY <1>1, <2>1
<1>4. HasRoom(n) => Len(kept) < limiter.burst
  BY DEF HasRoom
<1>5. \A t \in 0 .. Horizon : t <= window =>
        /\ granted[t] <= Len(ages)
        /\ \A i \in 1 .. Len(ages) : i > Len(ages) - granted[t] => ages[i] <= t
  BY DEF LimiterInv, RecentInv
<1>6. kept = Kept(ages, window)
  BY CleanupIsKept
<1> HIDE DEF window, ages, kept
<1>7. /\ dropped \in 0 .. Len(ages) /\ kept \in Seq(0 .. window + 1)
      /\ Len(kept) = Len(ages) - dropped
      /\ \A i \in 1 .. Len(kept) : kept[i] = ages[dropped + i]
  BY <1>1, <1>2, <1>6, KeptFacts
<1>8. new \in Seq(0 .. window + 1) /\ Len(new) = n /\ \A i \in 1 .. n : new[i] = 0
  <2>1. n \in Nat /\ 0 \in 0 .. window + 1
    BY <1>1
  <2> QED
    BY <2>1
<1> HIDE DEF new
<1>9. /\ kept \o new \in Seq(0 .. window + 1)
      /\ Len(kept \o new) = Len(kept) + n
      /\ \A i \in 1 .. Len(kept) + n :
           (kept \o new)[i] = IF i <= Len(kept) THEN kept[i] ELSE 0
  <2>1. /\ kept \o new \in Seq(0 .. window + 1)
        /\ Len(kept \o new) = Len(kept) + Len(new)
        /\ \A i \in 1 .. Len(kept) + Len(new) :
             (kept \o new)[i] = IF i <= Len(kept) THEN kept[i] ELSE new[i - Len(kept)]
    BY ONLY <1>7, <1>8, ConcatProperties
  <2>2. \A i \in 1 .. Len(kept) + n : i <= Len(kept) \/ new[i - Len(kept)] = 0
    BY <1>2, <1>7, <1>8
  <2> QED
    BY <1>8, <2>1, <2>2
<1>10. Len(kept) + n <= limiter.burst
  BY <1>1, <1>2, <1>4, <1>7
<1>11. LimiterTypeOK'
  BY <1>1, <1>3, <1>9, <1>10 DEF LimiterInv, LimiterTypeOK, window
<1>12. MeterInv'
  BY <1>1 DEF MeterInv
<1>13. RecentInv'
  <2> SUFFICES ASSUME NEW t \in 0 .. Horizon, t <= limiter'.window
               PROVE  /\ granted'[t] <= Len(requests')
                      /\ \A i \in 1 .. Len(requests') :
                           i > Len(requests') - granted'[t] => requests'[i] <= t
    BY DEF RecentInv
  <2>0. t <= window
    BY <1>1 DEF window
  <2> DEFINE g == granted[t]
  <2>1. g \in Nat /\ granted'[t] = g + n /\ t \in Nat
    BY <1>1, <1>3, BoundsAssumption
  <2>2. g <= Len(ages) /\ \A i \in 1 .. Len(ages) : i > Len(ages) - g => ages[i] <= t
    BY <1>5, <2>0
  <2> HIDE DEF g
  <2>3. dropped <= Len(ages) - g
    <3>1. CASE g = 0
      BY <1>2, <1>7, <3>1
    <3>2. CASE g # 0
      <4>1. g \in 1 .. Len(ages) /\ Len(ages) - g + 1 \in 1 .. Len(ages)
        BY <1>2, <2>1, <2>2, <3>2
      <4>2. ages[Len(ages) - g + 1] <= t /\ ages[Len(ages) - g + 1] \in Int
        <5>1. Len(ages) - g + 1 > Len(ages) - g
          BY <1>2, <2>1
        <5>2. \A i \in 1 .. Len(ages) : ages[i] \in Int
          BY <1>1, <1>2
        <5> QED
          BY <2>2, <4>1, <5>1, <5>2
      <4>3. ages[Len(ages) - g + 1] <= window
        BY <1>1, <2>0, <2>1, <4>2
      <4> QED
        BY <1>1, <1>2, <4>1, <4>3, YoungAreKept
    <3> QED
      BY <3>1, <3>2
  <2>4. ASSUME NEW i \in 1 .. Len(kept) + n, i > Len(kept) + n - (g + n)
        PROVE  (kept \o new)[i] <= t
    <3>1. CASE i <= Len(kept)
      <4>1. i \in 1 .. Len(kept) /\ dropped + i \in 1 .. Len(ages) /\ dropped + i > Len(ages) - g
        BY <1>2, <1>7, <2>1, <2>3, <2>4, <3>1
      <4>2. (kept \o new)[i] = ages[dropped + i]
        BY <1>7, <1>9, <3>1, <4>1
      <4> QED
        BY <2>2, <4>1, <4>2
    <3>2. CASE ~(i <= Len(kept))
      BY <1>9, <2>1, <3>2
    <3> QED
      BY <3>1, <3>2
  <2>5. g + n <= Len(kept) + n
    BY <1>2, <1>7, <2>1, <2>3
  <2>6. requests' = kept \o new /\ Len(requests') = Len(kept) + n /\ granted'[t] = g + n
    BY <1>1, <1>9, <2>1
  <2>7. \A i \in 1 .. Len(kept) + n :
          i > Len(kept) + n - (g + n) => (kept \o new)[i] <= t
    BY <2>4
  <2>8. granted'[t] <= Len(requests')
    BY <2>5, <2>6
  <2>9. \A i \in 1 .. Len(requests') :
          i > Len(requests') - granted'[t] => requests'[i] <= t
    <3> SUFFICES ASSUME NEW i \in 1 .. Len(requests'), i > Len(requests') - granted'[t]
                 PROVE  requests'[i] <= t
      OBVIOUS
    <3>1. i \in 1 .. Len(kept) + n /\ i > Len(kept) + n - (g + n)
      <4>1. Len(requests') = Len(kept) + n /\ granted'[t] = g + n
        BY <2>6
      <4>2. Len(kept) + n - (g + n) = Len(requests') - granted'[t]
        BY <1>2, <1>7, <2>1, <4>1
      <4>3. i \in 1 .. Len(kept) + n
        BY <4>1
      <4> QED
        BY <4>2, <4>3
    <3>2. (kept \o new)[i] <= t
      BY <2>7, <3>1
    <3> QED
      BY <2>6, <3>2
  <2> QED
    BY <2>8, <2>9
<1> QED
  BY <1>1, <1>11, <1>12, <1>13 DEF LimiterInv, kept, new

(* While nobody asks no waiter falls behind the limiter.                   *)
LEMMA TakeShortfall ==
    ASSUME LimiterInv, NEW n \in Nat, n = 0 \/ HasRoom(n), ~Bucket => n \in {0, 1}, Take(n)
    PROVE  /\ LimiterInv'
           /\ \A m \in Sizes : /\ Shortfall(m) \in Nat /\ Shortfall(m)' \in Nat
                               /\ Shortfall(m) <= Shortfall(m)'
<1>1. LimiterInv' /\ LimiterTypeOK /\ LimiterTypeOK'
  BY BucketTake, WindowTake DEF LimiterInv
<1>2. limiter' = limiter /\ Bucket' = Bucket /\ limiter \in Limiters
  BY DEF Take, Bucket, LimiterInv, LimiterTypeOK
<1> SUFFICES ASSUME NEW m \in Sizes
             PROVE  /\ Shortfall(m) \in Nat /\ Shortfall(m)' \in Nat
                    /\ Shortfall(m) <= Shortfall(m)'
  BY <1>1
<1>3. ShortfallOK(m) /\ ShortfallOK(m)'
  BY <1>1, ShortfallFacts, ShortfallNext DEF ShortfallOK
<1>4. Shortfall(m) \in Nat /\ Shortfall(m)' \in Nat
  BY <1>3 DEF ShortfallOK
<1>5. CASE Bucket
  <2> DEFINE wants == m * limiter.cost
             has == RefreshTokens
             now == RefreshTokens'
  <2>1. limiter.cost \in Nat /\ limiter.rate \in Nat \ {0} /\ m \in Nat /\ Full \in Nat
    BY <1>2, LimiterTypes, BoundsAssumption
  <2>2. wants \in Int
    BY <2>1, ProductNat
  <2>3. has \in Int /\ now \in Int /\ now <= has
    <3>1. has \in 0 .. Full /\ now \in 0 .. Full'
      BY <1>1, RefreshFacts, RefreshNext
    <3>2. Full' = Full
      BY <1>2 DEF Full
    <3>3. now <= has
      BY <1>5, BucketTake
    <3> QED
      BY <2>1, <3>1, <3>2, <3>3
  <2>4. /\ Shortfall(m) = UntilEnough(wants, has, limiter.rate)
        /\ Shortfall(m)' = UntilEnough(wants, now, limiter.rate)
    BY <1>2, <1>3, <1>5 DEF ShortfallOK
  <2> HIDE DEF wants, has, now
  <2>5. UntilEnough(wants, has, limiter.rate) <= UntilEnough(wants, now, limiter.rate)
    BY <2>1, <2>2, <2>3, UntilEnoughOrder
  <2> QED
    BY <1>4, <2>4, <2>5
<1>6. CASE ~Bucket /\ HasRoom(m)
  BY <1>3, <1>4, <1>6 DEF ShortfallOK
<1>7. CASE ~Bucket /\ ~HasRoom(m)
  <2>1. ~HasRoom(n)
    BY <1>7 DEF HasRoom
  <2>2. n = 0 /\ Cleanup = requests
    BY <1>1, <1>7, <2>1, NoRoom
  <2>3. requests' = requests \o [i \in 1 .. 0 |-> 0]
    BY <1>7, <2>2, WindowTake
  <2>4. [i \in 1 .. 0 |-> 0] = <<>>
    OBVIOUS
  <2>5. requests' = requests
    BY <1>1, <2>3, <2>4, ConcatEmptySeq DEF LimiterTypeOK
  <2>6. Cleanup' = Cleanup
    BY <1>2, <2>5 DEF Cleanup, Stale
  <2>7. Shortfall(m)' = Shortfall(m)
    BY <1>2, <1>7, <2>6 DEF Shortfall, HasRoom
  <2> QED
    BY <1>4, <2>7
<1> QED
  BY <1>5, <1>6, <1>7

LEMMA BucketTick ==
    ASSUME LimiterInv, Bucket, Tick
    PROVE  /\ LimiterTypeOK' /\ MeterInv' /\ RecentInv'
           /\ RefreshTokens' <= RefreshTokens + limiter.rate
<1> DEFINE R == RefreshTokens
           rate == limiter.rate
           cost == limiter.cost
           gain == elapsed * rate
<1>1. /\ limiter \in Limiters /\ limiter' = limiter /\ Bucket' = Bucket /\ Full' = Full
      /\ cost \in Nat /\ rate \in Nat \ {0} /\ Full \in Nat /\ limiter.window \in Nat
      /\ tokens' = tokens /\ elapsed' = Capped(elapsed + 1, Full)
      /\ tokens \in 0 .. Full /\ elapsed \in 0 .. Full
      /\ requests' = [i \in DOMAIN requests |-> Capped(requests[i] + 1, limiter.window + 1)]
      /\ granted' = [t \in 0 .. Horizon |-> IF t = 0 THEN 0 ELSE granted[t - 1]]
  BY LimiterTypes DEF LimiterInv, LimiterTypeOK, Tick, Bucket, Full
<1>2. gain \in Nat /\ R \in 0 .. Full /\ R = Capped(tokens + gain, Full)
  BY <1>1, RefreshFacts, ProductNat DEF LimiterInv, RefreshTokens
<1>3. elapsed' \in 0 .. Full
  BY <1>1 DEF Capped
<1>4. RefreshTokens' <= R + rate /\ RefreshTokens' \in 0 .. Full
  <2>1. CASE elapsed + 1 <= Full
    <3>1. elapsed' = elapsed + 1
      BY <1>1, <2>1 DEF Capped
    <3>2. (elapsed + 1) * rate = gain + rate
      BY <1>1, Z3
    <3>3. RefreshTokens' = Capped(tokens + (gain + rate), Full)
      BY <1>1, <3>1, <3>2 DEF RefreshTokens
    <3> HIDE DEF gain, R
    <3> QED
      BY <1>1, <1>2, <3>3 DEF Capped
  <2>2. CASE ~(elapsed + 1 <= Full)
    <3>1. elapsed' = elapsed
      BY <1>1, <2>2 DEF Capped
    <3>2. RefreshTokens' = R
      BY <1>1, <3>1 DEF RefreshTokens
    <3> HIDE DEF R
    <3> QED
      BY <1>1, <1>2, <3>2
  <2> QED
    BY <2>1, <2>2
<1>5. granted \in [0 .. Horizon -> Nat] /\ granted' \in [0 .. Horizon -> Nat]
  <2>1. granted \in [0 .. Horizon -> Nat] /\ Horizon \in Nat
    BY BoundsAssumption DEF LimiterInv, LimiterTypeOK
  <2> QED
    BY <1>1, <2>1
<1>6. /\ requests' \in Seq(0 .. limiter.window + 1)
      /\ Len(requests') <= limiter.burst
  <2>1. requests \in Seq(0 .. limiter.window + 1) /\ Len(requests) <= limiter.burst
    BY DEF LimiterInv, LimiterTypeOK
  <2>2. \A i \in DOMAIN requests :
          Capped(requests[i] + 1, limiter.window + 1) \in 0 .. limiter.window + 1
    BY <1>1, <2>1 DEF Capped
  <2>3. DOMAIN requests = 1 .. Len(requests) /\ Len(requests) \in Nat
    BY <2>1
  <2>4. requests' \in [1 .. Len(requests) -> 0 .. limiter.window + 1]
    BY <1>1, <2>2, <2>3
  <2>5. requests' \in Seq(0 .. limiter.window + 1) /\ Len(requests') = Len(requests)
    BY <2>3, <2>4, FunctionIsSeq
  <2> QED
    BY <2>1, <2>5
<1>7. LimiterTypeOK'
  BY <1>1, <1>3, <1>5, <1>6 DEF LimiterTypeOK
<1>8. MeterInv'
  <2> SUFFICES ASSUME NEW t \in 0 .. Horizon
               PROVE  granted'[t] * cost + RefreshTokens' <= Full + t * rate
    BY <1>1 DEF MeterInv
  <2>1. CASE t = 0
    <3>1. granted'[t] = 0
      BY <1>1, <2>1
    <3>2. 0 * cost = 0 /\ 0 * rate = 0
      BY <1>1, Z3
    <3>3. RefreshTokens' \in Int /\ RefreshTokens' <= Full
      BY <1>1, <1>4
    <3> HIDE DEF cost, rate
    <3>4. granted'[t] * cost = 0 /\ t * rate = 0
      BY <2>1, <3>1, <3>2
    <3> QED
      BY <1>1, <3>3, <3>4
  <2>2. CASE t # 0
    <3>1. t - 1 \in 0 .. Horizon /\ granted'[t] = granted[t - 1]
      BY <1>1, <2>2, BoundsAssumption
    <3>2. granted[t - 1] * cost + R <= Full + (t - 1) * rate
      BY <3>1 DEF LimiterInv, MeterInv
    <3>3. (t - 1) * rate + rate = t * rate
      BY <1>1, Z3
    <3>4. granted[t - 1] * cost \in Nat /\ (t - 1) * rate \in Nat
      BY <1>1, <1>5, <3>1, ProductNat
    <3>5. t * rate \in Int
      BY <1>1, <3>3, <3>4
    <3> DEFINE g == granted[t - 1] * cost
               e == (t - 1) * rate
               f == t * rate
               next == RefreshTokens'
    <3> HIDE DEF g, e, f, R, next
    <3>6. g + next <= Full + f
      <4>1. g \in Int /\ e \in Int /\ f \in Int /\ R \in Int /\ next \in Int /\ Full \in Int
        BY <1>1, <1>2, <1>4, <3>4, <3>5 DEF g, e, f, next
      <4>2. g + R <= Full + e /\ e + rate = f /\ next <= R + rate
        BY <1>4, <3>2, <3>3 DEF g, e, f, next
      <4> QED
        BY <1>1, <4>1, <4>2
    <3> QED
      BY <3>1, <3>6 DEF g, f, next
  <2> QED
    BY <2>1, <2>2
<1>9. RecentInv'
  BY <1>1 DEF RecentInv
<1> QED
  BY <1>4, <1>7, <1>8, <1>9

LEMMA WindowTick ==
    ASSUME LimiterInv, ~Bucket, Tick
    PROVE  /\ LimiterTypeOK' /\ MeterInv' /\ RecentInv'
           /\ Len(requests') = Len(requests)
           /\ \A i \in 1 .. Len(requests) : requests'[i] =
                IF requests[i] <= limiter.window THEN requests[i] + 1 ELSE limiter.window + 1
<1> DEFINE window == limiter.window
<1>1. /\ limiter \in Limiters /\ limiter' = limiter /\ Bucket' = Bucket /\ Full' = Full
      /\ Full \in Nat /\ window \in Nat
      /\ tokens' = tokens /\ elapsed' = Capped(elapsed + 1, Full)
      /\ tokens \in 0 .. Full /\ elapsed \in 0 .. Full
      /\ requests' = [i \in DOMAIN requests |-> Capped(requests[i] + 1, window + 1)]
      /\ granted' = [t \in 0 .. Horizon |-> IF t = 0 THEN 0 ELSE granted[t - 1]]
  BY LimiterTypes DEF LimiterInv, LimiterTypeOK, Tick, Bucket, Full
<1>2. elapsed' \in 0 .. Full
  BY <1>1 DEF Capped
<1>3. granted \in [0 .. Horizon -> Nat] /\ granted' \in [0 .. Horizon -> Nat]
  <2>1. granted \in [0 .. Horizon -> Nat] /\ Horizon \in Nat
    BY BoundsAssumption DEF LimiterInv, LimiterTypeOK
  <2> QED
    BY <1>1, <2>1
<1>4. requests \in Seq(0 .. window + 1) /\ Len(requests) <= limiter.burst
  BY DEF LimiterInv, LimiterTypeOK
<1>5. \A i \in DOMAIN requests :
        /\ Capped(requests[i] + 1, window + 1) \in 0 .. window + 1
        /\ Capped(requests[i] + 1, window + 1) =
             IF requests[i] <= window THEN requests[i] + 1 ELSE window + 1
  BY <1>1, <1>4 DEF Capped
<1>6. /\ requests' \in Seq(0 .. window + 1) /\ Len(requests') = Len(requests)
      /\ \A i \in 1 .. Len(requests) : requests'[i] =
           IF requests[i] <= window THEN requests[i] + 1 ELSE window + 1
  <2>1. DOMAIN requests = 1 .. Len(requests) /\ Len(requests) \in Nat
    BY <1>4
  <2>2. requests' \in [1 .. Len(requests) -> 0 .. window + 1]
    BY <1>1, <1>5, <2>1
  <2>3. requests' \in Seq(0 .. window + 1) /\ Len(requests') = Len(requests)
    BY <2>1, <2>2, FunctionIsSeq
  <2> QED
    BY <1>1, <1>5, <2>1, <2>3
<1>7. LimiterTypeOK'
  BY <1>1, <1>2, <1>3, <1>4, <1>6 DEF LimiterTypeOK
<1>8. MeterInv'
  BY <1>1 DEF MeterInv
<1>9. RecentInv'
  <2> SUFFICES ASSUME NEW t \in 0 .. Horizon, t <= window
               PROVE  /\ granted'[t] <= Len(requests)
                      /\ \A i \in 1 .. Len(requests) :
                           i > Len(requests) - granted'[t] => requests'[i] <= t
    BY <1>1, <1>6 DEF RecentInv
  <2>1. CASE t = 0
    <3>1. granted'[t] = 0
      BY <1>1, <2>1
    <3> QED
      BY <1>4, <3>1
  <2>2. CASE t # 0
    <3>1. t - 1 \in 0 .. Horizon /\ granted'[t] = granted[t - 1] /\ t - 1 <= window
      BY <1>1, <2>2, BoundsAssumption
    <3>2. /\ granted[t - 1] <= Len(requests)
          /\ \A i \in 1 .. Len(requests) :
               i > Len(requests) - granted[t - 1] => requests[i] <= t - 1
      BY <3>1 DEF LimiterInv, RecentInv
    <3>3. \A i \in 1 .. Len(requests) : requests[i] <= t - 1 => requests'[i] <= t
      <4> SUFFICES ASSUME NEW i \in 1 .. Len(requests), requests[i] <= t - 1
                   PROVE  requests'[i] <= t
        OBVIOUS
      <4>1. requests[i] \in Int /\ t \in Int /\ requests[i] <= window
        BY <1>1, <1>4, <3>1
      <4>2. requests'[i] = requests[i] + 1
        BY <1>6, <4>1
      <4> QED
        BY <4>1, <4>2
    <3> QED
      BY <3>1, <3>2, <3>3
  <2> QED
    BY <2>1, <2>2
<1> QED
  BY <1>6, <1>7, <1>8, <1>9

(* A tick brings room closer by one tick and no more.                      *)
LEMMA TickShortfall ==
    ASSUME LimiterInv, Tick
    PROVE  /\ LimiterInv'
           /\ \A m \in Sizes : /\ Shortfall(m) \in Nat /\ Shortfall(m)' \in Nat
                               /\ Shortfall(m) <= Shortfall(m)' + 1
<1>1. LimiterInv' /\ LimiterTypeOK /\ LimiterTypeOK'
  BY BucketTick, WindowTick DEF LimiterInv
<1>2. limiter' = limiter /\ Bucket' = Bucket /\ limiter \in Limiters
  BY DEF Tick, Bucket, LimiterInv, LimiterTypeOK
<1> SUFFICES ASSUME NEW m \in Sizes
             PROVE  /\ Shortfall(m) \in Nat /\ Shortfall(m)' \in Nat
                    /\ Shortfall(m) <= Shortfall(m)' + 1
  BY <1>1
<1>3. ShortfallOK(m) /\ ShortfallOK(m)'
  BY <1>1, ShortfallFacts, ShortfallNext DEF ShortfallOK
<1>4. Shortfall(m) \in Nat /\ Shortfall(m)' \in Nat
  BY <1>3 DEF ShortfallOK
<1>5. CASE Bucket
  <2> DEFINE wants == m * limiter.cost
             has == RefreshTokens
             now == RefreshTokens'
  <2>1. limiter.cost \in Nat /\ limiter.rate \in Nat \ {0} /\ m \in Nat /\ Full \in Nat
    BY <1>2, LimiterTypes, BoundsAssumption
  <2>2. wants \in Int
    BY <2>1, ProductNat
  <2>3. has \in Int /\ now \in Int /\ now <= has + limiter.rate
    <3>1. has \in 0 .. Full /\ now \in 0 .. Full'
      BY <1>1, RefreshFacts, RefreshNext
    <3>2. Full' = Full
      BY <1>2 DEF Full
    <3>3. now <= has + limiter.rate
      BY <1>5, BucketTick
    <3> QED
      BY <2>1, <3>1, <3>2, <3>3
  <2>4. /\ Shortfall(m) = UntilEnough(wants, has, limiter.rate)
        /\ Shortfall(m)' = UntilEnough(wants, now, limiter.rate)
    BY <1>2, <1>3, <1>5 DEF ShortfallOK
  <2> HIDE DEF wants, has, now
  <2>5. UntilEnough(wants, has, limiter.rate) <= UntilEnough(wants, now, limiter.rate) + 1
    BY <2>1, <2>2, <2>3, UntilEnoughOrder
  <2> QED
    BY <1>4, <2>4, <2>5
<1>6. CASE ~Bucket /\ HasRoom(m)
  BY <1>3, <1>4, <1>6 DEF ShortfallOK
<1>7. CASE ~Bucket /\ ~HasRoom(m)
  <2> DEFINE window == limiter.window
             first == requests[1]
             next == requests'[1]
  <2>1. /\ Len(requests) = limiter.burst /\ Len(requests) > 0 /\ first \in 0 .. window
        /\ window \in Nat
    BY <1>1, <1>2, <1>7, NoRoom, LimiterTypes
  <2>2. Len(requests') = Len(requests) /\ next = first + 1
    <3>1. 1 \in 1 .. Len(requests) /\ first <= window
      BY <1>1, <2>1 DEF LimiterTypeOK
    <3> QED
      BY <1>7, <3>1, WindowTick
  <2>3. Shortfall(m) = window + 1 - first
    BY <1>3, <1>7 DEF ShortfallOK
  <2>4. CASE ~HasRoom(m)'
    <3>1. Shortfall(m)' = window + 1 - next
      BY <1>2, <1>3, <1>7, <2>4 DEF ShortfallOK
    <3> QED
      BY <1>4, <2>1, <2>2, <2>3, <3>1
  <2>5. CASE HasRoom(m)'
    <3>1. first = window
      <4> SUFFICES ASSUME first < window PROVE FALSE
        BY <2>1
      <4>1. next <= window
        BY <2>1, <2>2
      <4>2. /\ requests' \in Seq(0 .. window + 1) /\ Len(requests') \in 1 .. Len(requests')
            /\ requests'[Len(requests') - Len(requests') + 1] <= window
        BY <1>1, <1>2, <2>1, <2>2, <4>1 DEF LimiterTypeOK
      <4>3. Cardinality(Prefix(requests', window)) <= 0
        BY <2>1, <4>2, YoungAreKept
      <4>4. /\ Cardinality(Prefix(requests', window)) \in 0 .. Len(requests')
            /\ Len(Kept(requests', window)) =
                 Len(requests') - Cardinality(Prefix(requests', window))
        BY <2>1, <4>2, KeptFacts
      <4>5. Len(Cleanup') = Len(requests')
        BY <1>2, <4>2, <4>3, <4>4, CleanupIsKept
      <4>6. Len(Cleanup') < limiter.burst
        BY <1>2, <1>7, <2>5 DEF HasRoom
      <4> QED
        BY <2>1, <2>2, <4>5, <4>6
    <3> QED
      BY <1>4, <2>1, <2>3, <3>1
  <2> QED
    BY <2>4, <2>5
<1> QED
  BY <1>5, <1>6, <1>7
-----------------------------------------------------------------------------
(* The waiters.                                                            *)

(* A waiter that sleeps after a step slept before it for the same demand,  *)
(* or fell asleep in it.                                                   *)
LEMMA TakeWakes ==
    ASSUME IInv, NEW n \in Nat, n = 0 \/ HasRoom(n), ~Bucket => n \in {0, 1}, Take(n),
           \A w \in Waiters : pc'[w] = "sleeping" =>
               /\ need'[w] = need[w] /\ need[w] \in Sizes
               /\ timer'[w] \in Nat /\ timer'[w] <= Shortfall(need[w])
    PROVE  LimiterInv' /\ WakesInTime'
<1>1. /\ LimiterInv'
      /\ \A m \in Sizes : /\ Shortfall(m) \in Nat /\ Shortfall(m)' \in Nat
                          /\ Shortfall(m) <= Shortfall(m)'
  BY TakeShortfall DEF IInv
<1>2. WakesInTime'
  <2> SUFFICES ASSUME NEW w \in Waiters, pc'[w] = "sleeping"
               PROVE  timer'[w] <= Shortfall(need[w])'
    BY DEF WakesInTime
  <2>1. PICK m \in Sizes : m = need'[w] /\ m = need[w]
    OBVIOUS
  <2>2. timer'[w] \in Nat /\ timer'[w] <= Shortfall(m)
    BY <2>1
  <2>3. timer'[w] <= Shortfall(m)'
    BY <1>1, <2>2
  <2> QED
    BY <2>1, <2>3
<1> QED
  BY <1>1, <1>2

(* The same of a step that leaves the limiter alone.                       *)
LEMMA SameWakes ==
    ASSUME IInv, UNCHANGED <<limiter, tokens, elapsed, requests, granted>>,
           \A w \in Waiters : pc'[w] = "sleeping" =>
               /\ need'[w] = need[w] /\ timer'[w] = timer[w] /\ pc[w] = "sleeping"
    PROVE  LimiterInv' /\ WakesInTime'
<1>1. Bucket' = Bucket /\ Full' = Full
  BY DEF Bucket, Full
<1>2. RefreshTokens' = RefreshTokens /\ Cleanup' = Cleanup
  BY <1>1 DEF RefreshTokens, Cleanup, Stale
<1>3. LimiterInv'
  BY <1>1, <1>2 DEF IInv, LimiterInv, LimiterTypeOK, MeterInv, RecentInv
<1>4. WakesInTime'
  BY <1>1, <1>2 DEF IInv, WakesInTime, Shortfall, HasRoom
<1> QED
  BY <1>3, <1>4

LEMMA DemandFacts ==
    ASSUME NEW n \in Demands
    PROVE  n \in Nat /\ n \in Sizes /\ (~Bucket => n = 1)
BY BoundsAssumption DEF Demands

LEMMA NeedFacts ==
    ASSUME IInv, NEW w \in Waiters
    PROVE  need[w] \in Sizes /\ need[w] \in Nat /\ timer[w] \in Nat /\ (~Bucket => need[w] = 1)
BY BoundsAssumption DEF IInv, WaiterTypeOK, OneByOne

LEMMA InitInv == ASSUME Init PROVE IInv
<1>1. /\ limiter \in Limiters /\ Full \in Nat /\ limiter.burst \in Nat
      /\ limiter.rate \in Nat /\ limiter.cost \in Nat /\ Horizon \in Nat /\ 1 \in Sizes
  BY LimiterTypes, BoundsAssumption DEF Init
<1>2. LimiterTypeOK
  BY <1>1 DEF Init, LimiterTypeOK
<1>3. MeterInv
  <2> SUFFICES ASSUME Bucket, NEW t \in 0 .. Horizon
               PROVE  granted[t] * limiter.cost + RefreshTokens <= Full + t * limiter.rate
    BY DEF MeterInv
  <2> DEFINE cost == limiter.cost
             rate == limiter.rate
             e == t * rate
  <2>1. RefreshTokens \in 0 .. Full
    BY <1>2, RefreshFacts
  <2>2. e \in Nat
    BY <1>1, ProductNat
  <2>3. granted[t] = 0
    BY DEF Init
  <2>4. 0 * cost = 0
    BY <1>1, Z3
  <2> HIDE DEF cost, e
  <2>5. granted[t] * cost = 0
    BY <2>3, <2>4
  <2> QED
    BY <1>1, <2>1, <2>2, <2>5 DEF cost, e
<1>4. RecentInv
  BY <1>1 DEF Init, RecentInv
<1>5. WaiterTypeOK /\ OneByOne /\ WakesInTime
  BY <1>1 DEF Init, WaiterTypeOK, OneByOne, WakesInTime
<1> QED
  BY <1>2, <1>3, <1>4, <1>5 DEF IInv, LimiterInv

LEMMA NextInv == ASSUME IInv, [Next]_vars PROVE IInv'
<1>0. WaiterTypeOK /\ OneByOne /\ WakesInTime /\ LimiterTypeOK
  BY DEF IInv, LimiterInv
<1>1. ASSUME NEW n \in Demands, Allow(n) PROVE IInv'
  <2>1. Take(n) /\ HasRoom(n) /\ UNCHANGED <<pc, need, timer>> /\ limiter' = limiter
    BY <1>1 DEF Allow, Take
  <2>2. LimiterInv' /\ WakesInTime'
    BY <1>0, <2>1, DemandFacts, NeedFacts, TakeWakes DEF WakesInTime
  <2>3. WaiterTypeOK' /\ OneByOne'
    BY <1>0, <2>1 DEF WaiterTypeOK, OneByOne, Bucket
  <2> QED
    BY <2>2, <2>3 DEF IInv
<1>2. ASSUME NEW n \in Demands, Deny(n) \/ Defer(n) PROVE IInv'
  <2>1. Take(0) /\ UNCHANGED <<pc, need, timer>> /\ limiter' = limiter
    BY <1>2 DEF Deny, Defer, Take
  <2>2. LimiterInv' /\ WakesInTime'
    BY <1>0, <2>1, NeedFacts, TakeWakes DEF WakesInTime
  <2>3. WaiterTypeOK' /\ OneByOne'
    BY <1>0, <2>1 DEF WaiterTypeOK, OneByOne, Bucket
  <2> QED
    BY <2>2, <2>3 DEF IInv
<1>3. ASSUME NEW n \in Demands, NEW w \in Waiters, Wait(w, n) PROVE IInv'
  <2>1. /\ UNCHANGED <<limiter, tokens, elapsed, requests, granted>> /\ timer' = timer
        /\ pc' = [pc EXCEPT ![w] = "trying"] /\ need' = [need EXCEPT ![w] = n]
    BY <1>3 DEF Wait
  <2>2. LimiterInv' /\ WakesInTime'
    BY <1>0, <2>1, SameWakes DEF WaiterTypeOK
  <2>3. WaiterTypeOK' /\ OneByOne'
    BY <1>0, <2>1, DemandFacts DEF WaiterTypeOK, OneByOne, Bucket
  <2> QED
    BY <2>2, <2>3 DEF IInv
<1>4. ASSUME NEW w \in Waiters, Granted(w) PROVE IInv'
  <2>1. /\ Take(need[w]) /\ HasRoom(need[w]) /\ timer' = timer /\ limiter' = limiter
        /\ pc' = [pc EXCEPT ![w] = "idle"] /\ need' = [need EXCEPT ![w] = 1]
    BY <1>4 DEF Granted, Return, Take
  <2>2. \A v \in Waiters : pc'[v] = "sleeping" => v # w /\ pc[v] = "sleeping"
    BY <1>0, <2>1 DEF WaiterTypeOK
  <2>3. LimiterInv' /\ WakesInTime'
    <3>1. \A v \in Waiters : pc'[v] = "sleeping" =>
            /\ need'[v] = need[v] /\ need[v] \in Sizes
            /\ timer'[v] \in Nat /\ timer'[v] <= Shortfall(need[v])
      BY <1>0, <2>1, <2>2 DEF WaiterTypeOK, WakesInTime
    <3>2. need[w] \in Nat /\ (~Bucket => need[w] \in {0, 1})
      BY NeedFacts
    <3> QED
      BY <2>1, <3>1, <3>2, TakeWakes
  <2>4. WaiterTypeOK' /\ OneByOne'
    BY <1>0, <2>1, BoundsAssumption DEF WaiterTypeOK, OneByOne, Bucket
  <2> QED
    BY <2>3, <2>4 DEF IInv
<1>5. ASSUME NEW w \in Waiters, Sleep(w) PROVE IInv'
  <2>1. /\ Take(0) /\ ~HasRoom(need[w]) /\ need' = need /\ limiter' = limiter
        /\ pc' = [pc EXCEPT ![w] = "sleeping"]
        /\ timer' = [timer EXCEPT ![w] = WaitTime(need[w])]
    BY <1>5 DEF Sleep, Take
  <2>2. WaitTime(need[w]) \in Nat /\ WaitTime(need[w]) <= Shortfall(need[w])
    BY <1>0, <2>1, NeedFacts, ShortfallFacts
  <2>3. LimiterInv' /\ WakesInTime'
    <3>1. \A v \in Waiters : pc'[v] = "sleeping" =>
            /\ need'[v] = need[v] /\ need[v] \in Sizes
            /\ timer'[v] \in Nat /\ timer'[v] <= Shortfall(need[v])
      BY <1>0, <2>1, <2>2 DEF WaiterTypeOK, WakesInTime
    <3> QED
      BY <2>1, <3>1, TakeWakes
  <2>4. WaiterTypeOK' /\ OneByOne'
    BY <1>0, <2>1, <2>2 DEF WaiterTypeOK, OneByOne, Bucket
  <2> QED
    BY <2>3, <2>4 DEF IInv
<1>6. ASSUME NEW w \in Waiters, Wake(w) PROVE IInv'
  <2>1. /\ UNCHANGED <<limiter, tokens, elapsed, requests, granted, timer, need>>
        /\ pc' = [pc EXCEPT ![w] = "trying"]
    BY <1>6 DEF Wake
  <2>2. LimiterInv' /\ WakesInTime'
    BY <1>0, <2>1, SameWakes DEF WaiterTypeOK
  <2>3. WaiterTypeOK' /\ OneByOne'
    BY <1>0, <2>1 DEF WaiterTypeOK, OneByOne, Bucket
  <2> QED
    BY <2>2, <2>3 DEF IInv
<1>7. ASSUME NEW w \in Waiters, Cancelled(w) PROVE IInv'
  <2>1. /\ UNCHANGED <<limiter, tokens, elapsed, requests, granted>>
        /\ pc' = [pc EXCEPT ![w] = "idle"] /\ need' = [need EXCEPT ![w] = 1]
        /\ timer' = [timer EXCEPT ![w] = 0]
    BY <1>7 DEF Cancelled, Return
  <2>2. LimiterInv' /\ WakesInTime'
    BY <1>0, <2>1, SameWakes DEF WaiterTypeOK
  <2>3. WaiterTypeOK' /\ OneByOne'
    BY <1>0, <2>1, BoundsAssumption DEF WaiterTypeOK, OneByOne, Bucket
  <2> QED
    BY <2>2, <2>3 DEF IInv
<1>8. ASSUME Tick PROVE IInv'
  <2>1. /\ limiter' = limiter /\ pc' = pc /\ need' = need
        /\ timer' = [w \in Waiters |-> IF timer[w] = 0 THEN 0 ELSE timer[w] - 1]
    BY <1>8 DEF Tick
  <2>2. /\ LimiterInv'
        /\ \A m \in Sizes : /\ Shortfall(m) \in Nat /\ Shortfall(m)' \in Nat
                            /\ Shortfall(m) <= Shortfall(m)' + 1
    BY <1>8, TickShortfall DEF IInv
  <2>3. WakesInTime'
    <3> SUFFICES ASSUME NEW w \in Waiters, pc'[w] = "sleeping"
                 PROVE  timer'[w] <= Shortfall(need[w])'
      BY DEF WakesInTime
    <3>1. PICK m \in Sizes : m = need'[w] /\ m = need[w]
      BY <2>1, NeedFacts
    <3>2. timer[w] \in Nat /\ timer[w] <= Shortfall(m)
      BY <1>0, <2>1, <3>1 DEF WaiterTypeOK, WakesInTime
    <3>3. timer'[w] = IF timer[w] = 0 THEN 0 ELSE timer[w] - 1
      BY <2>1
    <3>4. timer'[w] <= Shortfall(m)'
      BY <2>2, <3>2, <3>3
    <3> QED
      BY <3>1, <3>4
  <2>4. WaiterTypeOK' /\ OneByOne'
    BY <1>0, <2>1 DEF WaiterTypeOK, OneByOne, Bucket
  <2> QED
    BY <2>2, <2>3, <2>4 DEF IInv
<1>9. CASE UNCHANGED vars
  <2>1. UNCHANGED <<limiter, tokens, elapsed, requests, granted, pc, need, timer>>
    BY <1>9 DEF vars
  <2>2. LimiterInv' /\ WakesInTime'
    BY <2>1, SameWakes
  <2>3. WaiterTypeOK' /\ OneByOne'
    BY <1>0, <2>1 DEF WaiterTypeOK, OneByOne, Bucket
  <2> QED
    BY <2>2, <2>3 DEF IInv
<1> QED
  BY <1>1, <1>2, <1>3, <1>4, <1>5, <1>6, <1>7, <1>8, <1>9 DEF Next, WaiterStep

-----------------------------------------------------------------------------
(* The theorems.                                                           *)

(* The inductive invariant holds in every state of every behaviour.        *)
THEOREM Invariance == Spec => []IInv
BY InitInv, NextInv, PTL DEF Spec

(* A bucket never holds more than burst tokens nor fewer than none, and a  *)
(* window never more than limit entries (refreshTokens 143-152, AllowN of  *)
(* SlidingWindow 170-184).                                                 *)
THEOREM TypeCorrectness == Spec => []TypeOK
<1>1. IInv => TypeOK
  BY DEF IInv, LimiterInv, LimiterTypeOK, WaiterTypeOK, TypeOK
<1> QED
  BY <1>1, Invariance, PTL

(* Whatever the mix of AllowN, ReserveN and WaitN, the events let through  *)
(* at once in any interval stay inside burst plus what the rate adds, or   *)
(* limit in a stretch of one window.  A ReserveN that tells a delay is not *)
(* among them: it takes nothing (125-132, 225-232).                        *)
THEOREM RateSafety == Spec => []RateRespected
<1>1. ASSUME IInv PROVE RateRespected
  <2>1. LimiterTypeOK /\ MeterInv /\ RecentInv /\ limiter \in Limiters
    BY <1>1 DEF IInv, LimiterInv, LimiterTypeOK
  <2> SUFFICES ASSUME NEW t \in 0 .. Horizon
               PROVE  IF Bucket THEN granted[t] * limiter.cost <= Full + t * limiter.rate
                      ELSE t <= limiter.window => granted[t] <= limiter.burst
    BY DEF RateRespected
  <2>2. CASE Bucket
    <3> DEFINE g == granted[t] * limiter.cost
               e == t * limiter.rate
    <3>1. g \in Nat /\ e \in Nat /\ Full \in Nat /\ RefreshTokens \in 0 .. Full
      <4>1. /\ granted[t] \in Nat /\ limiter.cost \in Nat
            /\ t \in Nat /\ limiter.rate \in Nat /\ Full \in Nat
        BY <2>1, LimiterTypes, BoundsAssumption DEF LimiterTypeOK
      <4> QED
        BY <2>1, <4>1, RefreshFacts, ProductNat
    <3>2. g + RefreshTokens <= Full + e
      BY <2>1, <2>2 DEF MeterInv
    <3> HIDE DEF g, e
    <3>3. g <= Full + e
      BY <3>1, <3>2
    <3> QED
      BY <2>2, <3>3 DEF g, e
  <2>3. CASE ~Bucket
    <3>1. /\ granted[t] \in Nat /\ Len(requests) \in Nat /\ limiter.burst \in Nat
          /\ Len(requests) <= limiter.burst
      BY <2>1, LimiterTypes DEF LimiterTypeOK
    <3> QED
      BY <2>1, <2>3, <3>1 DEF RecentInv
  <2> QED
    BY <2>2, <2>3
<1> QED
  BY <1>1, Invariance, PTL

(* A sleeping waiter's timer fires no later than the limiter has room for  *)
(* it, whatever others have taken meanwhile (WaitN 94-103, Wait 197-207).  *)
THEOREM WakeSafety == Spec => []WakesInTime
<1>1. IInv => WakesInTime
  BY DEF IInv
<1> QED
  BY <1>1, Invariance, PTL
=============================================================================
