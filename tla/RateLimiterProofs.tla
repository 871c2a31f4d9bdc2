------------------------- MODULE RateLimiterProofs -------------------------
(***************************************************************************)
(* Proofs about RateLimiter, for every configuration, time to live and     *)
(* resolution of the clock.  The potential of a client is what it was      *)
(* admitted in the window plus what its bucket may hold by now; it grows   *)
(* by at most the rate per tick, and by a burst when a bucket is lost.     *)
(***************************************************************************)
EXTENDS RateLimiter, TLAPS

Gain  == AtLeast0(Rate)
Burst == AtLeast0(Full)

(* What a bucket may hold, if nothing drains it and it is never dropped.   *)
Credit(t, e) == Capped(t + AtLeast0(e) * Gain)

Held(k) == IF bucket[k].last = Never THEN Full ELSE Credit(bucket[k].tokens, Elapsed(k))

Potential(k) == admitted[k] * Second + AtLeast0(Held(k))

Budget(k) == Burst * (1 + expired[k] + wiped[k]) + Gain * (travel - from[k])

BoundInv ==
    \A k \in Clients : from[k] <= travel /\ Potential(k) <= Budget(k)

(* Time since the last decision, as far as it counts towards the TTL.      *)
Age(k) ==
    IF bucket[k].last = Never \/ Elapsed(k) < 0 THEN 0
    ELSE IF Elapsed(k) > TTL THEN TTL ELSE Elapsed(k)

(* A bucket that expires and is not full is in Redis, takes longer to fill *)
(* than its TTL, and has not been asked for the TTL.                       *)
ExpiryInv ==
    \A k \in Clients :
        /\ expired[k] > 0 => Shared /\ Rate * TTL < Full
        /\ expired[k] * TTL + Age(k) <= TTL + (travel - from[k])

(* A bucket is overdrawn only where the rate drains it or it holds none.   *)
LevelInv ==
    Rate >= 0 /\ Full > 0 => \A k \in Clients : bucket[k].tokens >= 0

(* The tokens refused requests have saved up since the first of them.      *)
SavedInv ==
    ~clockSet /\ Rate >= 0 /\ Full > 0 =>
        \A k \in Clients :
            /\ bucket[k].last <= now
            /\ since[k] # Never =>
                 /\ bucket[k].tokens < Second
                 /\ (bucket[k].last - since[k]) * Rate <= bucket[k].tokens

IInv ==
    /\ TypeOK
    /\ BoundInv
    /\ ExpiryInv
    /\ LevelInv
    /\ SavedInv

-----------------------------------------------------------------------------
LEMMA MulMono ==
    ASSUME NEW a \in Int, NEW b \in Int, NEW c \in Nat, a <= b
    PROVE  a * c <= b * c
<1>1. (b - a) * c >= 0
  OBVIOUS
<1> QED
  BY <1>1

LEMMA Distribute ==
    ASSUME NEW a \in Int, NEW b \in Int, NEW c \in Int
    PROVE  (a + b) * c = a * c + b * c
  OBVIOUS

LEMMA OneMore ==
    ASSUME NEW f \in Int, NEW m \in Int
    PROVE  f * (m + 1) = f * m + f
  OBVIOUS

LEMMA AtLeast0Is ==
    ASSUME NEW n \in Int
    PROVE  AtLeast0(n) \in Nat /\ AtLeast0(n) >= n /\ (n <= 0 => AtLeast0(n) = 0)
              /\ (n >= 0 => AtLeast0(n) = n)
  BY DEF AtLeast0

(* The configuration.                                                      *)
LEMMA ConfigIs ==
    ASSUME cfg \in Configs
    PROVE  /\ Rate \in Int /\ Full \in Int /\ Shared \in BOOLEAN
           /\ Gain \in Nat /\ Gain >= Rate /\ (Rate >= 0 => Gain = Rate)
           /\ Burst \in Nat /\ Burst >= Full /\ (Full > 0 => Full >= Second /\ Burst = Full)
           /\ (Full <= 0 => Burst = 0)
           /\ Second \in Nat /\ Second > 0 /\ TTL \in Nat /\ TTL > 0
<1>1. /\ cfg.shared \in BOOLEAN /\ cfg.rate \in Int /\ cfg.burst \in Int
      /\ Second \in Nat /\ Second > 0 /\ TTL \in Nat /\ TTL > 0
  BY ConfigsAssumption, LimitsAssumption
<1> DEFINE b == cfg.burst
<1>2. b \in Int /\ Full = b * Second /\ Full \in Int
  BY <1>1 DEF Full
<1> HIDE DEF b
<1>3. b <= 0 => b * Second <= 0
  BY <1>1, <1>2, MulMono
<1>4. b >= 1 => b * Second >= Second
  BY <1>1, <1>2, MulMono
<1>5. Full > 0 => Full >= Second
  BY <1>1, <1>2, <1>3, <1>4
<1> QED
  BY <1>1, <1>2, <1>5, AtLeast0Is DEF Rate, Shared, Gain, Burst

(* What a bucket may hold is capped, is no less than what it holds, and    *)
(* grows no faster than the rate; a clock that goes back adds nothing.     *)
LEMMA CreditBounds ==
    ASSUME cfg \in Configs, NEW t \in Int, NEW e \in Int, NEW f \in Int, NEW d \in Nat,
           f <= e + d
    PROVE  /\ Credit(t, e) \in Int /\ Credit(t, e) <= Full
           /\ Refill(t, e) \in Int /\ Refill(t, e) <= Credit(t, e)
           /\ d * Gain \in Nat
           /\ Credit(t, f) <= Credit(t, e) + d * Gain
<1> DEFINE x == AtLeast0(e) * Gain
           y == AtLeast0(f) * Gain
           z == d * Gain
           r == IF e > 0 THEN e * Rate ELSE 0
<1>0. AtLeast0(e) \in Nat /\ AtLeast0(f) \in Nat /\ AtLeast0(f) <= AtLeast0(e) + d
  BY AtLeast0Is DEF AtLeast0
<1>1. x \in Nat /\ y \in Nat /\ z \in Nat
  BY <1>0, ConfigIs
<1>2. y <= x + z
  <2>1. y <= (AtLeast0(e) + d) * Gain
    BY <1>0, ConfigIs, MulMono
  <2>2. (AtLeast0(e) + d) * Gain = x + z
    BY <1>0, ConfigIs, Distribute
  <2> QED
    BY <2>1, <2>2
<1>3. r \in Int /\ r <= x
  <2>1. CASE e <= 0
    BY <1>1, <2>1
  <2>2. CASE e > 0
    <3>1. AtLeast0(e) = e
      BY <2>2 DEF AtLeast0
    <3>2. Rate * e <= Gain * e
      BY <2>2, ConfigIs, MulMono
    <3>3. Rate * e = e * Rate /\ Gain * e = e * Gain /\ e * Rate \in Int
      BY ConfigIs
    <3> QED
      BY <2>2, <3>1, <3>2, <3>3
  <2> QED
    BY <2>1, <2>2
<1>4. /\ Credit(t, e) = IF t + x > Full THEN Full ELSE t + x
      /\ Credit(t, f) = IF t + y > Full THEN Full ELSE t + y
      /\ Refill(t, e) = IF t + r > Full THEN Full ELSE t + r
  BY DEF Credit, Refill, Capped
<1> HIDE DEF x, y, z, r
<1>5. /\ Credit(t, e) \in Int /\ Credit(t, e) <= Full
      /\ Refill(t, e) \in Int /\ Refill(t, e) <= Credit(t, e)
      /\ Credit(t, f) <= Credit(t, e) + z
  BY <1>1, <1>2, <1>3, <1>4, ConfigIs
<1> QED
  BY <1>1, <1>5 DEF z

(* The types of a client's bucket and what is derived from it.             *)
LEMMA BucketIs ==
    ASSUME TypeOK, NEW k \in Clients
    PROVE  /\ bucket[k].tokens \in Int /\ bucket[k].tokens <= Burst
           /\ bucket[k].last \in Int /\ Elapsed(k) \in Int
           /\ bucket[k].last # Never => bucket[k].last \in Nat
           /\ Held(k) \in Int /\ Held(k) <= Full
           /\ Refilled(k) \in Int /\ Refilled(k) <= Full
           /\ Age(k) \in 0 .. TTL
<1>1. /\ bucket[k].tokens \in Int /\ bucket[k].tokens <= Burst
      /\ bucket[k].last \in Int /\ Elapsed(k) \in Int
      /\ bucket[k].last # Never => bucket[k].last \in Nat
      /\ cfg \in Configs
  BY DEF TypeOK, Elapsed, Never, Burst
<1> DEFINE t == bucket[k].tokens
           e == Elapsed(k)
<1>2. t \in Int /\ e \in Int
  BY <1>1
<1> HIDE DEF t, e
<1>3. /\ Credit(t, e) \in Int /\ Credit(t, e) <= Full
      /\ Refill(t, e) \in Int /\ Refill(t, e) <= Full
  <2>1. /\ Credit(t, e) \in Int /\ Credit(t, e) <= Full
        /\ Refill(t, e) \in Int /\ Refill(t, e) <= Credit(t, e)
    BY <1>1, <1>2, 0 \in Nat, e <= e + 0, CreditBounds
  <2> QED
    BY <1>1, <2>1, ConfigIs
<1>4. Age(k) \in 0 .. TTL
  BY <1>1, ConfigIs DEF Age
<1> QED
  BY <1>1, <1>3, <1>4, ConfigIs DEF Held, Refilled, t, e

(* What a decision finds is what the bucket may hold, or it found none in  *)
(* the place of one that was not full.                                     *)
LEMMA FoundIs ==
    ASSUME TypeOK, NEW k \in Clients
    PROVE  \/ NoBucket(k) /\ GainsByLoss(k)
           \/ Refilled(k) <= Held(k)
           \/ Refilled(k) <= 0
<1> DEFINE t == bucket[k].tokens
           e == Elapsed(k)
<1>1. t \in Int /\ e \in Int /\ cfg \in Configs /\ Full \in Int
  BY BucketIs, ConfigIs DEF TypeOK
<1> HIDE DEF t, e
<1>2. /\ Credit(t, e) \in Int /\ Credit(t, e) <= Full
      /\ Refill(t, e) \in Int /\ Refill(t, e) <= Credit(t, e)
  BY <1>1, 0 \in Nat, e <= e + 0, CreditBounds
<1>3. CASE bucket[k].last = Never
  BY <1>1, <1>3 DEF Refilled, Held, NoBucket
<1>4. CASE bucket[k].last # Never /\ ~NoBucket(k)
  BY <1>2, <1>4 DEF Refilled, Held, t, e
<1>5. CASE bucket[k].last # Never /\ NoBucket(k)
  BY <1>1, <1>2, <1>5 DEF Refilled, Held, GainsByLoss, t, e
<1> QED
  BY <1>3, <1>4, <1>5

(* A bucket and a clock that do not move.                                  *)
LEMMA Same ==
    ASSUME NEW k \in Clients, bucket'[k] = bucket[k], UNCHANGED <<cfg, now>>
    PROVE  Held(k)' = Held(k) /\ Age(k)' = Age(k)
  BY DEF Held, Age, Elapsed, Credit, Capped, Gain, AtLeast0, Full, Rate

LEMMA SameConfig ==
    ASSUME cfg' = cfg
    PROVE  /\ Full' = Full /\ Rate' = Rate /\ Shared' = Shared
           /\ Gain' = Gain /\ Burst' = Burst
  BY DEF Full, Rate, Shared, Gain, Burst, AtLeast0

(* A missing bucket.                                                       *)
LEMMA Missing ==
    ASSUME TypeOK, NEW k \in Clients, bucket'[k] = Absent, cfg' = cfg
    PROVE  Held(k)' = Full /\ Age(k)' = 0
<1>1. bucket'[k].last = Never
  BY DEF Absent
<1> QED
  BY <1>1, SameConfig DEF Held, Age

(* The bounds for a client whose parts of the state are known.             *)
LEMMA NumberTypes ==
    ASSUME TypeOK, NEW k \in Clients
    PROVE  /\ admitted[k] \in Nat /\ admitted[k] * Second \in Nat
           /\ expired[k] \in Nat /\ expired[k] * TTL \in Nat /\ wiped[k] \in Nat
           /\ Burst * (1 + expired[k] + wiped[k]) \in Nat
           /\ from[k] \in Nat /\ travel \in Nat /\ now \in Nat
           /\ Gain * (travel - from[k]) \in Int
<1>1. /\ admitted[k] \in Nat /\ expired[k] \in Nat /\ wiped[k] \in Nat
      /\ from[k] \in Nat /\ travel \in Nat /\ now \in Nat /\ cfg \in Configs
  BY DEF TypeOK
<1>2. 1 + expired[k] + wiped[k] \in Nat /\ travel - from[k] \in Int
  BY <1>1
<1> QED
  BY <1>1, <1>2, ConfigIs

-----------------------------------------------------------------------------
(* The initial states satisfy the invariant.                               *)
LEMMA InitIInv == Init => IInv
<1> SUFFICES ASSUME Init PROVE IInv
  OBVIOUS
<1>0. cfg \in Configs
  BY DEF Init
<1>1. TypeOK
  <2>1. Absent \in [tokens : Int, last : Nat \cup {Never}] /\ Absent.tokens <= AtLeast0(Full)
    BY <1>0, ConfigIs DEF Absent, Burst
  <2>2. /\ bucket \in [Clients -> [tokens : Int, last : Nat \cup {Never}]]
        /\ \A k \in Clients : bucket[k].tokens <= AtLeast0(Full)
    BY <2>1 DEF Init
  <2>3. /\ now \in Nat /\ travel \in 0 .. MaxTravel /\ clockSet \in BOOLEAN
        /\ from \in [Clients -> 0 .. MaxTravel]
        /\ admitted \in [Clients -> Nat] /\ expired \in [Clients -> Nat]
        /\ wiped \in [Clients -> 0 .. MaxWipes] /\ since \in [Clients -> Nat \cup {Never}]
    <3>1. 0 \in Nat /\ 0 \in 0 .. MaxTravel /\ 0 \in 0 .. MaxWipes
      BY LimitsAssumption
    <3> QED
      BY <3>1 DEF Init
  <2> QED
    BY <1>0, <2>2, <2>3 DEF TypeOK
<1>2. ASSUME NEW k \in Clients
      PROVE  /\ bucket[k] = Absent /\ since[k] = Never /\ from[k] = 0 /\ admitted[k] = 0
             /\ expired[k] = 0 /\ wiped[k] = 0
             /\ travel = 0 /\ now = 0
  BY DEF Init
<1>3. BoundInv
  <2> SUFFICES ASSUME NEW k \in Clients PROVE from[k] <= travel /\ Potential(k) <= Budget(k)
    BY DEF BoundInv
  <2>1. Held(k) = Full
    BY <1>2 DEF Held, Absent
  <2>2. Potential(k) = 0 * Second + Burst
    BY <1>2, <2>1 DEF Potential, Burst
  <2>3. Budget(k) = Burst * (1 + 0 + 0) + Gain * (0 - 0)
    BY <1>2 DEF Budget
  <2>4. Potential(k) = Burst /\ Budget(k) = Burst
    BY <1>0, <2>2, <2>3, ConfigIs
  <2> QED
    BY <1>0, <1>2, <2>4, ConfigIs
<1>4. ExpiryInv
  <2> SUFFICES ASSUME NEW k \in Clients
               PROVE  /\ ~(expired[k] > 0)
                      /\ expired[k] * TTL + Age(k) <= TTL + (travel - from[k])
    BY DEF ExpiryInv
  <2>1. Age(k) = 0
    BY <1>2 DEF Age, Absent
  <2> QED
    BY <1>0, <1>2, <2>1, ConfigIs
<1>5. LevelInv /\ SavedInv
  BY <1>2 DEF LevelInv, SavedInv, Absent, Never
<1> QED
  BY <1>1, <1>3, <1>4, <1>5 DEF IInv

-----------------------------------------------------------------------------
(* The clock moves: the budget grows with what buckets may hold.           *)
LEMMA ClockIInv ==
    ASSUME IInv, Tick \/ \E t \in 0 .. MaxTravel : SetClock(t)
    PROVE  IInv'
<1>0. TypeOK /\ cfg \in Configs
  BY DEF IInv, TypeOK
<1>1. PICK d \in Nat : now' <= now + d /\ travel' = travel + d /\ now' \in Nat
  <2>0. now \in Nat /\ travel \in Nat
    BY <1>0 DEF TypeOK
  <2>1. CASE Tick
    BY <2>0, <2>1, 1 \in Nat DEF Tick
  <2>2. ASSUME NEW t \in 0 .. MaxTravel, SetClock(t), t > now
        PROVE  \E d \in Nat : now' <= now + d /\ travel' = travel + d /\ now' \in Nat
    <3> t - now \in Nat /\ t \in Nat
      BY <2>0, <2>2, LimitsAssumption
    <3> WITNESS t - now \in Nat
    <3> QED
      BY <2>0, <2>2 DEF SetClock
  <2>3. ASSUME NEW t \in 0 .. MaxTravel, SetClock(t), ~(t > now)
        PROVE  \E d \in Nat : now' <= now + d /\ travel' = travel + d /\ now' \in Nat
    <3> WITNESS 0 \in Nat
    <3> QED
      BY <2>0, <2>3, LimitsAssumption DEF SetClock
  <2> QED
    BY <2>1, <2>2, <2>3
<1>2. UNCHANGED <<cfg, bucket, from, admitted, expired, wiped, since>>
  BY DEF Tick, SetClock, windowVars
<1>3. Full' = Full /\ Rate' = Rate /\ Shared' = Shared /\ Gain' = Gain /\ Burst' = Burst
  BY <1>2, SameConfig
<1>4. TypeOK'
  <2>1. travel' \in 0 .. MaxTravel /\ clockSet' \in BOOLEAN
    <3>1. CASE Tick
      BY <1>0, <3>1, LimitsAssumption DEF Tick, TypeOK
    <3>2. ASSUME NEW t \in 0 .. MaxTravel, SetClock(t)
          PROVE  travel' \in 0 .. MaxTravel /\ clockSet' \in BOOLEAN
      BY <1>0, <3>2, LimitsAssumption DEF SetClock, TypeOK
    <3> QED
      BY <3>1, <3>2
  <2> QED
    BY <1>0, <1>1, <1>2, <1>3, <2>1 DEF TypeOK
<1>5. ASSUME NEW k \in Clients
      PROVE  /\ AtLeast0(Held(k)') <= AtLeast0(Held(k)) + d * Gain
             /\ Age(k)' <= Age(k) + d
             /\ Held(k)' \in Int /\ Age(k)' \in Int /\ d * Gain \in Nat
  <2> DEFINE t == bucket[k].tokens
             e == Elapsed(k)
             f == Elapsed(k)'
  <2>1. t \in Int /\ e \in Int /\ f \in Int /\ f <= e + d /\ now \in Nat
    BY <1>0, <1>1, <1>2, BucketIs DEF Elapsed, TypeOK
  <2>2. /\ Age(k) = IF bucket[k].last = Never \/ e < 0 THEN 0 ELSE IF e > TTL THEN TTL ELSE e
        /\ Age(k)' = IF bucket[k].last = Never \/ f < 0 THEN 0 ELSE IF f > TTL THEN TTL ELSE f
        /\ Held(k) = IF bucket[k].last = Never THEN Full ELSE Credit(t, e)
    BY <1>2 DEF Age, Held
  <2>3. Held(k)' = IF bucket[k].last = Never THEN Full ELSE Credit(t, f)
    BY <1>2, <1>3 DEF Held, Credit, Capped
  <2> HIDE DEF t, e, f
  <2>4. Age(k)' \in Int /\ Age(k)' <= Age(k) + d
    BY <1>0, <2>1, <2>2, ConfigIs
  <2>5. /\ Credit(t, f) <= Credit(t, e) + d * Gain
        /\ Credit(t, e) \in Int /\ d * Gain \in Nat
    BY <1>0, <2>1, CreditBounds
  <2>6. Credit(t, f) \in Int
    BY <1>0, <2>1, 0 \in Nat, f <= f + 0, CreditBounds
  <2>7. Held(k)' \in Int /\ Held(k) \in Int /\ Held(k)' <= Held(k) + d * Gain
    BY <1>0, <2>2, <2>3, <2>5, <2>6, ConfigIs
  <2> QED
    BY <2>4, <2>5, <2>7 DEF AtLeast0
<1>6. BoundInv'
  <2> SUFFICES ASSUME NEW k \in Clients
               PROVE  from[k] <= travel' /\ Potential(k)' <= Budget(k)'
    BY <1>2 DEF BoundInv
  <2>1. /\ admitted[k] * Second \in Nat
        /\ Burst * (1 + expired[k] + wiped[k]) \in Nat
        /\ from[k] \in Nat /\ travel \in Nat
        /\ Gain * (travel - from[k]) \in Int
    BY <1>0, NumberTypes
  <2>2. Gain * (travel' - from[k]) = Gain * (travel - from[k]) + d * Gain
    <3>1. ((travel - from[k]) + d) * Gain = (travel - from[k]) * Gain + d * Gain
      BY <1>0, <2>1, ConfigIs, Distribute
    <3>2. travel' - from[k] = (travel - from[k]) + d
      BY <1>1, <2>1
    <3> QED
      BY <1>0, <2>1, <3>1, <3>2, ConfigIs
  <2>3. from[k] <= travel /\ Potential(k) <= Budget(k)
    BY DEF IInv, BoundInv
  <2>4. Potential(k)' = admitted[k] * Second + AtLeast0(Held(k)')
    BY <1>2 DEF Potential, AtLeast0
  <2>5. Budget(k)' = Burst * (1 + expired[k] + wiped[k]) + Gain * (travel' - from[k])
    BY <1>2, <1>3 DEF Budget
  <2>6. AtLeast0(Held(k)') \in Int /\ AtLeast0(Held(k)) \in Int
    <3>1. Held(k)' \in Int /\ Held(k) \in Int
      BY <1>0, <1>5, BucketIs
    <3> QED
      BY <3>1 DEF AtLeast0
  <2> QED
    BY <1>1, <1>5, <2>1, <2>2, <2>3, <2>4, <2>5, <2>6 DEF Potential, Budget
<1>7. ExpiryInv'
  <2> SUFFICES ASSUME NEW k \in Clients
               PROVE  /\ expired[k] > 0 => Shared /\ Rate * TTL < Full
                      /\ expired[k] * TTL + Age(k)' <= TTL + (travel' - from[k])
    BY <1>2, <1>3 DEF ExpiryInv
  <2>1. /\ expired[k] > 0 => Shared /\ Rate * TTL < Full
        /\ expired[k] * TTL + Age(k) <= TTL + (travel - from[k])
    BY DEF IInv, ExpiryInv
  <2>2. expired[k] * TTL \in Nat /\ from[k] \in Nat /\ travel \in Nat
    BY <1>0, NumberTypes
  <2>3. Age(k) \in Int /\ Age(k)' \in Int
    BY <1>0, <1>5, BucketIs, ConfigIs
  <2> QED
    BY <1>0, <1>1, <1>5, <2>1, <2>2, <2>3, ConfigIs
<1>8. LevelInv'
  BY <1>2, <1>3 DEF IInv, LevelInv
<1>9. SavedInv'
  <2>1. clockSet' \/ (clockSet' = clockSet /\ now' >= now)
    BY <1>0 DEF Tick, SetClock, TypeOK
  <2>2. \A k \in Clients : bucket[k].last \in Int
    BY <1>0, BucketIs
  <2>3. now \in Int /\ now' \in Int
    BY <1>0, <1>1 DEF TypeOK
  <2> QED
    BY <1>2, <1>3, <2>1, <2>2, <2>3 DEF IInv, SavedInv
<1> QED
  BY <1>4, <1>6, <1>7, <1>8, <1>9 DEF IInv

-----------------------------------------------------------------------------
(* The bounds of one client survive when its part of the state does.       *)
LEMMA ClientFrame ==
    ASSUME IInv, NEW c \in Clients, UNCHANGED <<cfg, now, travel>>,
           bucket'[c] = bucket[c], from'[c] = from[c], admitted'[c] = admitted[c],
           expired'[c] = expired[c], wiped'[c] = wiped[c]
    PROVE  /\ from'[c] <= travel' /\ Potential(c)' <= Budget(c)'
           /\ expired'[c] > 0 => Shared' /\ Rate' * TTL < Full'
           /\ expired'[c] * TTL + Age(c)' <= TTL + (travel' - from'[c])
<1>1. /\ Full' = Full /\ Rate' = Rate /\ Shared' = Shared /\ Gain' = Gain /\ Burst' = Burst
      /\ Held(c)' = Held(c) /\ Age(c)' = Age(c)
  BY SameConfig, Same
<1>2. Potential(c)' = Potential(c) /\ Budget(c)' = Budget(c)
  BY <1>1 DEF Potential, Budget, AtLeast0
<1> QED
  BY <1>1, <1>2 DEF IInv, BoundInv, ExpiryInv

(* What a decision leaves in the bucket.                                   *)
LEMMA DecidedIs ==
    ASSUME IInv, NEW k \in Clients, bucket'[k] = Decided(k), UNCHANGED <<cfg, now>>
    PROVE  /\ Decided(k) \in [tokens : Int, last : Nat]
           /\ Decided(k).last = now
           /\ Enough(Refilled(k)) => Decided(k).tokens = Refilled(k) - Second
           /\ ~Enough(Refilled(k)) => Decided(k).tokens = Refilled(k)
           /\ Decided(k).tokens <= Full
           /\ Rate >= 0 /\ Full > 0 => Decided(k).tokens >= 0
           /\ Held(k)' = Decided(k).tokens
           /\ Age(k)' = 0
<1>0. TypeOK /\ cfg \in Configs /\ now \in Nat
  BY DEF IInv, TypeOK
<1>1. /\ Refilled(k) \in Int /\ Refilled(k) <= Full
      /\ Full \in Int /\ Second \in Nat /\ Second > 0 /\ Rate \in Int /\ TTL \in Nat
  BY <1>0, BucketIs, ConfigIs
<1>2. /\ Decided(k) \in [tokens : Int, last : Nat]
      /\ Decided(k).last = now
      /\ Enough(Refilled(k)) => Decided(k).tokens = Refilled(k) - Second
      /\ ~Enough(Refilled(k)) => Decided(k).tokens = Refilled(k)
      /\ Decided(k).tokens <= Full
  BY <1>0, <1>1 DEF Decided, Enough
<1>3. ASSUME Rate >= 0, Full > 0 PROVE Decided(k).tokens >= 0
  <2>1. Refilled(k) >= 0
    <3> DEFINE t == bucket[k].tokens
               e == Elapsed(k)
               r == IF e > 0 THEN e * Rate ELSE 0
    <3>1. t \in Int /\ t >= 0 /\ e \in Int
      BY <1>0, <1>3, BucketIs DEF IInv, LevelInv
    <3>2. r \in Int /\ r >= 0
      <4>1. e > 0 => 0 * Rate <= e * Rate
        BY <1>1, <1>3, <3>1, MulMono
      <4>2. 0 * Rate = 0 /\ e * Rate \in Int
        BY <1>1, <3>1
      <4> QED
        BY <4>1, <4>2
    <3>3. Refilled(k) = IF NoBucket(k) THEN Full ELSE IF t + r > Full THEN Full ELSE t + r
      BY DEF Refilled, Refill, Capped
    <3> HIDE DEF t, e, r
    <3> QED
      BY <1>1, <1>3, <3>1, <3>2, <3>3
  <2> QED
    BY <1>1, <1>2, <2>1 DEF Enough
<1>4. bucket'[k].last = now /\ bucket'[k].last # Never /\ Elapsed(k)' = 0
  BY <1>0, <1>2 DEF Elapsed, Never
<1>5. Age(k)' = 0
  BY <1>1, <1>4 DEF Age
<1>6. Held(k)' = Decided(k).tokens
  <2> DEFINE n == Decided(k).tokens
  <2>1. n \in Int /\ n <= Full
    BY <1>2
  <2>2. Held(k)' = Capped(n + 0 * Gain)
    BY <1>4, SameConfig DEF Held, Credit, Capped, AtLeast0
  <2> HIDE DEF n
  <2>3. n + 0 * Gain = n
    BY <1>0, <2>1, ConfigIs
  <2> QED
    BY <1>1, <2>1, <2>2, <2>3 DEF Capped, n
<1> QED
  BY <1>2, <1>3, <1>5, <1>6

(* An expired bucket that was not full takes longer to fill than its TTL.  *)
LEMMA ExpiredShort ==
    ASSUME IInv, NEW k \in Clients, NoBucket(k), GainsByLoss(k)
    PROVE  Shared /\ Rate * TTL < Full /\ Age(k) = TTL
<1>0. /\ TypeOK /\ cfg \in Configs
      /\ Rate \in Int /\ Full \in Int /\ TTL \in Nat /\ TTL > 0
  BY ConfigIs DEF IInv, TypeOK
<1> DEFINE t == bucket[k].tokens
           e == Elapsed(k)
           r == e * Rate
<1>1. /\ t \in Int /\ e \in Int /\ e >= TTL /\ Shared /\ Full > 0
      /\ bucket[k].last # Never
  BY <1>0, BucketIs DEF NoBucket, GainsByLoss
<1>2. Age(k) = TTL
  BY <1>0, <1>1 DEF Age
<1>3. (IF t + r > Full THEN Full ELSE t + r) < Full /\ r \in Int
  BY <1>0, <1>1 DEF GainsByLoss, Refill, Capped
<1>4. ASSUME Rate * TTL >= Full PROVE FALSE
  <2>1. Rate > 0
    <3>1. Rate <= 0 => Rate * TTL <= 0 * TTL
      BY <1>0, MulMono
    <3> QED
      BY <1>0, <1>1, <1>4, <3>1
  <2>2. TTL * Rate <= r
    BY <1>0, <1>1, <2>1, MulMono
  <2>3. t >= 0
    BY <1>0, <1>1, <2>1 DEF IInv, LevelInv
  <2>4. TTL * Rate = Rate * TTL /\ Rate * TTL \in Int
    BY <1>0
  <2> HIDE DEF t, e, r
  <2> QED
    BY <1>0, <1>1, <1>3, <1>4, <2>2, <2>3, <2>4
<1>5. Rate * TTL \in Int
  BY <1>0
<1> QED
  BY <1>0, <1>1, <1>2, <1>4, <1>5

(* A lost bucket adds a burst to the budget.                               *)
LEMMA MoreBudget ==
    ASSUME TypeOK, NEW k \in Clients, UNCHANGED <<cfg, travel>>, from'[k] = from[k],
           \/ expired'[k] = expired[k] + 1 /\ wiped'[k] = wiped[k]
           \/ expired'[k] = expired[k] /\ wiped'[k] = wiped[k] + 1
    PROVE  Budget(k)' = Budget(k) + Burst
<1> DEFINE m == 1 + expired[k] + wiped[k]
           g == Gain * (travel - from[k])
<1>1. /\ m \in Int /\ Burst \in Int /\ g \in Int /\ Burst * m \in Int
      /\ expired[k] \in Int /\ wiped[k] \in Int
  BY NumberTypes, ConfigIs DEF TypeOK
<1>2. 1 + expired'[k] + wiped'[k] = m + 1
  BY <1>1
<1>3. Budget(k)' = Burst * (m + 1) + g
  BY <1>2, SameConfig DEF Budget
<1>4. Budget(k) = Burst * m + g
  BY DEF Budget
<1> HIDE DEF m, g
<1>5. Burst * (m + 1) = Burst * m + Burst
  BY <1>1, OneMore
<1> QED
  BY <1>1, <1>3, <1>4, <1>5

(* One run of the limiter keeps every part of the invariant but SavedInv.  *)
LEMMA DecideBounds ==
    ASSUME IInv, NEW k \in Clients, Decide(k),
           UNCHANGED <<cfg, now, travel, from, wiped>>,
           \/ UNCHANGED admitted
           \/ /\ Enough(Refilled(k))
              /\ admitted' = [admitted EXCEPT ![k] = @ + 1]
    PROVE  /\ BoundInv' /\ ExpiryInv' /\ LevelInv'
           /\ bucket' \in [Clients -> [tokens : Int, last : Nat \cup {Never}]]
           /\ \A c \in Clients : bucket'[c].tokens <= AtLeast0(Full)
           /\ expired' \in [Clients -> Nat] /\ admitted' \in [Clients -> Nat]
<1>0. TypeOK /\ cfg \in Configs
  BY DEF IInv, TypeOK
<1>1. bucket'[k] = Decided(k) /\ \A c \in Clients : c # k => bucket'[c] = bucket[c]
  BY <1>0 DEF Decide, TypeOK
<1>2. /\ Decided(k) \in [tokens : Int, last : Nat]
      /\ Decided(k).last = now
      /\ Enough(Refilled(k)) => Decided(k).tokens = Refilled(k) - Second
      /\ ~Enough(Refilled(k)) => Decided(k).tokens = Refilled(k)
      /\ Decided(k).tokens <= Full
      /\ Rate >= 0 /\ Full > 0 => Decided(k).tokens >= 0
      /\ Held(k)' = Decided(k).tokens
      /\ Age(k)' = 0
  BY <1>1, DecidedIs
<1>3. bucket' \in [Clients -> [tokens : Int, last : Nat \cup {Never}]]
  <2>1. Decided(k) \in [tokens : Int, last : Nat \cup {Never}]
    BY <1>2
  <2> QED
    BY <1>0, <2>1 DEF Decide, TypeOK
<1>4. ASSUME NEW c \in Clients PROVE bucket'[c].tokens <= AtLeast0(Full)
  <2>1. CASE c = k
    BY <1>0, <1>1, <1>2, <2>1, ConfigIs DEF Burst
  <2>2. CASE c # k
    BY <1>0, <1>1, <2>2 DEF TypeOK
  <2> QED
    BY <2>1, <2>2
<1>5. expired' \in [Clients -> Nat] /\ admitted' \in [Clients -> Nat]
  BY <1>0 DEF Decide, TypeOK
<1>6. Full' = Full /\ Rate' = Rate /\ Shared' = Shared /\ Gain' = Gain /\ Burst' = Burst
  BY SameConfig
<1>7. LevelInv'
  BY <1>1, <1>2, <1>6 DEF LevelInv, IInv
<1>8. ASSUME NEW c \in Clients, c # k
      PROVE  /\ from'[c] <= travel' /\ Potential(c)' <= Budget(c)'
             /\ expired'[c] > 0 => Shared' /\ Rate' * TTL < Full'
             /\ expired'[c] * TTL + Age(c)' <= TTL + (travel' - from'[c])
  <2>1. expired'[c] = expired[c] /\ admitted'[c] = admitted[c]
    BY <1>0, <1>8 DEF Decide, TypeOK
  <2> QED
    BY <1>1, <1>8, <2>1, ClientFrame
<1> DEFINE a == admitted[k] * Second
           g == Gain * (travel - from[k])
           b == Burst * (1 + expired[k] + wiped[k])
           n == Decided(k).tokens
<1>9. /\ a \in Int /\ g \in Int /\ b \in Int
      /\ admitted[k] \in Nat /\ expired[k] \in Nat /\ wiped[k] \in Nat
      /\ expired[k] * TTL \in Nat /\ from[k] \in Int /\ travel \in Int
      /\ Refilled(k) \in Int /\ Refilled(k) <= Full /\ Held(k) \in Int
      /\ Burst \in Nat /\ Burst >= Full /\ Full \in Int
      /\ Second \in Nat /\ Second > 0 /\ TTL \in Nat /\ n \in Int
  BY <1>0, <1>2, NumberTypes, BucketIs, ConfigIs
<1>10. /\ from[k] <= travel
       /\ a + AtLeast0(Held(k)) <= b + g
       /\ expired[k] > 0 => Shared /\ Rate * TTL < Full
       /\ expired[k] * TTL + Age(k) <= TTL + (travel - from[k])
  BY DEF IInv, BoundInv, ExpiryInv, Potential, Budget
<1>11. PICK y \in {a, a + Second} :
          /\ admitted'[k] * Second = y
          /\ y = a + Second => Enough(Refilled(k))
  <2>1. CASE UNCHANGED admitted
    BY <1>9, <2>1
  <2>2. CASE Enough(Refilled(k)) /\ admitted' = [admitted EXCEPT ![k] = @ + 1]
    <3>1. admitted'[k] = admitted[k] + 1
      BY <1>0, <2>2 DEF TypeOK
    <3>2. (admitted[k] + 1) * Second = a + 1 * Second
      BY <1>9, Distribute
    <3> QED
      BY <1>9, <2>2, <3>1, <3>2
  <2> QED
    BY <2>1, <2>2
<1>12. Potential(k)' = y + AtLeast0(n)
  BY <1>2, <1>11 DEF Potential, AtLeast0
<1>13. y + AtLeast0(n) <= a + AtLeast0(Refilled(k))
  <2> HIDE DEF a, n
  <2>1. /\ Enough(Refilled(k)) => Refilled(k) >= Second /\ n = Refilled(k) - Second
        /\ ~Enough(Refilled(k)) => n = Refilled(k)
    BY <1>2 DEF Enough, n
  <2> QED
    BY <1>9, <1>11, <2>1 DEF AtLeast0
<1>14. CASE NoBucket(k) /\ GainsByLoss(k)
  <2>1. expired'[k] = expired[k] + 1
    BY <1>0, <1>14 DEF Decide, TypeOK
  <2>2. Budget(k)' = b + Burst + g
    <3>1. Budget(k)' = Budget(k) + Burst
      BY <1>0, <2>1, MoreBudget
    <3>2. Budget(k) = b + g
      BY DEF Budget
    <3> HIDE DEF b, g
    <3> QED
      BY <1>9, <3>1, <3>2
  <2>3. Potential(k)' <= Budget(k)'
    <3>1. AtLeast0(Refilled(k)) <= Burst /\ AtLeast0(Held(k)) >= 0
      BY <1>9 DEF AtLeast0
    <3>2. AtLeast0(n) \in Int /\ AtLeast0(Refilled(k)) \in Int /\ AtLeast0(Held(k)) \in Int
      BY <1>9 DEF AtLeast0
    <3> HIDE DEF a, b, g, n
    <3> QED
      BY <1>9, <1>10, <1>11, <1>12, <1>13, <2>2, <3>1, <3>2
  <2>4. Shared /\ Rate * TTL < Full /\ Age(k) = TTL
    BY <1>14, ExpiredShort
  <2>5. (expired[k] + 1) * TTL = expired[k] * TTL + 1 * TTL
    BY <1>9, Distribute
  <2>6. expired'[k] * TTL + Age(k)' <= TTL + (travel' - from'[k])
    BY <1>2, <1>9, <1>10, <2>1, <2>4, <2>5
  <2> QED
    BY <1>3, <1>4, <1>5, <1>6, <1>7, <1>8, <1>10, <2>3, <2>4, <2>6 DEF BoundInv, ExpiryInv
<1>15. CASE ~(NoBucket(k) /\ GainsByLoss(k))
  <2>1. expired' = expired
    BY <1>15 DEF Decide
  <2>2. Budget(k)' = b + g
    BY <1>6, <2>1 DEF Budget
  <2>3. Potential(k)' <= Budget(k)'
    <3>1. Refilled(k) <= Held(k) \/ Refilled(k) <= 0
      BY <1>0, <1>15, FoundIs
    <3>2. AtLeast0(Refilled(k)) <= AtLeast0(Held(k))
      BY <1>9, <3>1 DEF AtLeast0
    <3>3. AtLeast0(n) \in Int /\ AtLeast0(Refilled(k)) \in Int /\ AtLeast0(Held(k)) \in Int
      BY <1>9 DEF AtLeast0
    <3> HIDE DEF a, b, g, n
    <3> QED
      BY <1>9, <1>10, <1>11, <1>12, <1>13, <2>2, <3>2, <3>3
  <2>4. Age(k) \in Nat
    BY <1>0, BucketIs, ConfigIs
  <2>5. expired'[k] * TTL + Age(k)' <= TTL + (travel' - from'[k])
    <3>1. expired'[k] * TTL = expired[k] * TTL /\ Age(k)' = 0 /\ travel' - from'[k] = travel - from[k]
      BY <1>2, <2>1
    <3>2. travel - from[k] \in Int
      BY <1>9
    <3> QED
      BY <1>9, <1>10, <2>4, <3>1, <3>2
  <2> QED
    BY <1>3, <1>4, <1>5, <1>6, <1>7, <1>8, <1>10, <2>1, <2>3, <2>5 DEF BoundInv, ExpiryInv
<1> QED
  BY <1>14, <1>15

(* A refused request saves up what the time since the last one was worth.  *)
LEMMA RefusalSaved ==
    ASSUME IInv, NEW k \in Clients, Decide(k), NoteRefusal(k),
           UNCHANGED <<cfg, now, clockSet>>
    PROVE  SavedInv' /\ since' \in [Clients -> Nat \cup {Never}]
<1>0. TypeOK /\ cfg \in Configs /\ now \in Nat
  BY DEF IInv, TypeOK
<1>1. since' \in [Clients -> Nat \cup {Never}]
  BY <1>0 DEF NoteRefusal, TypeOK
<1>2. SUFFICES ASSUME ~clockSet, Rate >= 0, Full > 0, NEW c \in Clients
               PROVE  /\ bucket'[c].last <= now
                      /\ since'[c] # Never =>
                           /\ bucket'[c].tokens < Second
                           /\ (bucket'[c].last - since'[c]) * Rate <= bucket'[c].tokens
  BY <1>1, SameConfig DEF SavedInv
<1>3. CASE c # k
  BY <1>0, <1>2, <1>3 DEF Decide, NoteRefusal, SavedInv, TypeOK, IInv
<1>4. CASE c = k
  <2>1. bucket'[c] = Decided(k)
    BY <1>0, <1>4 DEF Decide, TypeOK
  <2>2. /\ Decided(k).last = now
        /\ ~Enough(Refilled(k)) => Decided(k).tokens = Refilled(k)
    BY <1>4, <2>1, DecidedIs
  <2>3. CASE Enough(Refilled(k))
    <3>1. since'[c] = Never
      BY <1>0, <1>4, <2>3 DEF NoteRefusal, TypeOK
    <3> QED
      BY <1>0, <2>1, <2>2, <3>1
  <2>4. CASE ~Enough(Refilled(k))
    <3>0. /\ Refilled(k) \in Int /\ Full \in Int /\ Full >= Second
          /\ Second \in Nat /\ Rate \in Nat
      BY <1>0, <1>2, BucketIs, ConfigIs
    <3>1. Refilled(k) < Second
      BY <2>4, <3>0 DEF Enough
    <3>2. ~NoBucket(k) /\ bucket[k].last \in Nat
      BY <1>0, <3>0, <3>1, BucketIs DEF Refilled, NoBucket
    <3>3. CASE since[k] = Never
      <4>1. since'[c] = now
        BY <1>0, <1>4, <2>4, <3>3 DEF NoteRefusal, TypeOK
      <4>2. (now - now) * Rate = 0
        BY <1>0, <3>0
      <4>3. Refilled(k) >= 0
        <5>1. Decided(k).tokens >= 0
          BY <1>2, <1>4, <2>1, DecidedIs
        <5> QED
          BY <2>2, <2>4, <5>1
      <4> QED
        BY <1>0, <2>1, <2>2, <2>4, <3>0, <3>1, <4>1, <4>2, <4>3
    <3>4. CASE since[k] # Never
      <4>1. since'[c] = since[k] /\ since[k] \in Nat
        BY <1>0, <1>4, <2>4, <3>4 DEF NoteRefusal, TypeOK
      <4>2. /\ bucket[k].last <= now
            /\ (bucket[k].last - since[k]) * Rate <= bucket[k].tokens
            /\ bucket[k].tokens \in Int
        BY <1>0, <1>2, <3>4, BucketIs DEF SavedInv, IInv
      <4> DEFINE x == (bucket[k].last - since[k]) * Rate
                 y == Elapsed(k) * Rate
      <4>3. (now - since[k]) * Rate = x + y /\ x \in Int /\ y \in Int
        <5>1. /\ bucket[k].last - since[k] \in Int /\ Elapsed(k) \in Int
              /\ now - since[k] = (bucket[k].last - since[k]) + Elapsed(k)
          BY <1>0, <3>2, <4>1 DEF Elapsed
        <5> QED
          BY <3>0, <5>1, Distribute
      <4>4. Elapsed(k) <= 0 => y = 0
        BY <1>0, <3>0, <3>2, <4>2 DEF Elapsed
      <4>5. Refilled(k) = bucket[k].tokens + (IF Elapsed(k) > 0 THEN y ELSE 0)
        <5>1. Refilled(k) = Capped(bucket[k].tokens + (IF Elapsed(k) > 0 THEN y ELSE 0))
          BY <3>2 DEF Refilled, Refill
        <5> QED
          BY <3>0, <3>1, <5>1 DEF Capped
      <4>6. Elapsed(k) \in Int
        BY <1>0, <3>2 DEF Elapsed
      <4> HIDE DEF x, y
      <4>7. x + y <= Refilled(k)
        BY <4>2, <4>3, <4>4, <4>5, <4>6 DEF x
      <4> QED
        BY <1>0, <2>1, <2>2, <2>4, <3>0, <3>1, <4>1, <4>3, <4>7
    <3> QED
      BY <3>3, <3>4
  <2> QED
    BY <2>3, <2>4
<1> QED
  BY <1>3, <1>4

-----------------------------------------------------------------------------
(* Allow and Resend.                                                       *)
LEMMA AllowIInv ==
    ASSUME IInv, NEW k \in Clients, Allow(k) \/ Resend(k)
    PROVE  IInv'
<1>1. /\ Decide(k) /\ NoteRefusal(k)
      /\ UNCHANGED <<cfg, now, travel, clockSet, from, wiped>>
      /\ \/ UNCHANGED admitted
         \/ /\ Enough(Refilled(k))
            /\ admitted' = [admitted EXCEPT ![k] = @ + 1]
  BY DEF Allow, Resend, clockVars
<1>2. /\ BoundInv' /\ ExpiryInv' /\ LevelInv'
      /\ bucket' \in [Clients -> [tokens : Int, last : Nat \cup {Never}]]
      /\ \A c \in Clients : bucket'[c].tokens <= AtLeast0(Full)
      /\ expired' \in [Clients -> Nat] /\ admitted' \in [Clients -> Nat]
  BY <1>1, DecideBounds
<1>3. SavedInv' /\ since' \in [Clients -> Nat \cup {Never}]
  BY <1>1, RefusalSaved
<1>4. TypeOK'
  BY <1>1, <1>2, <1>3 DEF TypeOK, IInv, AtLeast0, Full
<1> QED
  BY <1>2, <1>3, <1>4 DEF IInv

(* FailOpen.                                                               *)
LEMMA FailOpenIInv ==
    ASSUME IInv, NEW k \in Clients, FailOpen(k)
    PROVE  IInv'
<1>0. /\ since' = [since EXCEPT ![k] = Never]
      /\ UNCHANGED <<cfg, now, travel, clockSet, from, admitted, wiped>>
      /\ Decide(k) \/ UNCHANGED <<bucket, expired>>
      /\ TypeOK /\ now \in Nat
  BY DEF FailOpen, clockVars, IInv, TypeOK
<1>1. since' \in [Clients -> Nat \cup {Never}]
  BY <1>0 DEF TypeOK
<1>2. /\ BoundInv' /\ ExpiryInv' /\ LevelInv'
      /\ bucket' \in [Clients -> [tokens : Int, last : Nat \cup {Never}]]
      /\ \A c \in Clients : bucket'[c].tokens <= AtLeast0(Full)
      /\ expired' \in [Clients -> Nat]
  <2>1. CASE Decide(k)
    BY <1>0, <2>1, DecideBounds
  <2>2. CASE UNCHANGED <<bucket, expired>>
    <3>1. BoundInv' /\ ExpiryInv'
      BY <1>0, <2>2, ClientFrame DEF BoundInv, ExpiryInv
    <3>2. LevelInv'
      BY <1>0, <2>2, SameConfig DEF IInv, LevelInv
    <3> QED
      BY <1>0, <2>2, <3>1, <3>2 DEF TypeOK
  <2> QED
    BY <1>0, <2>1, <2>2
<1>3. SavedInv'
  <2>1. since'[k] = Never /\ \A c \in Clients : c # k => since'[c] = since[c]
    BY <1>0 DEF TypeOK
  <2>2. bucket'[k].last = now \/ bucket' = bucket
    BY <1>0 DEF Decide, Decided, TypeOK
  <2>3. \A c \in Clients : c # k => bucket'[c] = bucket[c]
    BY <1>0 DEF Decide, TypeOK
  <2> QED
    BY <1>0, <2>1, <2>2, <2>3, SameConfig DEF SavedInv, IInv
<1>4. TypeOK'
  BY <1>0, <1>1, <1>2 DEF TypeOK, AtLeast0, Full
<1> QED
  BY <1>2, <1>3, <1>4 DEF IInv

(* A bucket is lost, with what the window is charged for it.               *)
LEMMA LossIInv ==
    ASSUME IInv, NEW k \in Clients,
           bucket' = [bucket EXCEPT ![k] = Absent],
           UNCHANGED <<cfg, now, travel, clockSet, from, admitted, since>>,
           expired' \in [Clients -> Nat], wiped' \in [Clients -> 0 .. MaxWipes],
           \A c \in Clients : c # k => expired'[c] = expired[c] /\ wiped'[c] = wiped[c],
           \/ /\ expired'[k] = expired[k] + 1 /\ wiped'[k] = wiped[k]
              /\ NoBucket(k) /\ GainsByLoss(k)
           \/ expired'[k] = expired[k] /\ wiped'[k] = wiped[k] + 1
           \/ /\ expired'[k] = expired[k] /\ wiped'[k] = wiped[k]
              /\ Burst <= AtLeast0(Held(k))
    PROVE  IInv'
<1>0. TypeOK /\ cfg \in Configs
  BY DEF IInv, TypeOK
<1>1. bucket'[k] = Absent /\ \A c \in Clients : c # k => bucket'[c] = bucket[c]
  BY <1>0 DEF TypeOK
<1>2. Full' = Full /\ Rate' = Rate /\ Shared' = Shared /\ Gain' = Gain /\ Burst' = Burst
  BY SameConfig
<1>3. TypeOK'
  <2>1. Absent \in [tokens : Int, last : Nat \cup {Never}] /\ Absent.tokens <= AtLeast0(Full)
    BY <1>0, ConfigIs DEF Absent, Burst
  <2>2. bucket' \in [Clients -> [tokens : Int, last : Nat \cup {Never}]]
    BY <1>0, <2>1 DEF TypeOK
  <2>3. \A c \in Clients : bucket'[c].tokens <= AtLeast0(Full)
    BY <1>0, <1>1, <2>1 DEF TypeOK
  <2> QED
    BY <1>0, <2>2, <2>3 DEF TypeOK, AtLeast0, Full
<1>4. LevelInv'
  BY <1>1, <1>2 DEF LevelInv, IInv, Absent
<1>5. SavedInv'
  <2> SUFFICES ASSUME ~clockSet, Rate >= 0, Full > 0, NEW c \in Clients
               PROVE  /\ bucket'[c].last <= now
                      /\ since[c] # Never =>
                           /\ bucket'[c].tokens < Second
                           /\ (bucket'[c].last - since[c]) * Rate <= bucket'[c].tokens
    BY <1>2 DEF SavedInv
  <2>1. CASE c # k
    BY <1>1, <2>1 DEF SavedInv, IInv
  <2>2. CASE c = k
    <3>1. bucket'[c].tokens = 0 /\ bucket'[c].last = -1
      BY <1>1, <2>2 DEF Absent, Never
    <3>2. now \in Nat /\ (since[c] # Never => since[c] \in Nat) /\ Rate \in Nat
      BY <1>0, ConfigIs DEF TypeOK
    <3>3. since[c] # Never => ((-1) - since[c]) * Rate <= 0 * Rate
      BY <3>2, MulMono
    <3> QED
      BY <1>0, <3>1, <3>2, <3>3, ConfigIs
  <2> QED
    BY <2>1, <2>2
<1>6. ASSUME NEW c \in Clients, c # k
      PROVE  /\ from'[c] <= travel' /\ Potential(c)' <= Budget(c)'
             /\ expired'[c] > 0 => Shared' /\ Rate' * TTL < Full'
             /\ expired'[c] * TTL + Age(c)' <= TTL + (travel' - from'[c])
  BY <1>1, <1>6, ClientFrame
<1>7. Held(k)' = Full /\ Age(k)' = 0
  BY <1>0, <1>1, Missing
<1>8. /\ from[k] <= travel /\ Potential(k) <= Budget(k)
      /\ expired[k] > 0 => Shared /\ Rate * TTL < Full
      /\ expired[k] * TTL + Age(k) <= TTL + (travel - from[k])
  BY DEF IInv, BoundInv, ExpiryInv
<1> DEFINE a == admitted[k] * Second
<1>9. /\ a \in Int /\ Burst \in Nat /\ Budget(k) \in Int
      /\ expired[k] \in Nat /\ expired[k] * TTL \in Nat /\ wiped[k] \in Nat
      /\ travel - from[k] \in Int
      /\ TTL \in Nat /\ TTL > 0 /\ Age(k) \in Nat
  BY <1>0, NumberTypes, BucketIs, ConfigIs DEF Budget
<1>10. AtLeast0(Held(k)) \in Nat
  BY <1>0, BucketIs, AtLeast0Is
<1>11. Potential(k)' = a + Burst /\ Potential(k) = a + AtLeast0(Held(k))
  BY <1>2, <1>7 DEF Potential, AtLeast0, Burst
<1> HIDE DEF a
<1>12. Potential(k)' <= Budget(k)'
  <2>1. CASE \/ expired'[k] = expired[k] + 1 /\ wiped'[k] = wiped[k]
             \/ expired'[k] = expired[k] /\ wiped'[k] = wiped[k] + 1
    <3>1. Budget(k)' = Budget(k) + Burst
      BY <1>0, <2>1, MoreBudget
    <3> QED
      BY <1>8, <1>9, <1>10, <1>11, <3>1
  <2>2. CASE /\ expired'[k] = expired[k] /\ wiped'[k] = wiped[k]
             /\ Burst <= AtLeast0(Held(k))
    <3>1. Budget(k)' = Budget(k)
      BY <1>2, <2>2 DEF Budget
    <3> QED
      BY <1>8, <1>9, <1>10, <1>11, <2>2, <3>1
  <2> QED
    BY <2>1, <2>2
<1>13. /\ expired'[k] > 0 => Shared' /\ Rate' * TTL < Full'
       /\ expired'[k] * TTL + Age(k)' <= TTL + (travel' - from'[k])
  <2>1. CASE expired'[k] = expired[k]
    BY <1>2, <1>7, <1>8, <1>9, <2>1
  <2>2. CASE expired'[k] = expired[k] + 1 /\ NoBucket(k) /\ GainsByLoss(k)
    <3>1. Shared /\ Rate * TTL < Full /\ Age(k) = TTL
      BY <2>2, ExpiredShort
    <3>2. (expired[k] + 1) * TTL = expired[k] * TTL + 1 * TTL
      BY <1>9, Distribute
    <3> QED
      BY <1>2, <1>7, <1>8, <1>9, <2>2, <3>1, <3>2
  <2> QED
    BY <2>1, <2>2
<1>14. BoundInv' /\ ExpiryInv'
  BY <1>6, <1>8, <1>12, <1>13 DEF BoundInv, ExpiryInv
<1> QED
  BY <1>3, <1>4, <1>5, <1>14 DEF IInv

(* Drop: an expired bucket was full, or the window is charged for it.      *)
LEMMA DropIInv ==
    ASSUME IInv, NEW k \in Clients, Drop(k)
    PROVE  IInv'
<1>0. /\ bucket' = [bucket EXCEPT ![k] = Absent]
      /\ UNCHANGED <<cfg, now, travel, clockSet, from, admitted, wiped, since>>
      /\ NoBucket(k) /\ TypeOK /\ cfg \in Configs
  BY DEF Drop, clockVars, IInv, TypeOK
<1>1. /\ expired' \in [Clients -> Nat] /\ wiped' \in [Clients -> 0 .. MaxWipes]
      /\ \A c \in Clients : c # k => expired'[c] = expired[c] /\ wiped'[c] = wiped[c]
  BY <1>0 DEF Drop, TypeOK
<1>2. CASE GainsByLoss(k)
  <2>1. expired'[k] = expired[k] + 1 /\ wiped'[k] = wiped[k]
    BY <1>0, <1>2 DEF Drop, TypeOK
  <2> QED
    BY <1>0, <1>1, <1>2, <2>1, LossIInv
<1>3. CASE ~GainsByLoss(k)
  <2>1. expired'[k] = expired[k] /\ wiped'[k] = wiped[k]
    BY <1>0, <1>3 DEF Drop
  <2>2. Full <= Held(k) \/ Full <= 0
    BY <1>0, <1>3, FoundIs DEF Refilled
  <2>3. Held(k) \in Int /\ Full \in Int
    BY <1>0, BucketIs, ConfigIs
  <2>4. Burst <= AtLeast0(Held(k))
    BY <2>2, <2>3 DEF Burst, AtLeast0
  <2> QED
    BY <1>0, <1>1, <2>1, <2>4, LossIInv
<1> QED
  BY <1>2, <1>3

(* Wipe.                                                                   *)
LEMMA WipeIInv ==
    ASSUME IInv, NEW k \in Clients, Wipe(k)
    PROVE  IInv'
<1>0. /\ bucket' = [bucket EXCEPT ![k] = Absent]
      /\ UNCHANGED <<cfg, now, travel, clockSet, from, admitted, expired, since>>
      /\ TypeOK
  BY DEF Wipe, clockVars, IInv
<1>1. /\ expired' \in [Clients -> Nat] /\ wiped' \in [Clients -> 0 .. MaxWipes]
      /\ \A c \in Clients : c # k => expired'[c] = expired[c] /\ wiped'[c] = wiped[c]
      /\ expired'[k] = expired[k] /\ wiped'[k] = wiped[k] + 1
  <2>1. wiped[k] + 1 \in 0 .. MaxWipes
    BY <1>0, LimitsAssumption DEF Wipe, TypeOK
  <2> QED
    BY <1>0, <2>1 DEF Wipe, TypeOK
<1> QED
  BY <1>0, <1>1, LossIInv

(* StartWindow.                                                            *)
LEMMA StartWindowIInv ==
    ASSUME IInv, NEW k \in Clients, StartWindow(k)
    PROVE  IInv'
<1>0. /\ UNCHANGED <<cfg, now, travel, clockSet, bucket, since>>
      /\ TypeOK /\ cfg \in Configs
  BY DEF StartWindow, clockVars, IInv, TypeOK
<1>1. TypeOK'
  <2>1. /\ from' \in [Clients -> 0 .. MaxTravel] /\ admitted' \in [Clients -> Nat]
        /\ expired' \in [Clients -> Nat] /\ wiped' \in [Clients -> 0 .. MaxWipes]
    <3>1. 0 \in Nat /\ 0 \in 0 .. MaxWipes
      BY LimitsAssumption
    <3> QED
      BY <1>0, <3>1 DEF StartWindow, TypeOK
  <2> QED
    BY <1>0, <2>1 DEF TypeOK, AtLeast0, Full
<1>2. LevelInv' /\ SavedInv'
  BY <1>0, SameConfig DEF IInv, LevelInv, SavedInv
<1>3. ASSUME NEW c \in Clients, c # k
      PROVE  /\ from'[c] <= travel' /\ Potential(c)' <= Budget(c)'
             /\ expired'[c] > 0 => Shared' /\ Rate' * TTL < Full'
             /\ expired'[c] * TTL + Age(c)' <= TTL + (travel' - from'[c])
  <2>1. /\ from'[c] = from[c] /\ admitted'[c] = admitted[c]
        /\ expired'[c] = expired[c] /\ wiped'[c] = wiped[c]
    BY <1>0, <1>3 DEF StartWindow, TypeOK
  <2> QED
    BY <1>0, <1>3, <2>1, ClientFrame
<1>4. /\ from'[k] = travel /\ admitted'[k] = 0 /\ expired'[k] = 0 /\ wiped'[k] = 0
  BY <1>0 DEF StartWindow, TypeOK
<1>5. Held(k)' = Held(k) /\ Age(k)' = Age(k) /\ Burst' = Burst /\ Gain' = Gain
  BY <1>0, Same, SameConfig
<1>6. /\ Held(k) \in Int /\ Held(k) <= Burst /\ Age(k) \in 0 .. TTL /\ TTL \in Nat
      /\ Burst \in Nat /\ Gain \in Nat /\ Second \in Nat /\ travel \in Nat
  <2>1. Held(k) <= Full /\ Full <= Burst /\ Full \in Int /\ Burst \in Int /\ Held(k) \in Int
    BY <1>0, BucketIs, ConfigIs
  <2> QED
    BY <1>0, <2>1, BucketIs, ConfigIs DEF TypeOK
<1>7. Potential(k)' <= Budget(k)'
  <2>1. Potential(k)' = 0 * Second + AtLeast0(Held(k))
    BY <1>4, <1>5 DEF Potential, AtLeast0
  <2>2. Budget(k)' = Burst * (1 + 0 + 0) + Gain * (travel - travel)
    BY <1>0, <1>4, <1>5 DEF Budget
  <2>3. 0 * Second = 0 /\ Burst * (1 + 0 + 0) = Burst /\ Gain * (travel - travel) = 0
    BY <1>6
  <2>4. AtLeast0(Held(k)) \in Int /\ AtLeast0(Held(k)) <= Burst
    BY <1>6 DEF AtLeast0
  <2> QED
    BY <1>6, <2>1, <2>2, <2>3, <2>4
<1>8. expired'[k] * TTL + Age(k)' <= TTL + (travel' - from'[k])
  BY <1>0, <1>4, <1>5, <1>6
<1>9. from'[k] <= travel' /\ ~(expired'[k] > 0)
  BY <1>0, <1>4, <1>6
<1>10. BoundInv' /\ ExpiryInv'
  BY <1>3, <1>7, <1>8, <1>9 DEF BoundInv, ExpiryInv
<1> QED
  BY <1>1, <1>2, <1>10 DEF IInv

-----------------------------------------------------------------------------
(* Every step preserves the invariant.                                     *)
LEMMA NextIInv == IInv /\ [Next]_vars => IInv'
<1> SUFFICES ASSUME IInv, [Next]_vars PROVE IInv'
  OBVIOUS
<1>1. CASE UNCHANGED vars
  <2>0. /\ UNCHANGED <<cfg, now, travel, clockSet, bucket, from, admitted>>
        /\ UNCHANGED <<expired, wiped, since>>
    BY <1>1 DEF vars, clockVars, windowVars
  <2>1. BoundInv' /\ ExpiryInv'
    BY <2>0, ClientFrame DEF BoundInv, ExpiryInv
  <2>2. LevelInv' /\ SavedInv'
    BY <2>0, SameConfig DEF IInv, LevelInv, SavedInv
  <2>3. TypeOK'
    BY <2>0 DEF IInv, TypeOK, AtLeast0, Full
  <2> QED
    BY <2>1, <2>2, <2>3 DEF IInv
<1> QED
  BY <1>1, AllowIInv, FailOpenIInv, DropIInv, WipeIInv, StartWindowIInv, ClockIInv DEF Next

(* The invariant holds in every reachable state.                           *)
LEMMA Invariance == Spec => []IInv
  BY InitIInv, NextIInv, PTL DEF Spec

(* The variables keep their types: no bucket holds more than the burst,    *)
(* and none holds anything if the burst is zero or negative.               *)
THEOREM TypeCorrect == Spec => []TypeOK
<1>1. IInv => TypeOK
  BY DEF IInv
<1> QED
  BY <1>1, Invariance, PTL

(* For every rate, burst and time to live Config accepts, in memory and in *)
(* Redis, whatever the calls, the clock and the losses: a window admits at *)
(* most a burst, what the rate allows, and a burst for each bucket lost in *)
(* it; and a bucket that is not full expires only in Redis, only where it  *)
(* takes longer to fill than its time to live, and once in that time.      *)
THEOREM RateEnforced == Spec => []WindowBounded
<1>1. IInv => WindowBounded
  <2> SUFFICES ASSUME IInv, NEW k \in Clients
               PROVE  /\ admitted[k] * Second <= Budget(k)
                      /\ expired[k] > 0 => Shared /\ Rate * TTL < Full
                      /\ expired[k] * TTL <= TTL + (travel - from[k])
    BY DEF WindowBounded, Budget, Burst, Gain
  <2>0. TypeOK /\ cfg \in Configs
    BY DEF IInv, TypeOK
  <2>1. /\ admitted[k] * Second \in Int /\ Budget(k) \in Int
        /\ AtLeast0(Held(k)) \in Nat /\ Age(k) \in Nat
        /\ expired[k] * TTL \in Nat /\ travel - from[k] \in Int /\ TTL \in Nat
    BY <2>0, NumberTypes, BucketIs, ConfigIs, AtLeast0Is DEF Budget
  <2>2. /\ admitted[k] * Second + AtLeast0(Held(k)) <= Budget(k)
        /\ expired[k] > 0 => Shared /\ Rate * TTL < Full
        /\ expired[k] * TTL + Age(k) <= TTL + (travel - from[k])
    BY DEF IInv, BoundInv, ExpiryInv, Potential
  <2> QED
    BY <2>1, <2>2
<1> QED
  BY <1>1, Invariance, PTL

(* While the clock is not set, a client that keeps asking is admitted      *)
(* again within the time one token takes, in every configuration whose     *)
(* burst holds a token.                                                    *)
THEOREM NoClientStarves == Spec => []RefusalsEnd
<1>1. IInv => RefusalsEnd
  <2> SUFFICES ASSUME IInv, NEW k \in Clients, since[k] # Never, ~clockSet, Full > 0
               PROVE  (bucket[k].last - since[k]) * AtLeast0(Rate) < Second
    BY DEF RefusalsEnd
  <2>0. /\ TypeOK /\ cfg \in Configs /\ Rate \in Int
        /\ Second \in Nat /\ Second > 0
        /\ bucket[k].last \in Int /\ since[k] \in Int /\ bucket[k].tokens \in Int
    BY ConfigIs, BucketIs DEF IInv, TypeOK, Never
  <2>1. CASE Rate >= 0
    <3>1. /\ bucket[k].tokens < Second
          /\ (bucket[k].last - since[k]) * Rate <= bucket[k].tokens
      BY <2>1 DEF IInv, SavedInv
    <3>2. AtLeast0(Rate) = Rate /\ (bucket[k].last - since[k]) * Rate \in Int
      BY <2>0, <2>1, AtLeast0Is
    <3> QED
      BY <2>0, <3>1, <3>2
  <2>2. CASE Rate < 0
    <3>1. AtLeast0(Rate) = 0
      BY <2>0, <2>2, AtLeast0Is
    <3> QED
      BY <2>0, <3>1
  <2> QED
    BY <2>0, <2>1, <2>2
<1> QED
  BY <1>1, Invariance, PTL
=============================================================================
