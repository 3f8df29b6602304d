---------------------------- MODULE LimitsProofs ----------------------------
(***************************************************************************)
(* Proofs about what the gateway rations, for every value of the           *)
(* constants: the bucket that paces the tunnels of a policy, the buckets   *)
(* of the accept loop and the leases of the address pool.                  *)
(***************************************************************************)
EXTENDS MCLimits, FiniteSetTheorems, WellFoundedInduction, TLAPS

-----------------------------------------------------------------------------
(* The shared rate limiter: the bucket stays within its capacity and the   *)
(* aggregate rate of a policy holds.                                       *)

(* The refilled level lies between nothing and the capacity.               *)
LEMMA LevelBounds ==
    ASSUME TypeOK
    PROVE  Level \in 0..Capacity
<1>1. elapsed * Rate \in Nat
    BY RateLimiterAssumption, SMT DEF TypeOK
<1> QED BY <1>1, RateLimiterAssumption, SMT DEF TypeOK, Level

(* Every step keeps the types: what Spend takes was there, a nap is capped. *)
LEMMA TypeStep ==
    ASSUME TypeOK, [Next]_vars
    PROVE  TypeOK'
<1> USE RateLimiterAssumption DEF TypeOK
<1>0. Level \in 0..Capacity
    BY LevelBounds
<1>1. ASSUME NEW r \in Relays, Ask(r) PROVE TypeOK'
    BY <1>1 DEF Ask, Need
<1>2. ASSUME NEW r \in Relays, Spend(r) PROVE TypeOK'
    BY <1>0, <1>2 DEF Spend
<1>3. ASSUME NEW r \in Relays, Sleep(r) PROVE TypeOK'
    <2> DEFINE missing == want[r] - Level
               wait == (missing + Rate - 1) \div Rate
    <2>1. missing \in Nat /\ missing > 0
        BY <1>0, <1>3 DEF Sleep
    <2>2. wait \in Nat
        <3> HIDE DEF missing
        <3>1. missing + Rate - 1 \in Nat
            BY <2>1
        <3> QED BY <3>1
    <2>3. (IF wait < NapMax THEN wait ELSE NapMax) \in 0..NapMax
        <3> HIDE DEF wait
        <3> QED BY <2>2
    <2>4. nap' \in [Relays -> 0..NapMax]
        BY <2>3, <1>3 DEF Sleep
    <2> QED BY <1>0, <1>3, <2>4 DEF Sleep
<1>4. ASSUME NEW r \in Relays, Cancel(r) PROVE TypeOK'
    BY <1>4 DEF Cancel
<1>5. CASE Tick
    BY <1>5 DEF Tick
<1>6. CASE Mark
    BY <1>6 DEF Mark
<1>7. CASE UNCHANGED vars
    BY <1>7 DEF vars
<1> QED BY <1>1, <1>2, <1>3, <1>4, <1>5, <1>6, <1>7 DEF Next

(* BucketState stays within 0 and the capacity, for every set of relays.   *)
THEOREM TypeCorrect == Spec => []TypeOK
<1>1. Init => TypeOK
    BY RateLimiterAssumption DEF Init, TypeOK
<1> QED BY <1>1, TypeStep, PTL DEF Spec

(* A tick adds at most Rate to the level.                                  *)
LEMMA TickAddsRate ==
    ASSUME TypeOK, Tick
    PROVE  Level' \in 0..Capacity /\ Level' <= Level + Rate
<1> USE RateLimiterAssumption DEF TypeOK
<1>1. elapsed * Rate \in Nat /\ (elapsed + 1) * Rate = elapsed * Rate + Rate
    BY SMT
<1>2. tokens' = tokens /\ (elapsed' = elapsed + 1 \/ elapsed' = elapsed)
    BY DEF Tick
<1> QED BY <1>1, <1>2 DEF Level

(* Spending moves budget from the bucket to what is granted, napping moves *)
(* none, and a tick lets the window grow by what it adds to the bucket.    *)
LEMMA BudgetStep ==
    ASSUME TypeOK, BudgetInv, [Next]_vars
    PROVE  BudgetInv'
<1> USE RateLimiterAssumption DEF TypeOK
<1>0. Level \in 0..Capacity
    BY LevelBounds
<1>a. Rate * span \in Nat
    BY SMT
<1>b. ASSUME tokens' \in 0..Capacity, elapsed' = 0 PROVE Level' = tokens'
    <2>1. \A t \in 0..Capacity :
              t = IF t + 0 * Rate < Capacity THEN t + 0 * Rate ELSE Capacity
        OBVIOUS
    <2> QED BY <1>b, <2>1, Zenon DEF Level
<1>1. ASSUME NEW r \in Relays, Ask(r) PROVE BudgetInv'
    BY <1>1 DEF Ask, BudgetInv, Level
<1>2. ASSUME NEW r \in Relays, Spend(r) PROVE BudgetInv'
    <2>1. Level' = Level - want[r]
        BY <1>0, <1>b, <1>2 DEF Spend
    <2>2. granted' = granted + want[r] /\ span' = span /\ want[r] \in Nat
        BY <1>2 DEF Spend
    <2> QED BY <1>0, <1>a, <2>1, <2>2 DEF BudgetInv
<1>3. ASSUME NEW r \in Relays, Sleep(r) PROVE BudgetInv'
    <2>1. Level' = Level
        BY <1>0, <1>b, <1>3 DEF Sleep
    <2> QED BY <1>3, <2>1 DEF Sleep, BudgetInv
<1>4. ASSUME NEW r \in Relays, Cancel(r) PROVE BudgetInv'
    BY <1>4 DEF Cancel, BudgetInv, Level
<1>5. CASE Tick
    <2>1. Level' \in 0..Capacity /\ Level' <= Level + Rate
        BY <1>5, TickAddsRate
    <2>2. CASE span < MaxSpan
        <3>1. granted' = granted
            BY <1>5, <2>2 DEF Tick
        <3>2. Rate * span' = Rate * span + Rate
            BY <1>5, <2>2 DEF Tick
        <3> QED BY <1>0, <1>a, <2>1, <3>1, <3>2 DEF BudgetInv
    <2>3. CASE ~(span < MaxSpan)
        <3>1. Rate * span' = 0 /\ granted' = 0
            BY <1>5, <2>3 DEF Tick
        <3> QED BY <2>1, <3>1 DEF BudgetInv
    <2> QED BY <2>2, <2>3
<1>6. CASE Mark
    <2>1. Level' = Level /\ span' = 0 /\ granted' = 0
        BY <1>6 DEF Mark, Level
    <2> QED BY <1>0, <2>1 DEF BudgetInv
<1>7. CASE UNCHANGED vars
    BY <1>7 DEF vars, BudgetInv, Level
<1> QED BY <1>1, <1>2, <1>3, <1>4, <1>5, <1>6, <1>7 DEF Next

(* The relays of one policy, however many share its RateLimiter and in     *)
(* whatever order they lock it, never spend more than the burst and the    *)
(* rate allow over a window.                                               *)
THEOREM RateRespected == Spec => []AggregateRate
<1>1. Init => BudgetInv
    BY RateLimiterAssumption DEF Init, BudgetInv, Level
<1>2. TypeOK /\ BudgetInv => AggregateRate
    <2> SUFFICES ASSUME TypeOK, BudgetInv PROVE AggregateRate
        OBVIOUS
    <2>1. Level \in Nat /\ Rate * span \in Nat
        BY LevelBounds, RateLimiterAssumption DEF TypeOK
    <2> QED BY <2>1, RateLimiterAssumption DEF TypeOK, BudgetInv, AggregateRate
<1> QED BY <1>1, <1>2, TypeCorrect, BudgetStep, PTL DEF Spec

-----------------------------------------------------------------------------
(* Arithmetic of a token bucket that is refilled when it is looked at.     *)
Bucketed(cap, now) == [tokens : 0..cap, last : 0..now]

Filled(b, n, rate, cap) ==
    LET filled == b.tokens + (n - b.last) * rate
    IN IF filled < cap THEN filled ELSE cap

(* A bucket's level lies between nothing and its capacity.                 *)
LEMMA FilledType ==
    ASSUME NEW cap \in Nat, NEW rate \in Nat, NEW n \in Nat, NEW b \in Bucketed(cap, n)
    PROVE  Filled(b, n, rate, cap) \in 0..cap
<1>1. (n - b.last) * rate \in Nat
    BY SMT DEF Bucketed
<1> QED BY <1>1 DEF Bucketed, Filled

(* A tick adds the rate, up to the capacity, whenever the bucket was last  *)
(* looked at.                                                              *)
LEMMA FilledTick ==
    ASSUME NEW cap \in Nat, NEW rate \in Nat, NEW n \in Nat, NEW b \in Bucketed(cap, n)
    PROVE  /\ b \in Bucketed(cap, n + 1)
           /\ Filled(b, n + 1, rate, cap) =
                IF Filled(b, n, rate, cap) + rate < cap
                THEN Filled(b, n, rate, cap) + rate ELSE cap
<1>1. (n - b.last) * rate \in Nat /\ (n + 1 - b.last) * rate = (n - b.last) * rate + rate
    BY SMT DEF Bucketed
<1> QED BY <1>1 DEF Bucketed, Filled

(* A bucket just looked at is as full as it says.                          *)
LEMMA FilledNow ==
    ASSUME NEW cap \in Nat, NEW rate \in Nat, NEW n \in Nat, NEW t \in 0..cap
    PROVE  /\ [tokens |-> t, last |-> n] \in Bucketed(cap, n)
           /\ Filled([tokens |-> t, last |-> n], n, rate, cap) = t
<1>1. (n - n) * rate = 0
    BY SMT
<1> QED BY <1>1 DEF Bucketed, Filled

-----------------------------------------------------------------------------
(* The accept loop.                                                        *)
SourceCap == Burst * Scale
GlobalCap == GlobalBurst * Scale
SourceLevel(s) == Accept!Level(Accept!Bucket(s), SourceRate, SourceCap)
IdealLevel(s) == Accept!Level(aIdeal[s], SourceRate, SourceCap)
GlobalLevel == Accept!Level(aGlobal, GlobalRate, GlobalCap)

SourceType ==
    /\ aNow \in Nat
    /\ DOMAIN aBuckets \subseteq Sources /\ IsFiniteSet(DOMAIN aBuckets)
    /\ \A s \in DOMAIN aBuckets : aBuckets[s] \in Bucketed(SourceCap, aNow)
    /\ aIdeal \in [Sources -> Bucketed(SourceCap, aNow)]
    /\ aExtra \in [Sources -> Int]

(* What a source was admitted beyond the table without a bound accounts    *)
(* for all it has less in its bucket.                                      *)
ExtraPays ==
    \A s \in Sources : aExtra[s] >= 0 /\ IdealLevel(s) - SourceLevel(s) <= aExtra[s] * Scale

SourceInv == SourceType /\ ExtraPays /\ Accept!TableBounded /\ Accept!SweepIsExact

(* What was granted in the window and what is left in the bucket came out  *)
(* of the burst and the window's refills.                                  *)
GlobalInv ==
    /\ aNow \in Nat /\ aMark \in 0..aNow /\ aGranted \in Nat
    /\ aGlobal \in Bucketed(GlobalCap, aNow)
    /\ aGranted * Scale + GlobalLevel <= GlobalCap + GlobalRate * (aNow - aMark)

(* The instance's cardinality is the library's.                            *)
LEMMA CardinalityIs ==
    ASSUME NEW S
    PROVE  Accept!Cardinality(S) = Cardinality(S)
BY Zenon DEF Accept!Cardinality, Cardinality

(* The level of a bucket, written out.                                     *)
LEMMA LevelIsFilled ==
    ASSUME NEW b, NEW rate, NEW cap
    PROVE  Accept!Level(b, rate, cap) = Filled(b, aNow, rate, cap)
BY DEF Accept!Level, Filled

(* The capacities are numbers.                                             *)
LEMMA CapsAreNat == SourceCap \in Nat /\ GlobalCap \in Nat
BY AdmissionAssumption, SMT DEF SourceCap, GlobalCap

(* The instance's capacities, written out.                                 *)
LEMMA CapsAreCaps == Accept!SourceCapacity = SourceCap /\ Accept!GlobalCapacity = GlobalCap
BY DEF Accept!SourceCapacity, Accept!GlobalCapacity, SourceCap, GlobalCap

(* What try_take leaves in a bucket.                                       *)
LEMMA TakenLevel ==
    ASSUME aNow \in Nat, NEW cap \in Nat, NEW rate \in Nat, NEW b \in Bucketed(cap, aNow)
    PROVE  LET level == Accept!Level(b, rate, cap)
               taken == Accept!Taken(b, rate, cap)
           IN  /\ level \in 0..cap /\ taken \in Bucketed(cap, aNow)
               /\ Filled(taken, aNow, rate, cap) =
                    IF Accept!Has(b, rate, cap) THEN level - Scale ELSE level
<1> DEFINE level == Accept!Level(b, rate, cap)
           left == IF Accept!Has(b, rate, cap) THEN level - Scale ELSE level
<1>1. level \in 0..cap
    BY LevelIsFilled, FilledType
<1>2. left \in 0..cap
    BY <1>1, AdmissionAssumption DEF Accept!Has
<1>3. Accept!Taken(b, rate, cap) = [tokens |-> left, last |-> aNow]
    BY DEF Accept!Taken
<1> HIDE DEF left, level
<1>4. /\ [tokens |-> left, last |-> aNow] \in Bucketed(cap, aNow)
      /\ Filled([tokens |-> left, last |-> aNow], aNow, rate, cap) = left
    BY <1>2, FilledNow
<1> QED BY <1>1, <1>3, <1>4 DEF left, level

(* Every source has a bucket: its own, or the full one it would be given.  *)
LEMMA BucketType ==
    ASSUME SourceType, NEW s \in Sources
    PROVE  /\ Accept!Bucket(s) \in Bucketed(SourceCap, aNow)
           /\ SourceLevel(s) \in 0..SourceCap /\ IdealLevel(s) \in 0..SourceCap
           /\ s \notin DOMAIN aBuckets => SourceLevel(s) = SourceCap
<1> USE CapsAreNat, CapsAreCaps, AdmissionAssumption
<1>1. /\ Accept!Full(SourceCap) \in Bucketed(SourceCap, aNow)
      /\ Accept!Level(Accept!Full(SourceCap), SourceRate, SourceCap) = SourceCap
    BY FilledNow, LevelIsFilled DEF Accept!Full, SourceType
<1>2. Accept!Bucket(s) \in Bucketed(SourceCap, aNow)
    BY <1>1 DEF Accept!Bucket, SourceType
<1>3. SourceLevel(s) \in 0..SourceCap /\ IdealLevel(s) \in 0..SourceCap
    BY <1>2, FilledType, LevelIsFilled DEF SourceLevel, IdealLevel, SourceType
<1>4. s \notin DOMAIN aBuckets => SourceLevel(s) = SourceCap
    BY <1>1 DEF Accept!Bucket, SourceLevel
<1> QED BY <1>2, <1>3, <1>4

(* A source is added only where there is room for it.                      *)
LEMMA AddOne ==
    ASSUME NEW S, NEW x, IsFiniteSet(S), Cardinality(S) <= MaxSources,
           x \in S \/ Cardinality(S) < MaxSources
    PROVE  IsFiniteSet(S \cup {x}) /\ Cardinality(S \cup {x}) <= MaxSources
<1>1. Cardinality(S) \in Nat
    BY FS_CardinalityType
<1>2. /\ IsFiniteSet(S \cup {x})
      /\ Cardinality(S \cup {x}) = IF x \in S THEN Cardinality(S) ELSE Cardinality(S) + 1
    BY FS_AddElement
<1> QED BY <1>1, <1>2, AdmissionAssumption

(* make_room leaves a table with room for the new source.                  *)
LEMMA KeepBounded ==
    ASSUME SourceType, Accept!TableBounded, NEW s \in Sources, NEW K \in Accept!Keep(s)
    PROVE  /\ K \subseteq DOMAIN aBuckets
           /\ s \in DOMAIN aBuckets => K = DOMAIN aBuckets
           /\ IsFiniteSet(K \cup {s}) /\ Cardinality(K \cup {s}) <= MaxSources
<1> DEFINE busy == {t \in DOMAIN aBuckets : ~Accept!IsFull(t)}
           D == DOMAIN aBuckets
<1>1. /\ IsFiniteSet(D) /\ Cardinality(D) \in Nat /\ Cardinality(D) <= MaxSources
      /\ IsFiniteSet(busy) /\ Cardinality(busy) \in Nat /\ Cardinality(busy) <= Cardinality(D)
    BY CardinalityIs, FS_Subset, FS_CardinalityType DEF SourceType, Accept!TableBounded
<1>2. \/ K = D /\ (s \in D \/ Cardinality(D) < MaxSources)
      \/ s \notin D /\ K = busy /\ Cardinality(busy) < MaxSources
      \/ s \notin D /\ \E t \in busy : K = busy \ {t}
    BY CardinalityIs DEF Accept!Keep
<1>3. CASE K = D /\ (s \in D \/ Cardinality(D) < MaxSources)
    <2>1. IsFiniteSet(D \cup {s}) /\ Cardinality(D \cup {s}) <= MaxSources
        BY <1>1, <1>3, AddOne
    <2> QED BY <1>3, <2>1
<1>4. CASE s \notin D /\ K = busy /\ Cardinality(busy) < MaxSources
    <2>1. IsFiniteSet(busy \cup {s}) /\ Cardinality(busy \cup {s}) <= MaxSources
        BY <1>1, <1>4, AddOne, AdmissionAssumption
    <2> QED BY <1>4, <2>1
<1>5. CASE s \notin D /\ \E t \in busy : K = busy \ {t}
    <2> PICK t \in busy : K = busy \ {t}
        BY <1>5
    <2>1. IsFiniteSet(K) /\ Cardinality(K) = Cardinality(busy) - 1
        BY <1>1, FS_RemoveElement
    <2>2. IsFiniteSet(K \cup {s}) /\ Cardinality(K \cup {s}) <= MaxSources
        <3> HIDE DEF busy, D
        <3>1. Cardinality(K) < MaxSources /\ Cardinality(K) <= MaxSources
            BY <1>1, <2>1, AdmissionAssumption
        <3> QED BY <2>1, <3>1, AddOne
    <2> QED BY <1>5, <2>2
<1> QED BY <1>2, <1>3, <1>4, <1>5

(* What PerSourceRate::try_take does to the levels: the asking source pays, *)
(* and of the others only an evicted one changes, which becomes full.      *)
LEMMA TakeLevels ==
    ASSUME SourceType, Accept!TableBounded, NEW s \in Sources, Accept!TakeSource(s),
           aNow' = aNow
    PROVE  /\ SourceType' /\ Accept!TableBounded'
           /\ SourceLevel(s)' = IF Accept!Has(Accept!Bucket(s), SourceRate, SourceCap)
                                THEN SourceLevel(s) - Scale ELSE SourceLevel(s)
           /\ IdealLevel(s)' = IF Accept!Has(aIdeal[s], SourceRate, SourceCap)
                               THEN IdealLevel(s) - Scale ELSE IdealLevel(s)
           /\ aEvicted \subseteq aEvicted'
           /\ \A t \in Sources \ {s} :
                /\ IdealLevel(t)' = IdealLevel(t) /\ aExtra'[t] = aExtra[t]
                /\ \/ SourceLevel(t)' = SourceLevel(t)
                   \/ t \in aEvicted' /\ SourceLevel(t)' = SourceCap
<1> USE CapsAreNat, CapsAreCaps, AdmissionAssumption
<1> PICK K \in Accept!Keep(s) : Accept!TakeSource(s)!(K)
    BY DEF Accept!TakeSource
<1> DEFINE taken == Accept!Taken(Accept!Bucket(s), SourceRate, SourceCap)
           paid == Accept!Taken(aIdeal[s], SourceRate, SourceCap)
<1>1. /\ K \subseteq DOMAIN aBuckets
      /\ IsFiniteSet(K \cup {s}) /\ Cardinality(K \cup {s}) <= MaxSources
    BY KeepBounded
<1>2. /\ aBuckets' = [t \in K \cup {s} |-> IF t = s THEN taken ELSE aBuckets[t]]
      /\ DOMAIN aBuckets' = K \cup {s}
      /\ aIdeal' = [aIdeal EXCEPT ![s] = paid]
    BY Zenon
<1>3. /\ taken \in Bucketed(SourceCap, aNow)
      /\ Filled(taken, aNow, SourceRate, SourceCap) =
            IF Accept!Has(Accept!Bucket(s), SourceRate, SourceCap)
            THEN SourceLevel(s) - Scale ELSE SourceLevel(s)
    BY BucketType, TakenLevel DEF SourceType, SourceLevel
<1>4. /\ paid \in Bucketed(SourceCap, aNow)
      /\ Filled(paid, aNow, SourceRate, SourceCap) =
            IF Accept!Has(aIdeal[s], SourceRate, SourceCap)
            THEN IdealLevel(s) - Scale ELSE IdealLevel(s)
    BY TakenLevel DEF SourceType, IdealLevel
<1> HIDE DEF taken, paid
<1>5. SourceType' /\ Accept!TableBounded'
    <2>1. aExtra' \in [Sources -> Int]
        BY DEF SourceType
    <2>2. aIdeal' \in [Sources -> Bucketed(SourceCap, aNow)]
        BY <1>2, <1>4 DEF SourceType
    <2>3. \A t \in DOMAIN aBuckets' : aBuckets'[t] \in Bucketed(SourceCap, aNow)
        BY <1>1, <1>2, <1>3 DEF SourceType
    <2> QED BY <1>1, <1>2, <2>1, <2>2, <2>3, CardinalityIs DEF SourceType, Accept!TableBounded
<1>6. /\ SourceLevel(s)' = Filled(taken, aNow, SourceRate, SourceCap)
      /\ IdealLevel(s)' = Filled(paid, aNow, SourceRate, SourceCap)
    <2>1. Accept!Bucket(s)' = taken /\ aIdeal'[s] = paid
        BY <1>2 DEF Accept!Bucket, SourceType
    <2> QED BY <2>1 DEF SourceLevel, IdealLevel, Accept!Level, Filled
<1>7. ASSUME NEW t \in Sources \ {s}
      PROVE  /\ IdealLevel(t)' = IdealLevel(t) /\ aExtra'[t] = aExtra[t]
             /\ \/ SourceLevel(t)' = SourceLevel(t)
                \/ t \in aEvicted' /\ SourceLevel(t)' = SourceCap
    <2>1. aExtra'[t] = aExtra[t] /\ aIdeal'[t] = aIdeal[t]
        BY <1>2 DEF SourceType
    <2>2. IdealLevel(t)' = IdealLevel(t)
        BY <2>1 DEF IdealLevel, Accept!Level
    <2>3. CASE t \in K
        <3>1. Accept!Bucket(t)' = Accept!Bucket(t)
            BY <1>1, <1>2, <2>3 DEF Accept!Bucket
        <3>2. SourceLevel(t)' = SourceLevel(t)
            BY <3>1 DEF SourceLevel, Accept!Level
        <3> QED BY <2>1, <2>2, <3>2
    <2>4. CASE t \notin K
        <3>1. SourceLevel(t)' = SourceCap
            <4>1. Accept!Bucket(t)' = [tokens |-> SourceCap, last |-> aNow]
                BY <1>2, <2>4 DEF Accept!Bucket, Accept!Full
            <4>2. SourceLevel(t)' =
                    Filled([tokens |-> SourceCap, last |-> aNow], aNow, SourceRate, SourceCap)
                BY <4>1 DEF SourceLevel, Accept!Level, Filled
            <4> QED BY <4>2, FilledNow DEF SourceType
        <3>2. t \in DOMAIN aBuckets \ K /\ Accept!IsFull(t) => SourceLevel(t) = SourceCap
            <4>1. t \in DOMAIN aBuckets => Accept!Bucket(t) = aBuckets[t]
                BY DEF Accept!Bucket
            <4>2. SourceLevel(t) \in 0..SourceCap
                BY BucketType
            <4> QED BY <4>1, <4>2 DEF Accept!IsFull, SourceLevel
        <3>3. t \in DOMAIN aBuckets \ K /\ ~Accept!IsFull(t) => t \in aEvicted'
            OBVIOUS
        <3>4. t \notin DOMAIN aBuckets => SourceLevel(t) = SourceCap
            BY BucketType
        <3> QED BY <2>1, <2>2, <2>4, <3>1, <3>2, <3>3, <3>4
    <2> QED BY <2>3, <2>4
<1>8. aEvicted \subseteq aEvicted'
    OBVIOUS
<1> QED BY <1>3, <1>4, <1>5, <1>6, <1>7, <1>8

(* What the provers need of products.                                      *)
LEMMA Products ==
    ASSUME NEW e \in Nat, NEW m \in Nat \ {0}
    PROVE  /\ e * m \in Nat /\ (e = 0 => e * m = 0)
           /\ (e + 1) * m = e * m + m /\ (e - 1) * m = e * m - m
BY SMT

(* A connection attempt keeps the promises of the per-source table.        *)
LEMMA IncomingSource ==
    ASSUME SourceInv, NEW s \in Sources, Accept!TakeSource(s), aNow' = aNow
    PROVE  SourceInv'
<1> USE CapsAreNat, CapsAreCaps, AdmissionAssumption
<1> DEFINE has == Accept!Has(Accept!Bucket(s), SourceRate, SourceCap)
           due == Accept!Has(aIdeal[s], SourceRate, SourceCap)
<1>1. /\ SourceType' /\ Accept!TableBounded'
      /\ SourceLevel(s)' = IF has THEN SourceLevel(s) - Scale ELSE SourceLevel(s)
      /\ IdealLevel(s)' = IF due THEN IdealLevel(s) - Scale ELSE IdealLevel(s)
      /\ aEvicted \subseteq aEvicted'
      /\ \A t \in Sources \ {s} :
           /\ IdealLevel(t)' = IdealLevel(t) /\ aExtra'[t] = aExtra[t]
           /\ \/ SourceLevel(t)' = SourceLevel(t)
              \/ t \in aEvicted' /\ SourceLevel(t)' = SourceCap
    BY TakeLevels DEF SourceInv
<1>2. \A t \in Sources : SourceLevel(t) \in 0..SourceCap /\ IdealLevel(t) \in 0..SourceCap
    BY BucketType DEF SourceInv
<1>3. (has <=> SourceLevel(s) >= Scale) /\ (due <=> IdealLevel(s) >= Scale)
    BY DEF Accept!Has, SourceLevel, IdealLevel
<1>4. aExtra'[s] = aExtra[s] + (IF has THEN 1 ELSE 0) - (IF due THEN 1 ELSE 0)
    BY DEF Accept!TakeSource, SourceInv, SourceType
<1> HIDE DEF has, due
<1>5. Accept!SweepIsExact'
    <2>1. \A t \in Sources \ aEvicted' : SourceLevel(t)' = IdealLevel(t)'
        <3>1. \A t \in Sources \ aEvicted : SourceLevel(t) = IdealLevel(t)
            BY DEF SourceInv, Accept!SweepIsExact, SourceLevel, IdealLevel
        <3> QED BY <1>1, <1>2, <1>3, <3>1
    <2> QED BY <2>1 DEF Accept!SweepIsExact, SourceLevel, IdealLevel
<1>6. ExtraPays'
    <2>1. ASSUME NEW t \in Sources
          PROVE  aExtra'[t] >= 0 /\ IdealLevel(t)' - SourceLevel(t)' <= aExtra'[t] * Scale
        <3>1. aExtra[t] \in Nat /\ IdealLevel(t) - SourceLevel(t) <= aExtra[t] * Scale
            BY DEF SourceInv, ExtraPays, SourceType
        <3>2. /\ aExtra[t] * Scale \in Nat /\ (aExtra[t] = 0 => aExtra[t] * Scale = 0)
              /\ (aExtra[t] + 1) * Scale = aExtra[t] * Scale + Scale
              /\ (aExtra[t] - 1) * Scale = aExtra[t] * Scale - Scale
            BY <3>1, Products
        <3>3. CASE t = s
            BY <1>1, <1>2, <1>3, <1>4, <3>1, <3>2, <3>3
        <3>4. CASE t # s
            BY <1>1, <1>2, <3>1, <3>2, <3>4
        <3> QED BY <3>3, <3>4
    <2> QED BY <2>1 DEF ExtraPays
<1> QED BY <1>1, <1>5, <1>6 DEF SourceInv

(* A tick refills the real and the unbounded table alike.                  *)
LEMMA TickSource ==
    ASSUME SourceInv, Accept!Tick
    PROVE  SourceInv'
<1> USE CapsAreNat, CapsAreCaps, AdmissionAssumption
<1> DEFINE up(l) == IF l + SourceRate < SourceCap THEN l + SourceRate ELSE SourceCap
<1>0. /\ aNow' = aNow + 1 /\ aNow \in Nat
      /\ UNCHANGED <<aBuckets, aIdeal, aExtra, aEvicted>>
    BY DEF Accept!Tick, SourceInv, SourceType
<1>1. ASSUME NEW s \in Sources
      PROVE  /\ SourceLevel(s) \in 0..SourceCap /\ IdealLevel(s) \in 0..SourceCap
             /\ SourceLevel(s)' = up(SourceLevel(s)) /\ IdealLevel(s)' = up(IdealLevel(s))
    <2>1. SourceLevel(s) \in 0..SourceCap /\ IdealLevel(s) \in 0..SourceCap
        BY BucketType DEF SourceInv
    <2>2. IdealLevel(s)' = up(IdealLevel(s))
        <3>1. aIdeal[s] \in Bucketed(SourceCap, aNow)
            BY DEF SourceInv, SourceType
        <3>2. IdealLevel(s)' = Filled(aIdeal[s], aNow + 1, SourceRate, SourceCap)
            BY <1>0 DEF IdealLevel, Accept!Level, Filled
        <3> QED BY <1>0, <3>1, <3>2, FilledTick, LevelIsFilled DEF IdealLevel
    <2>3. CASE s \in DOMAIN aBuckets
        <3>1. aBuckets[s] \in Bucketed(SourceCap, aNow)
            BY <2>3 DEF SourceInv, SourceType
        <3>2. SourceLevel(s)' = Filled(aBuckets[s], aNow + 1, SourceRate, SourceCap)
            BY <1>0, <2>3 DEF SourceLevel, Accept!Bucket, Accept!Level, Filled
        <3>3. SourceLevel(s) = Filled(aBuckets[s], aNow, SourceRate, SourceCap)
            BY <2>3, LevelIsFilled DEF SourceLevel, Accept!Bucket
        <3> QED BY <1>0, <2>1, <2>2, <3>1, <3>2, <3>3, FilledTick
    <2>4. CASE s \notin DOMAIN aBuckets
        <3>1. SourceLevel(s) = SourceCap
            BY <2>4, BucketType DEF SourceInv
        <3>2. SourceLevel(s)' =
                Filled([tokens |-> SourceCap, last |-> aNow + 1], aNow + 1, SourceRate, SourceCap)
            BY <1>0, <2>4 DEF SourceLevel, Accept!Bucket, Accept!Full, Accept!Level, Filled
        <3>3. SourceLevel(s)' = SourceCap
            BY <1>0, <3>2, FilledNow
        <3> QED BY <2>1, <2>2, <3>1, <3>3
    <2> QED BY <2>1, <2>2, <2>3, <2>4
<1>2. SourceType'
    <2>1. \A b \in Bucketed(SourceCap, aNow) : b \in Bucketed(SourceCap, aNow + 1)
        BY <1>0, FilledTick
    <2> QED BY <1>0, <2>1 DEF SourceInv, SourceType
<1>3. Accept!TableBounded'
    BY <1>0 DEF SourceInv, Accept!TableBounded
<1>4. Accept!SweepIsExact'
    <2>1. \A s \in Sources \ aEvicted : SourceLevel(s) = IdealLevel(s)
        BY DEF SourceInv, Accept!SweepIsExact, SourceLevel, IdealLevel
    <2>2. \A s \in Sources \ aEvicted : SourceLevel(s)' = IdealLevel(s)'
        BY <1>1, <2>1
    <2> QED BY <1>0, <2>2 DEF Accept!SweepIsExact, SourceLevel, IdealLevel
<1>5. ExtraPays'
    <2>1. ASSUME NEW s \in Sources
          PROVE  IdealLevel(s)' - SourceLevel(s)' <= aExtra[s] * Scale
        <3>1. aExtra[s] \in Nat /\ IdealLevel(s) - SourceLevel(s) <= aExtra[s] * Scale
            BY DEF SourceInv, ExtraPays, SourceType
        <3>2. aExtra[s] * Scale \in Nat
            BY <3>1, Products
        <3> QED BY <1>1, <3>1, <3>2
    <2> QED BY <1>0, <2>1 DEF SourceInv, ExtraPays
<1> QED BY <1>2, <1>3, <1>4, <1>5 DEF SourceInv

(* The global bucket through a connection attempt and through a tick.      *)
LEMMA IncomingGlobal ==
    ASSUME GlobalInv, NEW s \in Sources, Accept!Incoming(s)
    PROVE  GlobalInv'
<1> USE CapsAreNat, CapsAreCaps, AdmissionAssumption
<1> DEFINE has == Accept!Has(aGlobal, GlobalRate, GlobalCap)
           taken == Accept!Taken(aGlobal, GlobalRate, GlobalCap)
<1>0. aNow' = aNow /\ aMark' = aMark
    BY DEF Accept!Incoming
<1>1. CASE aGlobal' = aGlobal /\ aGranted' = aGranted
    <2>1. GlobalLevel' = GlobalLevel
        BY <1>0, <1>1 DEF GlobalLevel, Accept!Level
    <2> QED BY <1>0, <1>1, <2>1, Zenon DEF GlobalInv
<1>2. CASE aGlobal' = taken /\ aGranted' = IF has THEN aGranted + 1 ELSE aGranted
    <2>0. aNow \in Nat /\ aGlobal \in Bucketed(GlobalCap, aNow)
        BY DEF GlobalInv
    <2>1. /\ GlobalLevel \in 0..GlobalCap /\ taken \in Bucketed(GlobalCap, aNow)
          /\ Filled(taken, aNow, GlobalRate, GlobalCap) =
                IF has THEN GlobalLevel - Scale ELSE GlobalLevel
        BY <2>0, TakenLevel DEF GlobalLevel
    <2>2. GlobalLevel' = Filled(taken, aNow, GlobalRate, GlobalCap)
        BY <1>0, <1>2 DEF GlobalLevel, Accept!Level, Filled
    <2>3. /\ aGranted * Scale \in Nat /\ (aGranted + 1) * Scale = aGranted * Scale + Scale
          /\ GlobalRate * (aNow - aMark) \in Nat
        BY SMT DEF GlobalInv
    <2> HIDE DEF has, taken
    <2> QED BY <1>0, <1>2, <2>1, <2>2, <2>3 DEF GlobalInv
<1> QED BY <1>1, <1>2 DEF Accept!Incoming

(* Time refills the global bucket by what the rate allows.                 *)
LEMMA TickGlobal ==
    ASSUME GlobalInv, Accept!Tick
    PROVE  GlobalInv'
<1> USE CapsAreNat, AdmissionAssumption
<1>0. /\ aNow' = aNow + 1 /\ aNow \in Nat /\ aMark \in 0..aNow
      /\ UNCHANGED <<aGlobal, aMark, aGranted>>
    BY DEF Accept!Tick, GlobalInv
<1>1. GlobalLevel' = Filled(aGlobal, aNow + 1, GlobalRate, GlobalCap)
    BY <1>0 DEF GlobalLevel, Accept!Level, Filled
<1>2. aGlobal \in Bucketed(GlobalCap, aNow) /\ aGranted \in Nat
      /\ GlobalLevel = Filled(aGlobal, aNow, GlobalRate, GlobalCap)
    BY LevelIsFilled DEF GlobalInv, GlobalLevel
<1>3. /\ GlobalLevel \in 0..GlobalCap /\ aGlobal \in Bucketed(GlobalCap, aNow + 1)
      /\ GlobalLevel' = IF GlobalLevel + GlobalRate < GlobalCap
                        THEN GlobalLevel + GlobalRate ELSE GlobalCap
    BY <1>0, <1>1, <1>2, FilledTick, FilledType
<1> DEFINE given == aGranted * Scale
           window == GlobalRate * (aNow - aMark)
<1>4. given \in Nat /\ window \in Nat /\ given' = given /\ window' = window + GlobalRate
    BY <1>0, <1>2, SMT
<1>5. given + GlobalLevel <= GlobalCap + window
    BY DEF GlobalInv
<1> HIDE DEF given, window
<1>6. given' + GlobalLevel' <= GlobalCap + window'
    BY <1>3, <1>4, <1>5
<1> QED BY <1>0, <1>2, <1>3, <1>6 DEF GlobalInv, given, window

AdmissionIInv == SourceInv /\ GlobalInv

(* An accept loop that has seen no connection satisfies the invariant.     *)
LEMMA AdmissionInit == MCInit => AdmissionIInv
<1> SUFFICES ASSUME Accept!Init PROVE AdmissionIInv
    BY DEF MCInit
<1> USE CapsAreNat, CapsAreCaps, AdmissionAssumption
<1>1. /\ aNow = 0 /\ aMark = 0 /\ aGranted = 0
      /\ aBuckets = [s \in {} |-> Accept!Full(SourceCap)] /\ DOMAIN aBuckets = {}
      /\ aGlobal = [tokens |-> GlobalCap, last |-> 0]
      /\ aIdeal = [s \in Sources |-> [tokens |-> SourceCap, last |-> 0]]
      /\ aExtra = [s \in Sources |-> 0]
    BY DEF Accept!Init, Accept!Full
<1>2. SourceType
    BY <1>1, FilledNow, FS_EmptySet DEF SourceType
<1>3. \A s \in Sources : SourceLevel(s) = SourceCap /\ IdealLevel(s) = SourceCap
    BY <1>1, <1>2, BucketType, FilledNow, LevelIsFilled DEF IdealLevel
<1>4. SourceInv
    <2>1. ExtraPays
        BY <1>1, <1>3, SMT DEF ExtraPays
    <2>2. Accept!TableBounded
        BY <1>1, FS_EmptySet, CardinalityIs DEF Accept!TableBounded
    <2>3. Accept!SweepIsExact
        BY <1>3 DEF Accept!SweepIsExact, SourceLevel, IdealLevel
    <2> QED BY <1>2, <2>1, <2>2, <2>3 DEF SourceInv
<1>5. GlobalInv
    <2>1. aGlobal \in Bucketed(GlobalCap, aNow) /\ GlobalLevel = GlobalCap
        BY <1>1, FilledNow, LevelIsFilled DEF GlobalLevel
    <2>2. aGranted * Scale = 0 /\ GlobalRate * (aNow - aMark) = 0
        BY <1>1, SMT
    <2> QED BY <1>1, <2>1, <2>2 DEF GlobalInv
<1> QED BY <1>4, <1>5 DEF AdmissionIInv

(* Every connection, end, tick and mark keeps it.                          *)
LEMMA AdmissionStep == AdmissionIInv /\ [MCNext]_allVars => AdmissionIInv'
<1> SUFFICES ASSUME AdmissionIInv, [MCNext]_allVars PROVE AdmissionIInv'
    OBVIOUS
<1>1. ASSUME NEW s \in Sources, Accept!Incoming(s) PROVE AdmissionIInv'
    BY <1>1, IncomingSource, IncomingGlobal DEF AdmissionIInv, Accept!Incoming
<1>2. CASE Accept!Tick
    BY <1>2, TickSource, TickGlobal DEF AdmissionIInv
<1>3. ASSUME UNCHANGED <<aNow, aBuckets, aIdeal, aExtra, aEvicted>> PROVE SourceInv'
    BY <1>3, Zenon DEF AdmissionIInv, SourceInv, SourceType, ExtraPays, Accept!TableBounded,
        Accept!SweepIsExact, SourceLevel, IdealLevel, Accept!Level, Accept!Bucket, Accept!Full,
        Accept!SourceCapacity
<1>4. ASSUME UNCHANGED <<aNow, aGlobal, aMark, aGranted>> PROVE GlobalInv'
    BY <1>4, Zenon DEF AdmissionIInv, GlobalInv, GlobalLevel, Accept!Level
<1>5. CASE Accept!ConnectionEnds
    BY <1>3, <1>4, <1>5 DEF Accept!ConnectionEnds, AdmissionIInv
<1>6. CASE Accept!Mark
    <2>1. /\ UNCHANGED <<aNow, aBuckets, aGlobal, aIdeal, aExtra, aEvicted>>
          /\ aMark' = aNow /\ aGranted' = 0
        BY <1>6 DEF Accept!Mark
    <2>2. GlobalLevel \in 0..GlobalCap /\ GlobalLevel' = GlobalLevel
        BY <2>1, FilledType, LevelIsFilled, CapsAreNat, AdmissionAssumption
            DEF AdmissionIInv, GlobalInv, GlobalLevel, Accept!Level
    <2>3. 0 * Scale = 0 /\ GlobalRate * (aNow - aNow) = 0
        BY AdmissionAssumption, SMT DEF AdmissionIInv, GlobalInv
    <2>4. GlobalInv'
        BY <2>1, <2>2, <2>3, CapsAreNat DEF AdmissionIInv, GlobalInv
    <2> QED BY <1>3, <2>1, <2>4 DEF AdmissionIInv
<1>7. CASE UNCHANGED admissionVars
    BY <1>3, <1>4, <1>7 DEF admissionVars, AdmissionIInv
<1> QED BY <1>1, <1>2, <1>5, <1>6, <1>7
    DEF MCNext, OnPacing, OnAdmission, OnLeasing, Accept!Next, allVars

(* run_until's accept loop, for any number of sources, any size of the     *)
(* table and any rates and bursts: over any window no more is admitted     *)
(* than the burst and the rate, the table of PerSourceRate stays within    *)
(* MAX_SOURCES, sweeping changes no source's allowance, and eviction never *)
(* costs a source an admission.                                            *)
THEOREM AdmissionFair == MCSpec => []AdmissionInv
<1>1. AdmissionIInv => AdmissionInv
    <2> SUFFICES ASSUME AdmissionIInv PROVE AdmissionInv
        OBVIOUS
    <2> USE CapsAreNat, CapsAreCaps, AdmissionAssumption
    <2>1. GlobalLevel \in 0..GlobalCap
        BY FilledType, LevelIsFilled DEF AdmissionIInv, GlobalInv, GlobalLevel
    <2>2. aGranted * Scale \in Nat /\ GlobalRate * (aNow - aMark) \in Nat
        BY SMT DEF AdmissionIInv, GlobalInv
    <2>3. Accept!RateHolds
        BY <2>1, <2>2 DEF AdmissionIInv, GlobalInv, Accept!RateHolds
    <2> QED BY <2>3 DEF AdmissionIInv, SourceInv, ExtraPays, AdmissionInv,
                        Accept!EvictionFailsOpen
<1> QED BY <1>1, AdmissionInit, AdmissionStep, PTL DEF MCSpec

-----------------------------------------------------------------------------
(* The address pool.                                                       *)

(* Every set of natural numbers with an element has a least one.           *)
LEMMA LeastNat ==
    ASSUME NEW S \in SUBSET Nat, S # {}
    PROVE  \E n \in S : \A m \in S : n <= m
<1>1. PICK n \in S : \A m \in S : ~(<<m, n>> \in OpToRel(<, Nat))
    BY NatLessThanWellFounded, WFMin
<1>2. \A m \in S : ~(m < n)
    BY <1>1 DEF OpToRel
<1> QED BY <1>2

(* What holds of 0 and passes from each number to the next, up to a bound, *)
(* holds up to that bound.                                                 *)
LEMMA UpTo ==
    ASSUME NEW top \in Nat, NEW S, 0 \in S,
           \A n \in 0..top : n > 0 /\ n - 1 \in S => n \in S
    PROVE  0..top \subseteq S
<1> SUFFICES ASSUME (0..top) \ S # {} PROVE FALSE
    OBVIOUS
<1>0. (0..top) \ S \in SUBSET Nat
    OBVIOUS
<1>1. PICK n \in (0..top) \ S : \A m \in (0..top) \ S : n <= m
    BY <1>0, LeastNat, Zenon
<1>2. n > 0 /\ n - 1 \in 0..top
    BY SMT
<1>3. n - 1 \in S
    BY <1>1, <1>2, SMT
<1> QED BY <1>2, <1>3

(* A walk of top steps, each a function of the place reached.              *)
IsWalk(g, top, S, start, step) ==
    /\ g \in [0..top -> S]
    /\ \A n \in 0..top : g[n] = IF n = 0 THEN start ELSE step[g[n - 1]]

(* There is one from every start.                                          *)
LEMMA Walk ==
    ASSUME NEW top \in Nat, NEW S, NEW start \in S, NEW step \in [S -> S]
    PROVE  \E g : IsWalk(g, top, S, start, step)
<1> DEFINE Good(k) == \E g \in [0..k -> S] :
                        \A n \in 0..k : g[n] = IF n = 0 THEN start ELSE step[g[n - 1]]
           K == {k \in 0..top : Good(k)}
<1>1. 0 \in K
    <2> DEFINE g == [n \in 0..0 |-> start]
    <2>1. g \in [0..0 -> S] /\ \A n \in 0..0 : g[n] = IF n = 0 THEN start ELSE step[g[n - 1]]
        OBVIOUS
    <2>2. Good(0)
        BY <2>1
    <2> QED BY <2>2
<1>2. ASSUME NEW k \in 0..top, k > 0, k - 1 \in K PROVE k \in K
    <2>1. PICK g \in [0..(k - 1) -> S] :
            \A n \in 0..(k - 1) : g[n] = IF n = 0 THEN start ELSE step[g[n - 1]]
        BY <1>2
    <2> DEFINE h == [n \in 0..k |-> IF n = k THEN step[g[k - 1]] ELSE g[n]]
    <2>2. k - 1 \in 0..(k - 1) /\ \A n \in 0..k : n # k => n \in 0..(k - 1)
        BY <1>2
    <2>3. h \in [0..k -> S]
        BY <2>1, <2>2
    <2>4. ASSUME NEW n \in 0..k PROVE h[n] = IF n = 0 THEN start ELSE step[h[n - 1]]
        <3>1. CASE n = k
            BY <3>1, <1>2, <2>2
        <3>2. CASE n # k
            <4>1. n \in 0..(k - 1) /\ h[n] = g[n]
                BY <3>2, <2>2
            <4>2. n > 0 => n - 1 \in 0..k /\ n - 1 # k /\ h[n - 1] = g[n - 1]
                BY <4>1, <1>2
            <4> QED BY <4>1, <4>2, <2>1
        <3> QED BY <3>1, <3>2
    <2>5. Good(k)
        <3> HIDE DEF h
        <3> QED BY <2>3, <2>4
    <2> QED BY <2>5
<1>3. 0..top \subseteq K
    <2> HIDE DEF K
    <2> QED BY <1>1, <1>2, UpTo
<1>4. Good(top)
    BY <1>3
<1> QED BY <1>4 DEF IsWalk

(* Division by a positive number leaves less than that number.             *)
LEMMA Divided ==
    ASSUME NEW a \in Nat, NEW s \in Nat \ {0}
    PROVE  /\ a \div s \in Nat /\ a % s \in 0..(s - 1)
           /\ a = s * (a \div s) + (a % s)
BY SMT

(* A multiple of s below another one has s numbers of its own below it.    *)
LEMMA Multiples ==
    ASSUME NEW k \in Nat, NEW q \in Nat, NEW s \in Nat \ {0}, s * k < q * s
    PROVE  s * k + s <= q * s
<1>1. CASE k < q
    <2>1. PICK d \in Nat : q = k + 1 + d
        BY <1>1, SMT
    <2>2. q * s = s * k + s + d * s /\ d * s \in Nat
        BY <2>1, SMT
    <2> QED BY <2>2, SMT
<1>2. CASE k >= q
    <2>1. PICK d \in Nat : k = q + d
        BY <1>2, SMT
    <2>2. s * k = q * s + d * s /\ d * s \in Nat
        BY <2>1, SMT
    <2> QED BY <2>2, SMT
<1> QED BY <1>1, <1>2

(* The numbers whose quotient by s is that of a multiple of s are the s    *)
(* numbers from it on.                                                     *)
LEMMA SameQuotient ==
    ASSUME NEW a \in Nat, NEW b \in Nat, NEW s \in Nat \ {0}, b % s = 0
    PROVE  a \div s = b \div s <=> a \in b..(b + s - 1)
<1> DEFINE k == a \div s
           j == b \div s
<1>1. k \in Nat /\ a % s \in 0..(s - 1) /\ a = s * k + (a % s)
    BY Divided
<1>2. j \in Nat /\ b = s * j
    BY Divided, SMT
<1> HIDE DEF k, j
<1>3. CASE k = j
    BY <1>1, <1>2, <1>3, SMT DEF k, j
<1>4. CASE k > j
    <2>1. PICK d \in Nat : k = j + 1 + d
        BY <1>4, <1>1, <1>2, SMT
    <2>2. s * k = s * j + s + s * d /\ s * d \in Nat /\ s * j \in Nat
        BY <2>1, <1>1, <1>2, SMT
    <2>3. ~(a \in b..(b + s - 1))
        BY <2>2, <1>1, <1>2, SMT
    <2> QED BY <2>3, <1>4, <1>1, <1>2 DEF k, j
<1>5. CASE k < j
    <2>1. PICK d \in Nat : j = k + 1 + d
        BY <1>5, <1>1, <1>2, SMT
    <2>2. s * j = s * k + s + s * d /\ s * d \in Nat /\ s * k \in Nat
        BY <2>1, <1>1, <1>2, SMT
    <2>3. a < b
        BY <2>2, <1>1, <1>2, SMT
    <2> QED BY <2>3, <1>5, <1>1, <1>2 DEF k, j
<1> QED BY <1>1, <1>2, <1>3, <1>4, <1>5

(* The prefix's addresses lie within its family, and so within the         *)
(* integers.                                                               *)
LEMMA BlockFits ==
    ASSUME pPrefix \in Pool!Prefixes
    PROVE  LET s == 2 ^ pPrefix.host IN
           /\ pPrefix.host \in 0..Width /\ pPrefix.base \in Nat /\ s \in Nat \ {0}
           /\ pPrefix.v6 \in BOOLEAN
           /\ pPrefix.base % s = 0
           /\ pPrefix.base + s <= 2 ^ Width
           /\ 2 ^ Width \in Nat \ {0}
           /\ pPrefix.host = Width => pPrefix.base = 0
           /\ pPrefix.host = 0 => s = 1
           /\ pPrefix.host = 1 => s = 2
           /\ pPrefix.host > 1 => s >= 4
<1> DEFINE h == pPrefix.host
           b == pPrefix.base
           w == Pool!Bits(pPrefix.v6)
           s == 2 ^ h
<1>1. /\ h \in 0..Width /\ b \in Nat /\ w \in 0..Width /\ h <= w
      /\ pPrefix.v6 \in BOOLEAN /\ b < 2 ^ w /\ b % s = 0
    BY PoolAssumption, SMT DEF Pool!Prefixes, Pool!Bits
<1>2. s \in Nat \ {0} /\ 2 ^ w \in Nat \ {0} /\ 2 ^ Width \in Nat \ {0}
    BY <1>1, PoolAssumption
<1>3. 2 ^ w = 2 ^ (w - h) * s /\ 2 ^ Width = 2 ^ (Width - w) * 2 ^ w
    <2>1. Width \in 0..Width /\ w <= Width
        BY <1>1, PoolAssumption
    <2> QED BY <2>1, <1>1, PoolAssumption, Zenon
<1>4. 2 ^ (w - h) \in Nat \ {0} /\ 2 ^ (Width - w) \in Nat \ {0}
    <2>1. w - h \in 0..Width /\ Width - w \in 0..Width
        BY <1>1, PoolAssumption
    <2> QED BY <2>1, PoolAssumption
<1>5. h > 1 => s >= 4
    <2> SUFFICES ASSUME h > 1 PROVE s >= 4
        OBVIOUS
    <2>1. 2 \in 0..Width /\ h - 2 \in 0..Width
        BY <1>1, PoolAssumption
    <2>2. s = 2 ^ (h - 2) * 2 ^ 2 /\ 2 ^ (h - 2) \in Nat \ {0}
        <3>1. 2 <= h
            BY <1>1
        <3> QED BY <3>1, <1>1, <2>1, PoolAssumption, Zenon
    <2>3. 2 ^ 2 = 4
        BY SMT
    <2> DEFINE e == 2 ^ (h - 2)
    <2> HIDE DEF e, s
    <2> QED BY <2>2, <2>3 DEF e
<1>6. (h = 0 => s = 1) /\ (h = 1 => s = 2)
    <2>1. 2 ^ 0 = 1 /\ 2 ^ 1 = 2
        BY SMT
    <2> QED BY <2>1, Zenon
<1>7. b + s <= 2 ^ w
    <2> DEFINE q == 2 ^ (w - h)
               k == b \div s
    <2> HIDE DEF q, s, b
    <2>1. k \in Nat /\ b = s * k
        <3>1. /\ b \div s \in Nat /\ b % s \in 0..(s - 1)
              /\ b = s * (b \div s) + (b % s)
            BY <1>1, <1>2, Divided
        <3> QED BY <3>1, <1>1, <1>2, SMT
    <2> HIDE DEF k
    <2>2. s * k < q * s
        BY <1>1, <1>3, <2>1 DEF q
    <2>3. s * k + s <= q * s
        BY <1>2, <1>4, <2>1, <2>2, Multiples DEF q
    <2> QED BY <1>3, <2>1, <2>3 DEF q
<1>8. 2 ^ w <= 2 ^ Width
    <2> DEFINE x == 2 ^ w
               y == 2 ^ (Width - w)
    <2> HIDE DEF x, y
    <2>1. x \in Nat \ {0} /\ y \in Nat \ {0} /\ 2 ^ Width = y * x
        BY <1>2, <1>3, <1>4 DEF x, y
    <2>2. y * x >= x
        BY <2>1, SMT
    <2> QED BY <2>1, <2>2 DEF x
<1>9. b + s <= 2 ^ Width
    <2> HIDE DEF s, b
    <2> QED BY <1>1, <1>2, <1>7, <1>8
<1>10. h = Width => b = 0
    <2> HIDE DEF b
    <2> SUFFICES ASSUME h = Width PROVE b = 0
        OBVIOUS
    <2>1. b + 2 ^ Width <= 2 ^ Width
        BY <1>9
    <2> QED BY <2>1, <1>1, <1>2
<1> QED BY <1>1, <1>2, <1>5, <1>6, <1>9, <1>10

(* usable_bounds: the arithmetic that wraps at the top of the integers     *)
(* gives the last address of the prefix also where its size is 2^Width.    *)
LEMMA Bounds ==
    ASSUME pPrefix \in Pool!Prefixes
    PROVE  LET b == pPrefix.base
               e == pPrefix.base + 2 ^ pPrefix.host - 1
               u == Pool!UsableBounds(pPrefix)
           IN  /\ pPrefix.host <= 1 => u[1] = b /\ u[2] = e
               /\ pPrefix.host > 1 /\ pPrefix.v6 => u[1] = b + 1 /\ u[2] = e
               /\ pPrefix.host > 1 /\ ~pPrefix.v6 => u[1] = b + 1 /\ u[2] = e - 1
<1> DEFINE h == pPrefix.host
           b == pPrefix.base
           s == 2 ^ h
           t == 2 ^ Width
           last == (b + (IF h = Width THEN 0 ELSE s) - 1) % t
<1>1. /\ h \in 0..Width /\ b \in Nat /\ s \in Nat \ {0} /\ pPrefix.v6 \in BOOLEAN
      /\ b + s <= t /\ t \in Nat \ {0} /\ (h = Width => b = 0)
    BY BlockFits
<1>2. h = Width => s = t
    OBVIOUS
<1>3. last = b + s - 1
    <2> HIDE DEF b, s, t
    <2>1. CASE h = Width
        <3>1. last = (0 - 1) % t /\ b + s - 1 = t - 1
            BY <2>1, <1>1, <1>2
        <3>2. (0 - 1) % t = t - 1
            BY <1>1, SMT
        <3> QED BY <3>1, <3>2
    <2>2. CASE h # Width
        <3>1. last = (b + s - 1) % t /\ b + s - 1 \in 0..(t - 1)
            BY <2>2, <1>1
        <3>2. \A x \in 0..(t - 1) : x % t = x
            BY <1>1, SMT
        <3> QED BY <3>1, <3>2
    <2> QED BY <2>1, <2>2
<1>4. Pool!UsableBounds(pPrefix) =
        IF h \in {0, 1} THEN <<b, last>>
        ELSE IF pPrefix.v6 THEN <<b + 1, last>> ELSE <<b + 1, last - 1>>
    BY Zenon DEF Pool!UsableBounds
<1>5. h <= 1 <=> h \in {0, 1}
    BY <1>1, PoolAssumption
<1> HIDE DEF last, s, b
<1> QED BY <1>1, <1>3, <1>4, <1>5 DEF s, b, h

(* What a client may have is what lies between the first and the last      *)
(* address to lease, but for the last address of all as a pool of its own. *)
LEMMA LeaseBounds ==
    ASSUME pPrefix \in Pool!Prefixes
    PROVE  /\ Pool!Top \in Nat
           /\ Pool!FirstLease \in 0..Pool!Top /\ Pool!LastLease \in 0..Pool!Top
           /\ \/ /\ Pool!FirstLease <= Pool!LastLease + 1
                 /\ Pool!Leasable = Pool!FirstLease..Pool!LastLease
              \/ /\ pPrefix.host = 0 /\ pPrefix.base = Pool!Top
                 /\ Pool!FirstLease = Pool!Top /\ Pool!LastLease = Pool!Top
<1> DEFINE h == pPrefix.host
           b == pPrefix.base
           s == 2 ^ h
           t == 2 ^ Width
           u == Pool!UsableBounds(pPrefix)
<1>1. /\ h \in 0..Width /\ b \in Nat /\ s \in Nat \ {0} /\ pPrefix.v6 \in BOOLEAN
      /\ b + s <= t /\ t \in Nat \ {0} /\ b % s = 0
      /\ (h = 0 => s = 1) /\ (h = 1 => s = 2) /\ (h > 1 => s >= 4)
    BY BlockFits
<1>2. /\ h <= 1 => u[1] = b /\ u[2] = b + s - 1
      /\ h > 1 /\ pPrefix.v6 => u[1] = b + 1 /\ u[2] = b + s - 1
      /\ h > 1 /\ ~pPrefix.v6 => u[1] = b + 1 /\ u[2] = (b + s - 1) - 1
    BY Bounds, Zenon
<1>3. Pool!Top = t - 1
    BY DEF Pool!Top
<1>4. /\ Pool!FirstLease = IF u[1] = Pool!Top THEN Pool!Top ELSE u[1] + 1
      /\ Pool!LastLease = u[2]
    BY DEF Pool!FirstLease, Pool!LastLease, Pool!SaturatingSucc
<1> DEFINE block == {a \in 0..Pool!Top : a \div s = b \div s}
           usable == {a \in block : h > 1 => a # b /\ (~pPrefix.v6 => a + 1 \in block)}
<1>5. Pool!Leasable = {a \in usable : \E c \in usable : c < a}
    BY DEF Pool!Leasable
<1>6. block = b..(b + s - 1)
    <2> HIDE DEF b, s, t
    <2>1. \A a \in Nat : a \div s = b \div s <=> a \in b..(b + s - 1)
        BY <1>1, SameQuotient
    <2>2. \A a \in b..(b + s - 1) : a \in 0..Pool!Top
        BY <1>1, <1>3
    <2>3. \A a \in 0..Pool!Top : a \in Nat
        BY <1>1, <1>3
    <2>4. \A a \in b..(b + s - 1) : a \in Nat
        BY <1>1
    <2> QED BY <2>1, <2>2, <2>3, <2>4, Zenon
<1> HIDE DEF block, u, b, s, t, h
<1>7. usable = u[1]..u[2]
    <2>1. CASE h <= 1
        BY <2>1, <1>1, <1>2, <1>6
    <2>2. CASE h > 1 /\ pPrefix.v6
        BY <2>2, <1>1, <1>2, <1>6
    <2>3. CASE h > 1 /\ ~pPrefix.v6
        BY <2>3, <1>1, <1>2, <1>6
    <2> QED BY <1>1, PoolAssumption, <2>1, <2>2, <2>3
<1>8. u[1] \in Nat /\ u[2] \in Nat /\ u[1] <= u[2] /\ u[2] <= t - 1
    BY <1>1, <1>2, PoolAssumption
<1> HIDE DEF usable
<1>9. Pool!Leasable = (u[1] + 1)..u[2]
    BY <1>5, <1>7, <1>8
<1>10. CASE u[1] # Pool!Top
    BY <1>10, <1>3, <1>4, <1>8, <1>9
<1>11. CASE u[1] = Pool!Top
    <2>1. h = 0 /\ b = Pool!Top
        BY <1>11, <1>1, <1>2, <1>3, PoolAssumption
    <2> QED BY <2>1, <1>11, <1>1, <1>3, <1>4, <1>8 DEF h, b
<1> QED BY <1>10, <1>11

(* IpAddressPool::lease looks at leasable addresses only, and where the    *)
(* range ends below the last integer, it looks at each of them.            *)
LEMMA Candidates ==
    ASSUME pPrefix \in Pool!Prefixes, pCursor \in Pool!FirstLease..Pool!Top,
           Pool!FirstLease <= Pool!LastLease
    PROVE  /\ \A n \in 0..Pool!Top : Pool!candidate[n] \in Pool!FirstLease..Pool!LastLease
           /\ Pool!LastLease < Pool!Top =>
                \A a \in Pool!FirstLease..Pool!LastLease :
                    \E n \in 0..((Pool!LastLease - Pool!FirstLease + 1) - 1) :
                        Pool!candidate[n] = a
<1> DEFINE F == Pool!FirstLease
           L == Pool!LastLease
           T == Pool!Top
           S == F..L
           start == Pool!Wrap(pCursor)
           Step(x) == Pool!Wrap(Pool!SaturatingSucc(x))
           step == [x \in S |-> Step(x)]
           walk == Pool!candidate
<1>1. F \in 0..T /\ L \in 0..T /\ T \in Nat /\ F <= L /\ pCursor \in F..T
    BY LeaseBounds
<1>2. start = IF pCursor > L THEN F ELSE pCursor
    BY DEF Pool!Wrap
<1>3. \A x : Step(x) = LET y == IF x = T THEN T ELSE x + 1 IN IF y > L THEN F ELSE y
    BY DEF Pool!Wrap, Pool!SaturatingSucc
<1>4. walk = CHOOSE g : g = [n \in 0..T |-> IF n = 0 THEN start ELSE Step(g[n - 1])]
    BY DEF Pool!candidate
<1> HIDE DEF F, L, T, start, Step, walk
<1>5. start \in S
    BY <1>1, <1>2
<1>13. \A x \in S : Step(x) \in S
    BY <1>1, <1>3
<1>14. step \in [S -> S]
    BY <1>13
<1> HIDE DEF step
<1>6. PICK g : IsWalk(g, T, S, start, step)
    <2>1. T \in Nat
        BY <1>1
    <2> HIDE DEF S
    <2> QED BY <2>1, <1>5, <1>14, Walk
<1>7. g = [n \in 0..T |-> IF n = 0 THEN start ELSE Step(g[n - 1])]
    <2>1. \A n \in 0..T : n # 0 => n - 1 \in 0..T
        BY <1>1
    <2>2. \A n \in 0..T : n # 0 => step[g[n - 1]] = Step(g[n - 1])
        BY <2>1, <1>6 DEF step, IsWalk
    <2>3. \A n \in 0..T : g[n] = IF n = 0 THEN start ELSE Step(g[n - 1])
        BY <1>6, <2>2 DEF IsWalk
    <2> QED BY <2>3, <1>6 DEF IsWalk
<1>8. walk = [n \in 0..T |-> IF n = 0 THEN start ELSE Step(walk[n - 1])]
    BY <1>4, <1>7, Zenon
<1>9. \A n \in 0..T : walk[n] = IF n = 0 THEN start ELSE Step(walk[n - 1])
    BY <1>8
<1>10. \A n \in 0..T : walk[n] \in S
    <2> DEFINE W == {n \in 0..T : walk[n] \in S}
    <2>1. 0 \in W
        BY <1>1, <1>5, <1>9
    <2>2. ASSUME NEW n \in 0..T, n > 0, n - 1 \in W PROVE n \in W
        <3>1. walk[n - 1] \in S /\ walk[n] = Step(walk[n - 1])
            BY <2>2, <1>1, <1>9
        <3> QED BY <3>1, <1>13
    <2>3. 0..T \subseteq W
        <3> HIDE DEF W
        <3> QED BY <2>1, <2>2, <1>1, UpTo
    <2> QED BY <2>3
<1>11. ASSUME L < T, NEW a \in S PROVE \E n \in 0..(L - F) : walk[n] = a
    <2> DEFINE Place(n) == IF start + n <= L THEN start + n ELSE start + n - (L - F + 1)
               W == {n \in 0..(L - F) : walk[n] = Place(n)}
    <2>1. \A n \in 0..(L - F) : n \in 0..T /\ Place(n) \in S
        BY <1>1, <1>5
    <2>2. 0 \in W
        BY <1>1, <1>5, <1>9
    <2>3. ASSUME NEW n \in 0..(L - F), n > 0, n - 1 \in W PROVE n \in W
        <3>1. walk[n] = Step(walk[n - 1]) /\ walk[n - 1] = Place(n - 1)
            BY <2>3, <2>1, <1>9
        <3>2. Step(Place(n - 1)) = Place(n)
            <4>1. Place(n - 1) \in S /\ n - 1 \in 0..(L - F)
                BY <2>1, <2>3
            <4>2. \A x \in S : Step(x) = IF x + 1 > L THEN F ELSE x + 1
                BY <1>1, <1>3, <1>11
            <4>3. CASE start + n <= L
                BY <4>1, <4>2, <4>3, <1>1, <1>5
            <4>4. CASE start + n = L + 1
                <5>1. Place(n - 1) = L /\ Place(n) = F
                    BY <2>3, <4>4, <1>1, <1>5
                <5> QED BY <5>1, <4>1, <4>2, <1>1
            <4>5. CASE start + n > L + 1
                BY <4>1, <4>2, <4>5, <1>1, <1>5
            <4> QED BY <4>3, <4>4, <4>5, <1>1, <1>5
        <3> QED BY <3>1, <3>2
    <2>4. 0..(L - F) \subseteq W
        <3> HIDE DEF W
        <3>1. L - F \in Nat
            BY <1>1
        <3> QED BY <2>2, <2>3, <3>1, UpTo
    <2>5. CASE a >= start
        <3>1. a - start \in 0..(L - F) /\ Place(a - start) = a
            BY <2>5, <1>1, <1>5
        <3> QED BY <3>1, <2>4
    <2>6. CASE a < start
        <3>1. a - start + (L - F + 1) \in 0..(L - F) /\ Place(a - start + (L - F + 1)) = a
            BY <2>6, <1>1, <1>5
        <3> QED BY <3>1, <2>4
    <2> QED BY <2>5, <2>6, <1>1, <1>5
<1>12. (L - F + 1) - 1 = L - F
    BY <1>1
<1> QED BY <1>10, <1>11, <1>12 DEF F, L, T, walk

(* The prefix is one, the cursor lies past the proxy's address, and what   *)
(* is out lies between the first and the last address to lease.            *)
PoolRange ==
    /\ pPrefix \in Pool!Prefixes
    /\ pCursor \in Pool!FirstLease..Pool!Top
    /\ pLeased \subseteq Pool!FirstLease..Pool!LastLease

(* The search finds an address that is not out, and finds none only when   *)
(* all are out, where the cursor can come round.                           *)
LEMMA FreeIs ==
    ASSUME PoolRange
    PROVE  /\ \A a \in Pool!Free :
                a \in Pool!FirstLease..Pool!LastLease /\ a \notin pLeased
           /\ Pool!Free = {} =>
                \/ Pool!LastLease = Pool!Top
                \/ Pool!FirstLease..Pool!LastLease \subseteq pLeased
<1> DEFINE F == Pool!FirstLease
           L == Pool!LastLease
           T == Pool!Top
           walk == Pool!candidate
           hits == {n \in 0..((L - F + 1) - 1) : walk[n] \notin pLeased}
           least == CHOOSE n \in hits : \A m \in hits : n <= m
<1>1. F \in 0..T /\ L \in 0..T /\ T \in Nat
    BY LeaseBounds DEF PoolRange
<1>2. Pool!Free = IF hits = {} THEN {} ELSE {walk[least]}
    BY Zenon DEF Pool!Free
<1>3. F <= L => \A n \in 0..T : walk[n] \in F..L
    BY Candidates DEF PoolRange
<1>4. F <= L /\ L < T =>
        \A a \in F..L : \E n \in 0..((L - F + 1) - 1) : walk[n] = a
    BY Candidates DEF PoolRange
<1> HIDE DEF F, L, T, walk
<1>5. hits \in SUBSET Nat /\ hits \subseteq 0..T
    BY <1>1
<1>6. hits # {} => least \in hits
    <2> SUFFICES ASSUME hits # {} PROVE least \in hits
        OBVIOUS
    <2> HIDE DEF hits
    <2>1. \E n \in hits : \A m \in hits : n <= m
        BY <1>5, LeastNat
    <2> QED BY <2>1
<1>7. hits # {} => F <= L
    <2> SUFFICES ASSUME NEW n \in 0..((L - F + 1) - 1) PROVE F <= L
        OBVIOUS
    <2> QED BY <1>1
<1>8. ASSUME NEW a \in Pool!Free PROVE a \in F..L /\ a \notin pLeased
    <2>1. hits # {} /\ a = walk[least]
        BY <1>2
    <2>2. least \in hits /\ F <= L
        BY <2>1, <1>6, <1>7
    <2> HIDE DEF least
    <2> QED BY <2>1, <2>2, <1>3, <1>5
<1>9. ASSUME Pool!Free = {}, L # T PROVE F..L \subseteq pLeased
    <2>1. hits = {}
        BY <1>9, <1>2
    <2>2. CASE F <= L
        BY <2>1, <2>2, <1>1, <1>4, <1>9
    <2>3. CASE F > L
        BY <2>3, <1>1
    <2> QED BY <2>2, <2>3, <1>1
<1> QED BY <1>8, <1>9 DEF F, L, T

PoolStages == {"idle", "offered", "queued", "taken"}

PoolIInv ==
    /\ PoolRange
    /\ pSession \in [Clients -> [stage : PoolStages, address : Nat]]
    /\ Pool!LeasedOnce

(* No pool starts with anything out.                                       *)
LEMMA PoolInit == Pool!Init => PoolIInv
<1> SUFFICES ASSUME Pool!Init PROVE PoolIInv
    OBVIOUS
<1>1. PoolRange
    <2>1. Pool!FirstLease \in 0..Pool!Top /\ Pool!Top \in Nat
        BY LeaseBounds DEF Pool!Init
    <2> QED BY <2>1 DEF Pool!Init, PoolRange
<1>2. pSession \in [Clients -> [stage : PoolStages, address : Nat]]
    BY DEF Pool!Init, Pool!Idle, PoolStages
<1>3. Pool!Holding = {}
    BY DEF Pool!Init, Pool!Holding, Pool!Idle
<1>4. Pool!LeasedOnce
    BY <1>3 DEF Pool!LeasedOnce, Pool!Init
<1> QED BY <1>1, <1>2, <1>4 DEF PoolIInv

(* Where the prefix stays, so do the bounds.                               *)
LEMMA SameBounds ==
    ASSUME pPrefix' = pPrefix
    PROVE  /\ Pool!FirstLease' = Pool!FirstLease /\ Pool!LastLease' = Pool!LastLease
           /\ Pool!Top' = Pool!Top /\ Pool!Prefixes' = Pool!Prefixes
<1>1. Pool!Top' = Pool!Top
    BY DEF Pool!Top
<1> QED BY <1>1, Zenon DEF Pool!FirstLease, Pool!LastLease, Pool!UsableBounds,
                   Pool!SaturatingSucc, Pool!Prefixes, Pool!Bits

(* Dropping a session gives its address back.                              *)
LEMMA PoolRelease ==
    ASSUME PoolIInv, NEW c \in Clients, c \in Pool!Holding, Pool!Release(c)
    PROVE  PoolIInv'
<1> USE DEF PoolIInv
<1>1. PoolRange'
    BY SameBounds DEF PoolRange, Pool!Release
<1>2. pSession' \in [Clients -> [stage : PoolStages, address : Nat]]
    BY DEF Pool!Release, Pool!Idle, PoolStages
<1>3. Pool!Holding' = Pool!Holding \ {c}
    BY DEF Pool!Release, Pool!Idle, Pool!Holding
<1>4. \A d \in Pool!Holding' : pSession'[d] = pSession[d]
    BY <1>3 DEF Pool!Release, Pool!Holding
<1>5. Pool!LeasedOnce'
    <2>1. pLeased' = {pSession[d].address : d \in Pool!Holding'}
        BY <1>3 DEF Pool!LeasedOnce, Pool!Release
    <2> QED BY <1>3, <1>4, <2>1 DEF Pool!LeasedOnce
<1> QED BY <1>1, <1>2, <1>5

(* A lease is new, a queue moves no address, a drop returns one.           *)
LEMMA PoolStep ==
    ASSUME PoolIInv, Pool!Next
    PROVE  PoolIInv'
<1> USE DEF PoolIInv
<1>1. ASSUME NEW c \in Clients, Pool!Call(c) PROVE PoolIInv'
    <2>1. CASE UNCHANGED <<pCursor, pLeased, pSession>>
        <3>1. PoolRange' /\ pSession' = pSession
            BY <1>1, <2>1, SameBounds DEF PoolRange, Pool!Call
        <3>2. Pool!LeasedOnce'
            BY <2>1, Zenon DEF Pool!LeasedOnce, Pool!Holding
        <3> QED BY <3>1, <3>2
    <2>2. ASSUME NEW a \in Pool!Free,
                 pLeased' = pLeased \cup {a}, pCursor' = Pool!SaturatingSucc(a),
                 pSession' = [pSession EXCEPT ![c] = [stage |-> "offered", address |-> a]]
          PROVE  PoolIInv'
        <3>1. a \in Pool!FirstLease..Pool!LastLease /\ a \notin pLeased
            BY FreeIs
        <3>2. /\ Pool!FirstLease \in 0..Pool!Top /\ Pool!LastLease \in 0..Pool!Top
              /\ Pool!Top \in Nat
            BY LeaseBounds DEF PoolRange
        <3>3. PoolRange'
            BY <1>1, <2>2, <3>1, <3>2, SameBounds
            DEF PoolRange, Pool!Call, Pool!SaturatingSucc
        <3>4. pSession' \in [Clients -> [stage : PoolStages, address : Nat]]
            BY <2>2, <3>1, <3>2 DEF PoolStages
        <3>5. c \notin Pool!Holding /\ Pool!Holding' = Pool!Holding \cup {c}
            BY <1>1, <2>2 DEF Pool!Holding, Pool!Call
        <3>6. pSession'[c].address = a /\ \A d \in Pool!Holding : pSession'[d] = pSession[d]
            BY <2>2, <3>5 DEF Pool!Holding
        <3>7. Pool!LeasedOnce'
            BY <2>2, <3>1, <3>5, <3>6 DEF Pool!LeasedOnce
        <3> QED BY <3>3, <3>4, <3>7
    <2> QED BY <1>1, <2>1, <2>2 DEF Pool!Call
<1>2. ASSUME NEW c \in Clients, Pool!Accept(c) \/ Pool!Take(c) PROVE PoolIInv'
    <2>1. PoolRange'
        BY <1>2, SameBounds DEF PoolRange, Pool!Accept, Pool!Take
    <2>2. pSession' \in [Clients -> [stage : PoolStages, address : Nat]]
        BY <1>2 DEF Pool!Accept, Pool!Take, PoolStages
    <2>3. Pool!Holding' = Pool!Holding
        BY <1>2 DEF Pool!Holding, Pool!Accept, Pool!Take
    <2>4. \A d \in Clients : pSession'[d].address = pSession[d].address
        BY <1>2 DEF Pool!Accept, Pool!Take
    <2>5. Pool!LeasedOnce'
        BY <1>2, <2>3, <2>4 DEF Pool!LeasedOnce, Pool!Holding, Pool!Accept, Pool!Take
    <2> QED BY <2>1, <2>2, <2>5
<1>3. ASSUME NEW c \in Clients, Pool!GiveUp(c) \/ Pool!DropSession(c) PROVE PoolIInv'
    BY <1>3, PoolRelease DEF Pool!GiveUp, Pool!DropSession, Pool!Holding
<1>4. ASSUME Pool!Detach PROVE PoolIInv'
    <2>1. PoolRange'
        BY <1>4, SameBounds DEF PoolRange, Pool!Detach
    <2>2. pSession' \in [Clients -> [stage : PoolStages, address : Nat]]
        BY <1>4 DEF Pool!Detach, Pool!Idle, PoolStages
    <2>3. Pool!Holding' = Pool!Holding \ Pool!Queued /\ Pool!Queued \subseteq Pool!Holding
        BY <1>4 DEF Pool!Holding, Pool!Queued, Pool!Detach, Pool!Idle
    <2>4. \A d \in Pool!Holding' : pSession'[d] = pSession[d]
        BY <1>4, <2>3 DEF Pool!Holding, Pool!Detach
    <2>5. pLeased' = {pSession[d].address : d \in Pool!Holding'}
        BY <1>4, <2>3 DEF Pool!LeasedOnce, Pool!Detach
    <2>6. Pool!LeasedOnce'
        BY <2>3, <2>4, <2>5 DEF Pool!LeasedOnce
    <2> QED BY <2>1, <2>2, <2>6
<1> QED BY <1>1, <1>2, <1>3, <1>4 DEF Pool!Next

(* IpAddressPool::lease and IpLease::drop, for every width of address and  *)
(* every prefix, whatever tunnels come, are given up or are dropped: an    *)
(* address is out exactly while one live session holds it, it is one a     *)
(* client may have, and a tunnel is refused only when none is left (or the *)
(* range ends at the last integer).                                        *)
THEOREM PoolSound == MCSpec => []PoolInv
<1>1. MCInit => PoolIInv
    BY PoolInit DEF MCInit
<1>2. PoolIInv /\ [MCNext]_allVars => PoolIInv'
    <2> SUFFICES ASSUME PoolIInv, [MCNext]_allVars PROVE PoolIInv'
        OBVIOUS
    <2>1. CASE OnLeasing(Pool!Next)
        BY <2>1, PoolStep DEF OnLeasing
    <2>2. CASE UNCHANGED poolVars
        <3>1. PoolRange' /\ pSession' = pSession
            BY <2>2, SameBounds DEF PoolIInv, PoolRange, poolVars
        <3>2. Pool!LeasedOnce'
            BY <2>2, Zenon DEF PoolIInv, Pool!LeasedOnce, Pool!Holding, poolVars
        <3> QED BY <3>1, <3>2 DEF PoolIInv
    <2> QED BY <2>1, <2>2 DEF MCNext, OnPacing, OnAdmission, allVars
<1>3. PoolIInv => PoolInv
    <2> SUFFICES ASSUME PoolIInv PROVE PoolInv
        OBVIOUS
    <2>1. PoolRange /\ Pool!LeasedOnce
        BY DEF PoolIInv
    <2>2. Pool!OnlyLeasable
        BY <2>1, LeaseBounds DEF PoolRange, Pool!OnlyLeasable
    <2>3. Pool!RefusesOnlyWhenFull
        BY <2>1, FreeIs, LeaseBounds DEF PoolRange, Pool!RefusesOnlyWhenFull
    <2> QED BY <2>1, <2>2, <2>3 DEF PoolInv
<1> QED BY <1>1, <1>2, <1>3, PTL DEF MCSpec
=============================================================================
