------------------------- MODULE CpuSampler_proofs -------------------------
(***************************************************************************)
(* Facts about the operators of CpuSampler, for every baseline, clock,     *)
(* counter and quantum.                                                    *)
(***************************************************************************)
EXTENDS CpuSampler, TLAPS

LEMMA QuotientIsNat ==
  ASSUME NEW a \in Nat, NEW b \in Nat, b > 0 PROVE a \div b \in Nat
OBVIOUS

LEMMA ProcessorsPositive == processorCount \in Nat /\ processorCount > 0
BY SamplerAssumption DEF processorCount

LEMMA ElapsedType ==
  ASSUME NEW s, s.previousTime \in Nat \cup {None}, NEW now \in Nat
  PROVE  Elapsed(s, now) \in Nat
<1>1. CASE s.previousTime # None /\ now > s.previousTime
  <2>1. now - s.previousTime \in Nat /\ Quantum \in Nat /\ Quantum > 0
    BY <1>1, SamplerAssumption
  <2> QED
    BY <1>1, <2>1, QuotientIsNat DEF Elapsed
<1>2. CASE ~(s.previousTime # None /\ now > s.previousTime)
  BY <1>2 DEF Elapsed
<1> QED
  BY <1>1, <1>2

\* A share is a percentage whatever the counters and the interval were.
LEMMA UsageType ==
  ASSUME NEW ids, NEW s, SamplerTypeOK(s, ids), NEW elapsed \in Nat, NEW id,
         NEW cpu \in Nat, NEW createTime \in Nat
  PROVE  Usage(s, elapsed, id, cpu, createTime) \in [measured : BOOLEAN, percent : 0 .. 100]
<1>1. CASE Usage(s, elapsed, id, cpu, createTime) = Unmeasured
  BY <1>1 DEF Unmeasured
<1>2. CASE Usage(s, elapsed, id, cpu, createTime) # Unmeasured
  <2> DEFINE used == cpu - s.previous[id].cpu
  <2>1. /\ elapsed # 0 /\ used \in Nat
        /\ Usage(s, elapsed, id, cpu, createTime) = [measured |-> TRUE, percent |-> Percent(used, elapsed)]
    BY <1>2 DEF Usage, SamplerTypeOK
  <2>2. elapsed * processorCount \in Nat /\ elapsed * processorCount > 0
    BY <2>1, ProcessorsPositive
  <2>3. 100 * used \in Nat
    BY <2>1
  <2>4. PercentUnclamped(used, elapsed) \in Nat
    BY <2>2, <2>3, QuotientIsNat DEF PercentUnclamped
  <2>5. Percent(used, elapsed) \in 0 .. 100
    BY <2>4 DEF Percent
  <2> QED
    BY <2>1, <2>5
<1> QED
  BY <1>1, <1>2

LEMMA QuotientOfNegative ==
  ASSUME NEW a \in Int, NEW b \in Nat, b > 0, a <= 0 PROVE a \div b <= 0
OBVIOUS

\* Time elapsed as Elapsed has it, and as the difference of two instants.
LEMMA ElapsedIsDifference ==
  ASSUME NEW s, s.previousTime \in Nat \cup {None}, NEW now \in Nat,
         NEW difference,
         difference = IF s.previousTime = None THEN 0 ELSE (now - s.previousTime) \div Quantum
  PROVE  Elapsed(s, now) = IF difference > 0 THEN difference ELSE 0
<1>1. CASE s.previousTime = None
  BY <1>1 DEF Elapsed
<1>2. CASE s.previousTime # None
  <2> DEFINE d == now - s.previousTime
  <2>1. d \in Int /\ Quantum \in Nat /\ Quantum > 0 /\ difference = d \div Quantum
        /\ (now > s.previousTime <=> d > 0)
    BY <1>2, SamplerAssumption
  <2>2. Elapsed(s, now) = IF d > 0 THEN difference ELSE 0
    BY <1>2, <2>1 DEF Elapsed
  <2> HIDE DEF d
  <2>3. CASE d > 0
    <3>1. difference \in Nat
      BY <2>1, <2>3, QuotientIsNat
    <3> QED
      BY <2>2, <2>3, <3>1
  <2>4. CASE ~(d > 0)
    <3>1. difference <= 0 /\ difference \in Int
      BY <2>1, <2>4, QuotientOfNegative
    <3> QED
      BY <2>2, <2>4, <3>1
  <2> QED
    BY <2>3, <2>4
<1> QED
  BY <1>1, <1>2

=============================================================================
