----------------------------- MODULE CpuSampler -----------------------------
(***************************************************************************)
(* ui/detail/CpuSampler.hpp: CPU percentages from the cumulative counters  *)
(* of two successive snapshots.                                            *)
(*                                                                         *)
(* A round is beginRound, one update per entity and endRound, all inside   *)
(* one handler, so current_, roundTime_ and elapsed100ns_ never outlive a  *)
(* round and the sampler between two rounds is the baseline alone.  The    *)
(* percentage, a double in the code, is rounded down to an integer.        *)
(***************************************************************************)
EXTENDS Integers

CONSTANTS
  ProcessorCount,  \* as passed by the caller; 0 is accepted
  Quantum,         \* clock units per CPU-time unit (100 ns / 1 ns in the code)
  None             \* an empty std::optional

ASSUME SamplerAssumption ==
  /\ ProcessorCount \in Nat
  /\ Quantum \in Nat \ {0}
  /\ None \notin Int

processorCount == IF ProcessorCount > 0 THEN ProcessorCount ELSE 1

\* The sampler at construction and after reset().
FreshSampler == [previous |-> [id \in {} |-> 0], previousTime |-> None]

\* beginRound: CPU-time units since the baseline, 0 when nothing can be
\* measured (no baseline, or a clock that stood still or went back).
Elapsed(s, now) ==
  IF s.previousTime = None THEN 0
  ELSE IF now > s.previousTime THEN (now - s.previousTime) \div Quantum ELSE 0

Unmeasured == [measured |-> FALSE, percent |-> 0]

PercentUnclamped(cpuDelta, elapsed) == (100 * cpuDelta) \div (elapsed * processorCount)

Percent(cpuDelta, elapsed) ==
  LET ratio == PercentUnclamped(cpuDelta, elapsed) IN IF ratio > 100 THEN 100 ELSE ratio

\* update() without the comparison of creation times.
UsageAnyInstance(s, elapsed, id, cpu, createTime) ==
  IF /\ elapsed # 0
     /\ id \in DOMAIN s.previous
     /\ s.previous[id].cpu <= cpu
  THEN [measured |-> TRUE, percent |-> Percent(cpu - s.previous[id].cpu, elapsed)]
  ELSE Unmeasured

\* update(): measured only against a baseline sample of the same instance.
Usage(s, elapsed, id, cpu, createTime) ==
  IF /\ elapsed # 0
     /\ id \in DOMAIN s.previous
     /\ s.previous[id].createTime = createTime
     /\ s.previous[id].cpu <= cpu
  THEN [measured |-> TRUE, percent |-> Percent(cpu - s.previous[id].cpu, elapsed)]
  ELSE Unmeasured

\* endRound: this round's samples become the baseline.
EndRound(snapshot, now) ==
  [previous     |-> [id \in DOMAIN snapshot |->
                       [cpu |-> snapshot[id].cpu, createTime |-> snapshot[id].createTime]],
   previousTime |-> now]

SamplerTypeOK(s, ids) ==
  /\ DOMAIN s.previous \subseteq ids
  /\ \A id \in DOMAIN s.previous : s.previous[id] \in [cpu : Nat, createTime : Nat]
  /\ s.previousTime \in Nat \cup {None}

=============================================================================
