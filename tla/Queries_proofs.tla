--------------------------- MODULE Queries_proofs ---------------------------
(***************************************************************************)
(* Proofs about the queries of ntapi and core: QueryBuffer, the loop that  *)
(* asks; SnapshotWalk and TableWalks, the walks through the answers; and   *)
(* Inspection, the calls that look into one process, with ModuleSnapshot.  *)
(*                                                                         *)
(* QueryBuffer: for every first guess, attempt limit and width of the      *)
(* length type.  What makes the headroom work is SizeInv: between two      *)
(* asks, the next length is the reported one and half of it again.  Giving *)
(* up is about powers of 3/2: GrowthInv has one of them per attempt.       *)
(*                                                                         *)
(* SnapshotWalk: for every buffer size, every content and every width that *)
(* satisfies the assumptions.  Nothing wraps (NoWrap), so the tests of the *)
(* code mean what they say.                                                *)
(*                                                                         *)
(* TableWalks: for tables of any length and records of any size.  Where    *)
(* records begin is known from what Begins satisfies (Layout), and that    *)
(* the walk is where a record begins (PlaceInv), so it reads no other      *)
(* bytes.                                                                  *)
(*                                                                         *)
(* ModuleSnapshot: for every set of bases and any number of modules.  An   *)
(* array that was sized for fewer modules still holds those that stayed    *)
(* (InArray), as modules that unload only move them to its front.          *)
(*                                                                         *)
(* Inspection: for every set of ids and any number of processes.  The      *)
(* lists of steps have in common what OpeningsAreSound, FillingsAreSound,  *)
(* OrderIsSound and OneSource state; nothing else is known of them, nor of *)
(* who holds an id but that whoever is held keeps it (HeldInv).            *)
(***************************************************************************)
EXTENDS TableWalks, QueryBuffer, Inspection, TLAPS, WellFoundedInduction, FiniteSetTheorems

-----------------------------------------------------------------------------
(* Induction over numbers, and functions that are defined by it.           *)

\* The order of the natural numbers as a relation.
Less == {p \in Nat \X Nat : p[1] < p[2]}

LEMMA LessIsWellFounded == IsWellFoundedOn(Less, Nat)
BY NatLessThanWellFounded, Zenon DEF OpToRel, Less

\* Induction without an operator for the hypothesis: a set of numbers has a
\* smallest one.
LEMMA Smallest ==
  ASSUME NEW T, T \subseteq Nat, T # {}
  PROVE  \E x \in T : \A y \in T : x <= y
<1>1. PICK x \in T : \A y \in T : ~(<<y, x>> \in Less)
  BY LessIsWellFounded, WFMin, Zenon
<1>2. \A y \in T : ~(y < x)
  BY <1>1 DEF Less
<1> QED
  BY <1>2

\* A set of numbers that has 0 and the next one of each up to n.
LEMMA UpTo ==
  ASSUME NEW n \in Nat, NEW S, 0 \in S, \A i \in 0 .. n - 1 : i \in S => i + 1 \in S
  PROVE  \A i \in 0 .. n : i \in S
<1> DEFINE T == {i \in 0 .. n : i \notin S}
<1> SUFFICES ASSUME T # {} PROVE FALSE
  OBVIOUS
<1>1. T \subseteq Nat
  OBVIOUS
<1>2. PICK x \in T : \A y \in T : x <= y
  BY <1>1, Smallest
<1>3. x # 0 /\ x - 1 \in 0 .. n - 1 /\ x - 1 \notin T
  BY <1>2
<1> QED
  BY <1>2, <1>3

\* f goes from a, by the steps g, n times.
Iterates(n, D, a, g, f) ==
  f \in [0 .. n -> D] /\ f[0] = a /\ \A i \in 1 .. n : f[i] = g[i][f[i - 1]]

\* A function that is defined step by step exists.
LEMMA StepByStep ==
  ASSUME NEW n \in Nat, NEW D, NEW a \in D, NEW g \in [1 .. n -> [D -> D]]
  PROVE  \E f : Iterates(n, D, a, g, f)
<1> DEFINE S == {m \in 0 .. n : \E f : Iterates(m, D, a, g, f)}
<1>1. 0 \in S
  <2>1. Iterates(0, D, a, g, [i \in 0 .. 0 |-> a])
    BY DEF Iterates
  <2>2. 0 \in 0 .. n
    OBVIOUS
  <2> QED
    BY <2>1, <2>2
<1>2. ASSUME NEW m \in 0 .. n - 1, m \in S PROVE m + 1 \in S
  <2>1. PICK f : Iterates(m, D, a, g, f)
    BY <1>2
  <2>2. f \in [0 .. m -> D] /\ f[0] = a /\ \A i \in 1 .. m : f[i] = g[i][f[i - 1]]
    BY <2>1 DEF Iterates
  <2> DEFINE h == [i \in 0 .. m + 1 |-> IF i = m + 1 THEN g[m + 1][f[m]] ELSE f[i]]
  <2>3. f[m] \in D /\ m + 1 \in 1 .. n /\ m \in 0 .. m /\ m + 1 \in Nat /\ m + 1 \in 0 .. n
    BY <2>2
  <2>4. g[m + 1] \in [D -> D]
    BY <2>3
  <2>5. g[m + 1][f[m]] \in D
    BY <2>3, <2>4
  <2>6. h \in [0 .. m + 1 -> D]
    BY <2>2, <2>3, <2>5
  <2>7. h[0] = a
    BY <2>2
  <2>8. ASSUME NEW i \in 1 .. m + 1 PROVE h[i] = g[i][h[i - 1]]
    <3>1. CASE i = m + 1
      BY <3>1
    <3>2. CASE i # m + 1
      BY <2>2, <3>2
    <3> QED
      BY <3>1, <3>2
  <2>9. Iterates(m + 1, D, a, g, h)
    BY <2>6, <2>7, <2>8 DEF Iterates
  <2> HIDE DEF h
  <2> QED
    BY <2>3, <2>9
<1> HIDE DEF S
<1>3. n \in S
  BY <1>1, <1>2, UpTo, n \in 0 .. n
<1> QED
  BY <1>3 DEF S

-----------------------------------------------------------------------------
(* QueryBuffer.                                                            *)

\* After an ask that was too small, the next length has the headroom.
SizeInv ==
  LET withHeadroom == lastAsk.reported + lastAsk.reported \div 2 IN
  (/\ result = "pending"
   /\ lastAsk.reported > lastAsk.size
   /\ withHeadroom < Modulus) => size = withHeadroom

\* A loop that has not ended has an attempt left.
AttemptInv == result = "pending" => attempt < MaxAttempts

\* After n attempts the size is at least (3/2)^n times the first guess.
GrowthInv ==
  result = "pending" /\ ~wrapped =>
    size * Power(2)[attempt] >= InitialSize * Power(3)[attempt]

\* The inductive invariant of the loop.
QueryInv ==
  QueryTypeOK /\ SizeInv /\ AttemptInv /\ AnswerIsComplete /\ GrowthInv /\ GivesUpOnlyIfOutgrown

\* A length type wraps only what it cannot hold.
LEMMA WrappedLength ==
  ASSUME NEW n \in Nat
  PROVE  n % Modulus \in 0 .. Modulus - 1 /\ (n < Modulus => n % Modulus = n)
BY QueryAssumption

LEMMA NextSizeType ==
  ASSUME QueryTypeOK, NEW reported \in 0 .. MaxNeed
  PROVE  /\ NextSize(reported) \in 0 .. Modulus - 1
         /\ (reported > size /\ reported + reported \div 2 < Modulus
               => NextSize(reported) = reported + reported \div 2)
<1>1. /\ size \in Nat /\ reported \in Nat
      /\ reported + reported \div 2 \in Nat /\ size * 2 \in Nat
  BY QueryAssumption DEF QueryTypeOK
<1> QED
  BY <1>1, WrappedLength DEF NextSize, Wanted

\* A power is one more factor than the power before it.
LEMMA PowerUnfolds ==
  ASSUME NEW b \in Nat \ {0}
  PROVE  /\ Power(b) \in [0 .. MaxAttempts -> Nat \ {0}]
         /\ Power(b)[0] = 1
         /\ \A n \in 0 .. MaxAttempts - 1 : Power(b)[n + 1] = b * Power(b)[n]
<1> DEFINE D == Nat \ {0}
           Rec(p) == [n \in 0 .. MaxAttempts |-> IF n = 0 THEN 1 ELSE b * p[n - 1]]
           g == [n \in 1 .. MaxAttempts |-> [x \in D |-> b * x]]
<1>1. MaxAttempts \in Nat \ {0}
  BY QueryAssumption
<1>2. \A x \in D : b * x \in D
  OBVIOUS
<1>3. /\ g \in [1 .. MaxAttempts -> [D -> D]]
      /\ \A n \in 1 .. MaxAttempts : \A x \in D : g[n][x] = b * x
  BY <1>2
<1> HIDE DEF g
<1>4. PICK f : Iterates(MaxAttempts, D, 1, g, f)
  BY <1>1, <1>3, StepByStep, 1 \in D
<1> HIDE DEF D
<1>5. f \in [0 .. MaxAttempts -> D] /\ f[0] = 1 /\ \A n \in 1 .. MaxAttempts : f[n] = g[n][f[n - 1]]
  BY <1>4 DEF Iterates
<1>6. ASSUME NEW n \in 1 .. MaxAttempts PROVE f[n] = b * f[n - 1]
  <2>1. n - 1 \in 0 .. MaxAttempts
    BY <1>1
  <2> QED
    BY <1>3, <1>5, <2>1
<1>7. f = Rec(f)
  BY <1>1, <1>5, <1>6
<1>8. Power(b) = CHOOSE p : p = Rec(p)
  BY DEF Power
<1>9. Power(b) = Rec(Power(b))
  BY <1>7, <1>8
<1> DEFINE P == Power(b)
<1>10. /\ DOMAIN P = 0 .. MaxAttempts /\ P[0] = 1
       /\ \A n \in 1 .. MaxAttempts : P[n] = b * P[n - 1]
  BY <1>1, <1>9
<1>11. ASSUME NEW n \in 0 .. MaxAttempts - 1 PROVE P[n + 1] = b * P[n]
  <2>1. n + 1 \in 1 .. MaxAttempts /\ (n + 1) - 1 = n
    BY <1>1
  <2> HIDE DEF P
  <2> QED
    BY <1>10, <2>1
<1>12. ASSUME NEW n \in 0 .. MaxAttempts PROVE P[n] \in D
  <2> DEFINE S == {m \in Nat : P[m] \in D}
  <2> HIDE DEF P
  <2>1. 0 \in S
    BY <1>10 DEF D
  <2>2. ASSUME NEW m \in 0 .. MaxAttempts - 1, m \in S PROVE m + 1 \in S
    <3>1. P[m] \in D /\ P[m + 1] = b * P[m] /\ m + 1 \in Nat
      BY <1>1, <1>11, <2>2
    <3> QED
      BY <1>2, <3>1
  <2> HIDE DEF S
  <2>3. n \in S
    BY <1>1, <2>1, <2>2, UpTo
  <2> QED
    BY <2>3 DEF S
<1>13. P \in [0 .. MaxAttempts -> D]
  <2> DEFINE R == [n \in 0 .. MaxAttempts |-> IF n = 0 THEN 1 ELSE b * P[n - 1]]
  <2>1. P = [n \in 0 .. MaxAttempts |-> P[n]]
    <3>1. P = R
      BY <1>9
    <3> HIDE DEF P
    <3> QED
      BY <1>10, <3>1
  <2> HIDE DEF P
  <2> QED
    BY <1>12, <2>1
<1> QED
  BY <1>10, <1>11, <1>13 DEF D

\* Equal factors keep an order.
LEMMA Times ==
  ASSUME NEW a \in Nat, NEW b \in Nat, NEW c \in Nat, a <= b
  PROVE  a * c <= b * c /\ c * a <= c * b /\ (a < b /\ c > 0 => a * c < b * c)
<1>1. PICK d \in Nat : b = a + d
  BY b - a \in Nat, b = a + (b - a)
<1>2. b * c = a * c + d * c /\ a * c \in Nat /\ d * c \in Nat /\ c * a = a * c /\ c * b = b * c
  BY <1>1
<1>3. d # 0 /\ c # 0 => d * c > 0
  OBVIOUS
<1> QED
  BY <1>1, <1>2, <1>3

\* One attempt: twice the power of 2, thrice that of 3, and half as much again.
LEMMA OneAttempt ==
  ASSUME NEW s \in Nat, NEW t \in Nat, NEW p \in Nat, NEW q \in Nat, NEW i \in Nat,
         2 * t >= 3 * s, s * p >= i * q
  PROVE  t * (2 * p) >= i * (3 * q)
<1>1. (3 * s) * p <= (2 * t) * p
  BY Times, 3 * s \in Nat, 2 * t \in Nat
<1>2. 3 * (i * q) <= 3 * (s * p)
  BY Times, i * q \in Nat, s * p \in Nat
<1>3. (3 * s) * p = 3 * (s * p) /\ (2 * t) * p = t * (2 * p) /\ i * (3 * q) = 3 * (i * q)
  OBVIOUS
<1>4. /\ 3 * (i * q) \in Nat /\ 3 * (s * p) \in Nat /\ (3 * s) * p \in Nat
      /\ (2 * t) * p \in Nat
  OBVIOUS
<1> QED
  BY <1>1, <1>2, <1>3, <1>4

\* What is wanted is at least half as much again as was asked for.
LEMMA WantedGrows ==
  ASSUME QueryTypeOK, NEW reported \in 0 .. MaxNeed
  PROVE  Wanted(reported) \in Nat /\ 2 * Wanted(reported) >= 3 * size
<1>1. size \in Nat /\ reported \in Nat
  BY QueryAssumption DEF QueryTypeOK
<1> QED
  BY <1>1 DEF Wanted

\* A try that was too small multiplies the bound on the size.
LEMMA GrowthStep ==
  ASSUME QueryTypeOK, AttemptInv, GrowthInv, NEW reported \in 0 .. MaxNeed, TooSmall(reported)
  PROVE  GrowthInv' /\ GivesUpOnlyIfOutgrown'
<1>1. /\ result = "pending" /\ need > size /\ attempt < MaxAttempts /\ attempt \in Nat
      /\ MaxAttempts \in Nat \ {0} /\ size \in Nat /\ need \in Nat /\ InitialSize \in Nat
      /\ reported \in Nat
  BY QueryAssumption DEF QueryTypeOK, AttemptInv, TooSmall
<1>2. /\ size' = NextSize(reported) /\ attempt' = attempt + 1 /\ need' = need
      /\ result' = IF attempt + 1 < MaxAttempts THEN "pending" ELSE "no_convergence"
      /\ wrapped' = (wrapped \/ Wanted(reported) >= Modulus)
  BY DEF TooSmall
<1> DEFINE two == Power(2)
           three == Power(3)
<1>3. /\ two \in [0 .. MaxAttempts -> Nat \ {0}] /\ three \in [0 .. MaxAttempts -> Nat \ {0}]
      /\ two[attempt + 1] = 2 * two[attempt] /\ three[attempt + 1] = 3 * three[attempt]
  <2>1. attempt \in 0 .. MaxAttempts - 1
    BY <1>1
  <2> QED
    BY <2>1, PowerUnfolds, 2 \in Nat \ {0}, 3 \in Nat \ {0}
<1>4. attempt \in 0 .. MaxAttempts
  BY <1>1
<1>5. two[attempt] \in Nat /\ two[attempt] > 0 /\ three[attempt] \in Nat
  <2> HIDE DEF two, three
  <2>1. two[attempt] \in Nat \ {0} /\ three[attempt] \in Nat \ {0}
    BY <1>3, <1>4
  <2> QED
    BY <2>1
<1>6. ~wrapped => size * two[attempt] >= InitialSize * three[attempt]
  BY <1>1 DEF GrowthInv
<1> HIDE DEF two, three
<1>7. GrowthInv'
  <2> SUFFICES ASSUME ~wrapped', result' = "pending"
               PROVE  size' * two[attempt + 1] >= InitialSize * three[attempt + 1]
    BY <1>2 DEF GrowthInv, two, three
  <2>1. Wanted(reported) \in Nat /\ 2 * Wanted(reported) >= 3 * size
    BY WantedGrows
  <2>2. ~wrapped /\ Wanted(reported) < Modulus
    <3>1. ~wrapped /\ ~(Wanted(reported) >= Modulus)
      BY <1>2, Zenon
    <3> QED
      BY <2>1, <3>1, QueryAssumption
  <2>3. size' = Wanted(reported)
    BY <1>2, <2>1, <2>2, WrappedLength DEF NextSize
  <2>4. size' * (2 * two[attempt]) >= InitialSize * (3 * three[attempt])
    BY <1>1, <1>5, <1>6, <2>1, <2>2, <2>3, OneAttempt
  <2> QED
    BY <1>3, <2>4
<1>8. GivesUpOnlyIfOutgrown'
  <2> SUFFICES ASSUME ~wrapped', result' = "no_convergence"
               PROVE  need * two[MaxAttempts - 1] > InitialSize * three[MaxAttempts - 1]
    BY <1>2 DEF GivesUpOnlyIfOutgrown, two, three
  <2>1. ~wrapped /\ attempt = MaxAttempts - 1
    <3>1. ~wrapped
      BY <1>2, Zenon
    <3>2. ~(attempt + 1 < MaxAttempts)
      BY <1>2
    <3> QED
      BY <1>1, <3>1, <3>2
  <2>2. size * two[attempt] < need * two[attempt]
    BY <1>1, <1>5, Times
  <2>3. /\ size * two[attempt] \in Nat /\ need * two[attempt] \in Nat
        /\ InitialSize * three[attempt] \in Nat
    BY <1>1, <1>5
  <2>4. InitialSize * three[attempt] < need * two[attempt]
    BY <1>6, <2>1, <2>2, <2>3
  <2> QED
    BY <2>1, <2>4
<1> QED
  BY <1>7, <1>8

LEMMA QueryStep == ASSUME QueryInv, [QueryNext]_queryVars PROVE QueryInv'
<1> USE QueryAssumption DEF QueryInv
<1>1. CASE KernelChanges
  <2>1. QueryTypeOK'
    BY <1>1 DEF KernelChanges, loopVars, QueryTypeOK
  <2> QED
    BY <1>1, <2>1 DEF KernelChanges, loopVars, SizeInv, AttemptInv, AnswerIsComplete, GrowthInv,
         GivesUpOnlyIfOutgrown
<1>2. CASE AskFails
  <2>1. QueryTypeOK'
    BY <1>2 DEF AskFails, QueryTypeOK
  <2> QED
    BY <1>2, <2>1 DEF AskFails, SizeInv, AttemptInv, AnswerIsComplete, GrowthInv,
         GivesUpOnlyIfOutgrown
<1>3. ASSUME NEW reported \in 0 .. MaxNeed, AnswerFits(reported) PROVE QueryInv'
  <2>1. /\ result' = "ok" /\ UNCHANGED <<need, size, attempt, wrapped>>
        /\ need <= size /\ reported \in {0, need}
        /\ buffer' = [length |-> Shrunk(reported), written |-> need]
        /\ lastAsk' = [size |-> size, reported |-> reported]
    BY <1>3 DEF AnswerFits
  <2>2. need \in Nat /\ size \in Nat /\ reported \in Nat
    BY DEF QueryTypeOK
  <2>3. Shrunk(reported) \in Nat /\ need <= Shrunk(reported) /\ Shrunk(reported) <= size
        /\ (reported > 0 => Shrunk(reported) = need)
    BY <2>1, <2>2 DEF Shrunk
  <2>4. QueryTypeOK'
    BY <2>1, <2>2, <2>3 DEF QueryTypeOK
  <2>5. AnswerIsComplete'
    BY <2>1, <2>3 DEF AnswerIsComplete
  <2> QED
    BY <2>1, <2>4, <2>5 DEF SizeInv, AttemptInv, GrowthInv, GivesUpOnlyIfOutgrown
<1>4. ASSUME NEW reported \in 0 .. MaxNeed, TooSmall(reported) PROVE QueryInv'
  <2>1. /\ size' = NextSize(reported) /\ attempt' = attempt + 1
        /\ result' = IF attempt + 1 < MaxAttempts THEN "pending" ELSE "no_convergence"
        /\ lastAsk' = [size |-> size, reported |-> reported]
        /\ wrapped' = (wrapped \/ Wanted(reported) >= Modulus)
        /\ UNCHANGED <<need, buffer>>
        /\ attempt < MaxAttempts
    BY <1>4 DEF TooSmall, AttemptInv
  <2>2. attempt \in Nat /\ size \in Nat /\ reported \in Nat
    BY DEF QueryTypeOK
  <2>3. wrapped' \in BOOLEAN
    BY <2>1 DEF QueryTypeOK
  <2>4. QueryTypeOK'
    BY <2>1, <2>2, <2>3, NextSizeType DEF QueryTypeOK
  <2>5. SizeInv'
    BY <2>1, NextSizeType DEF SizeInv
  <2>6. AttemptInv' /\ AnswerIsComplete'
    BY <2>1 DEF AttemptInv, AnswerIsComplete
  <2>7. GrowthInv' /\ GivesUpOnlyIfOutgrown'
    BY <1>4, GrowthStep
  <2> QED
    BY <2>4, <2>5, <2>6, <2>7
<1>5. CASE UNCHANGED queryVars
  BY <1>5 DEF queryVars, loopVars, QueryTypeOK, SizeInv, AttemptInv, AnswerIsComplete,
     GrowthInv,
         GivesUpOnlyIfOutgrown
<1> QED
  BY <1>1, <1>2, <1>3, <1>4, <1>5 DEF QueryNext, Invoke

\* QueryBuffer.hpp: the loop keeps its types, its headroom and its attempts.
THEOREM QueryInvariance == QuerySpec => []QueryInv
<1>1. QueryInit => QueryInv
  <2> SUFFICES ASSUME QueryInit PROVE QueryInv
    OBVIOUS
  <2>1. wrapped \in BOOLEAN
    BY DEF QueryInit
  <2>2. QueryTypeOK
    BY <2>1, QueryAssumption DEF QueryInit, QueryTypeOK
  <2>3. GrowthInv
    <3>1. Power(2)[0] = 1 /\ Power(3)[0] = 1
      BY PowerUnfolds, 2 \in Nat \ {0}, 3 \in Nat \ {0}
    <3>2. attempt = 0 /\ size = InitialSize /\ InitialSize \in Nat
      BY QueryAssumption DEF QueryInit
    <3> QED
      BY <3>1, <3>2 DEF GrowthInv
  <2> QED
    BY <2>2, <2>3, QueryAssumption
       DEF QueryInit, QueryInv, SizeInv, AttemptInv, AnswerIsComplete, GivesUpOnlyIfOutgrown
<1>2. QueryInv /\ [QueryNext]_queryVars => QueryInv'
  BY QueryStep
<1> QED
  BY <1>1, <1>2, PTL DEF QuerySpec

\* A successful query never returns a truncated answer, whatever the kernel
\* needed on the asks before it and however the length type wraps.
THEOREM AnswersAreComplete == QuerySpec => []AnswerIsComplete
BY QueryInvariance, PTL DEF QueryInv

\* The headroom of the loop absorbs any growth up to half of what was reported.
THEOREM GrowthIsAbsorbed == QuerySpec => []HeadroomAbsorbsGrowth
<1>1. QueryInv => HeadroomAbsorbsGrowth
  BY DEF QueryInv, SizeInv, HeadroomAbsorbsGrowth
<1> QED
  BY <1>1, QueryInvariance, PTL

\* The loop gives up only on an answer that outgrew (3/2)^(MaxAttempts - 1)
\* times the first guess, however it grew, if the length type held every size.
THEOREM GivingUpMeansOutgrown == QuerySpec => []GivesUpOnlyIfOutgrown
BY QueryInvariance, PTL DEF QueryInv

-----------------------------------------------------------------------------
(* SnapshotWalk.                                                           *)

\* The ranges of what the walk adds up.
LEMMA WalkTypes ==
  ASSUME TypeOK, NEW r \in Record
  PROVE  /\ total \in 0 .. UlongModulus - 1 /\ offset \in 0 .. UlongModulus - 1
         /\ r.next \in 0 .. UlongModulus - 1 /\ r.threads \in 0 .. UlongModulus - 1
         /\ HeaderSize \in Nat /\ ThreadSize \in Nat
<1>1. total \in 0 .. UlongModulus - 1
  BY WalkAssumption DEF TypeOK
<1>2. r.next \in 0 .. UlongModulus - 1 /\ r.threads \in 0 .. UlongModulus - 1
  BY WalkAssumption DEF Record
<1> QED
  BY <1>1, <1>2, WalkAssumption DEF TypeOK

LEMMA NoWrap ==
  ASSUME NEW n \in Nat, n < SizeModulus
  PROVE  n % SizeModulus = n
BY WalkAssumption

LEMMA PlusIsSum ==
  ASSUME NEW a \in Nat, NEW b \in Nat, a + b < SizeModulus
  PROVE  Plus(a, b) = a + b
BY NoWrap DEF Plus

\* The sums and products of the walk are those of the integers.
LEMMA WalkSums ==
  ASSUME TypeOK, NEW r \in Record
  PROVE  /\ Plus(offset, HeaderSize) = offset + HeaderSize
         /\ Plus(offset, r.next) = offset + r.next
         /\ r.threads * ThreadSize \in Nat
         /\ Plus(Plus(offset, HeaderSize), (r.threads * ThreadSize) % SizeModulus)
              = offset + HeaderSize + r.threads * ThreadSize
<1>1. /\ offset \in 0 .. UlongModulus - 1 /\ HeaderSize \in Nat /\ ThreadSize \in Nat
      /\ r.next \in 0 .. UlongModulus - 1 /\ r.threads \in 0 .. UlongModulus - 1
      /\ UlongModulus \in Nat /\ SizeModulus \in Nat
  BY WalkTypes, WalkAssumption
<1> DEFINE bytes == r.threads * ThreadSize
<1>2. bytes \in Nat
  BY <1>1
<1>3. UlongModulus + UlongModulus + HeaderSize + bytes < SizeModulus
  BY <1>1, WidthAssumption
<1> HIDE DEF bytes
<1>4. Plus(offset, HeaderSize) = offset + HeaderSize
  BY <1>1, <1>2, <1>3, PlusIsSum
<1>5. Plus(offset, r.next) = offset + r.next
  BY <1>1, <1>2, <1>3, PlusIsSum
<1>6. bytes % SizeModulus = bytes
  BY <1>1, <1>2, <1>3, NoWrap
<1>7. Plus(offset + HeaderSize, bytes) = offset + HeaderSize + bytes
  <2>1. /\ offset + HeaderSize \in Nat
        /\ offset + HeaderSize + bytes < SizeModulus
    BY <1>1, <1>2, <1>3
  <2> QED
    BY <1>2, <2>1, PlusIsSum
<1> QED
  BY <1>2, <1>4, <1>5, <1>6, <1>7 DEF bytes

\* The inductive invariant of what is read.
WalkInv == TypeOK /\ ReadsStayInBuffer

\* A header that is read, and every row of a record that is visited, lies in
\* the buffer.
LEMMA HeaderInside ==
  ASSUME TypeOK, NEW r \in Record, HeaderFits
  PROVE  offset + HeaderSize <= total
BY WalkSums DEF HeaderFits

LEMMA ThreadsInside ==
  ASSUME TypeOK, NEW r \in Record, HeaderFits, ThreadsFit(r)
  PROVE  offset + HeaderSize + r.threads * ThreadSize <= total
<1>1. CASE r.threads = 0
  <2>1. r.threads * ThreadSize = 0
    BY <1>1, WalkAssumption
  <2>2. offset \in Nat /\ HeaderSize \in Nat /\ total \in Nat
    BY WalkAssumption DEF TypeOK
  <2> QED
    BY <2>1, <2>2, HeaderInside
<1>2. CASE r.threads > 0
  BY <1>2, WalkSums DEF ThreadsFit
<1> QED
  <2>1. r.threads \in Nat
    BY WalkTypes
  <2> QED
    BY <1>1, <1>2, <2>1

LEMMA RowsInside ==
  ASSUME TypeOK, NEW r \in Record, HeaderFits, ThreadsFit(r)
  PROVE  /\ Rows(r) \in Seq(Nat)
         /\ \A i \in 1 .. Len(Rows(r)) :
              Rows(r)[i] + (IF target = Everybody THEN HeaderSize ELSE ThreadSize) <= total
<1>1. /\ offset \in Nat /\ HeaderSize \in Nat /\ ThreadSize \in Nat /\ total \in Nat
      /\ r.threads \in Nat
  BY WalkTypes
<1>2. CASE target = Everybody
  BY <1>1, <1>2, HeaderInside DEF Rows
<1>3. CASE target # Everybody /\ r.pid = target
  <2> DEFINE row(i) == offset + HeaderSize + (i - 1) * ThreadSize
  <2>1. ASSUME NEW i \in 1 .. r.threads
        PROVE  row(i) \in Nat /\ row(i) + ThreadSize <= total
    <3>1. /\ (i - 1) * ThreadSize \in Nat
          /\ (i - 1) * ThreadSize + ThreadSize = i * ThreadSize
          /\ i * ThreadSize <= r.threads * ThreadSize
          /\ i * ThreadSize \in Nat /\ r.threads * ThreadSize \in Nat
      BY <1>1
    <3>2. offset + HeaderSize + r.threads * ThreadSize <= total
      BY ThreadsInside
    <3> DEFINE before == (i - 1) * ThreadSize
               upto   == i * ThreadSize
               all    == r.threads * ThreadSize
    <3>3. /\ before \in Nat /\ upto \in Nat /\ all \in Nat
          /\ before + ThreadSize = upto /\ upto <= all
          /\ offset + HeaderSize + all <= total
      BY <3>1, <3>2
    <3> HIDE DEF before, upto, all
    <3>4. /\ offset + HeaderSize + before \in Nat
          /\ offset + HeaderSize + before + ThreadSize <= total
      BY <3>3, <1>1
    <3> QED
      BY <3>4 DEF before
  <2> HIDE DEF row
  <2>2. Rows(r) = [i \in 1 .. r.threads |-> row(i)]
    BY <1>3 DEF Rows, row
  <2> QED
    BY <1>1, <1>3, <2>1, <2>2
<1>4. CASE target # Everybody /\ r.pid # target
  BY <1>4 DEF Rows
<1> QED
  BY <1>2, <1>3, <1>4

\* What a visit leaves of the invariant, whatever offset and outcome become.
LEMMA WalkVisitKeeps ==
  ASSUME WalkInv, NEW r \in Record, Visit(r)
  PROVE  /\ total' \in Totals /\ target' \in Pids \cup {Everybody}
         /\ list' \in Seq(Nat)
         /\ chain' \in Seq([at : Nat, rec : Record])
         /\ ReadsStayInBuffer'
<1> USE DEF WalkInv
<1>1. /\ HeaderFits /\ ThreadsFit(r)
      /\ chain' = Append(chain, [at |-> offset, rec |-> r])
      /\ list' = list \o Rows(r)
      /\ total' = total /\ target' = target
  BY DEF Visit, Read
<1>2. /\ total \in Totals /\ target \in Pids \cup {Everybody} /\ offset \in Nat
      /\ list \in Seq(Nat) /\ chain \in Seq([at : Nat, rec : Record])
  BY DEF TypeOK
<1>3. list' \in Seq(Nat) /\ chain' \in Seq([at : Nat, rec : Record])
  BY <1>1, <1>2, RowsInside
<1>4. \A i \in 1 .. Len(chain') : chain'[i].at + HeaderSize <= total
  BY <1>1, <1>2, HeaderInside DEF ReadsStayInBuffer
<1>5. \A i \in 1 .. Len(list') :
        list'[i] + (IF target = Everybody THEN HeaderSize ELSE ThreadSize) <= total
  <2> DEFINE width == IF target = Everybody THEN HeaderSize ELSE ThreadSize
  <2>1. /\ \A i \in 1 .. Len(list) : list[i] + width <= total
        /\ \A i \in 1 .. Len(Rows(r)) : Rows(r)[i] + width <= total
        /\ Rows(r) \in Seq(Nat)
    BY <1>1, RowsInside DEF ReadsStayInBuffer
  <2> HIDE DEF width
  <2>2. \A i \in 1 .. Len(list \o Rows(r)) : (list \o Rows(r))[i] + width <= total
    BY <1>2, <2>1
  <2> QED
    BY <1>1, <2>2 DEF width
<1> QED
  BY <1>1, <1>2, <1>3, <1>4, <1>5 DEF ReadsStayInBuffer

\* A walk that fails keeps no row.
LEMMA WalkFailKeeps ==
  ASSUME WalkInv, Fail,
         \/ UNCHANGED chain
         \/ \E r \in Record : Read(r)
  PROVE  WalkInv'
<1> USE DEF WalkInv
<1>1. list' = <<>> /\ outcome' = "error" /\ total' = total /\ target' = target
      /\ offset' = offset
  BY DEF Fail
<1>2. /\ chain' \in Seq([at : Nat, rec : Record])
      /\ \A i \in 1 .. Len(chain') : chain'[i].at + HeaderSize <= total
  <2>1. chain \in Seq([at : Nat, rec : Record]) /\ offset \in Nat
    BY DEF TypeOK
  <2>2. CASE UNCHANGED chain
    BY <2>1, <2>2 DEF ReadsStayInBuffer
  <2>3. CASE \E r \in Record : Read(r)
    <3>1. PICK r \in Record : Read(r)
      BY <2>3
    <3>2. chain' = Append(chain, [at |-> offset, rec |-> r]) /\ HeaderFits
      BY <3>1 DEF Read
    <3> QED
      BY <2>1, <3>2, HeaderInside DEF ReadsStayInBuffer
  <2> QED
    BY <2>2, <2>3
<1> QED
  BY <1>1, <1>2 DEF TypeOK, ReadsStayInBuffer

LEMMA WalkStep == ASSUME WalkInv, [Next]_vars PROVE WalkInv'
<1>1. CASE TruncatedHeader
  BY <1>1, WalkFailKeeps DEF TruncatedHeader
<1>2. ASSUME NEW r \in Record, ThreadsOutOfRange(r) PROVE WalkInv'
  BY <1>2, WalkFailKeeps DEF ThreadsOutOfRange
<1>3. ASSUME NEW r \in Record, InvalidNext(r) PROVE WalkInv'
  BY <1>3, WalkFailKeeps DEF InvalidNext
<1>4. ASSUME NEW r \in Record, Stop(r) \/ LastEntry(r) PROVE WalkInv'
  <2>1. Visit(r) /\ outcome' = "ok" /\ offset' = offset
    BY <1>4 DEF Stop, LastEntry
  <2>2. total' = total
    BY <2>1 DEF Visit
  <2> QED
    BY <2>1, <2>2, WalkVisitKeeps DEF WalkInv, TypeOK
<1>5. ASSUME NEW r \in Record, Advance(r) PROVE WalkInv'
  <2>1. /\ Visit(r) /\ NextIsInside(r)
        /\ offset' = Plus(offset, r.next) /\ outcome' = outcome
    BY <1>5 DEF Advance
  <2>2. total' = total
    BY <2>1 DEF Visit
  <2>3. offset' \in Nat /\ offset' < total
    <3>1. r.next \in Nat /\ offset \in Nat
        BY WalkTypes DEF WalkInv
    <3> QED
      BY <2>1, <3>1, WalkSums DEF NextIsInside, WalkInv
  <2> QED
    BY <2>1, <2>2, <2>3, WalkVisitKeeps DEF WalkInv, TypeOK
<1>6. CASE UNCHANGED vars
  BY <1>6 DEF vars, WalkInv, TypeOK, ReadsStayInBuffer
<1> QED
  BY <1>1, <1>2, <1>3, <1>4, <1>5, <1>6 DEF Next

\* SnapshotWalk.hpp: the walk keeps its types, and what it reads is in the buffer.
THEOREM WalkInvariance == Spec => []WalkInv
<1>1. Init => WalkInv
  BY WalkAssumption DEF Init, WalkInv, TypeOK, ReadsStayInBuffer
<1>2. WalkInv /\ [Next]_vars => WalkInv'
  BY WalkStep
<1> QED
  BY <1>1, <1>2, PTL DEF Spec

\* The walk keeps its types, and its offset inside the buffer.
THEOREM TypeCorrect == Spec => []TypeOK
<1>1. WalkInv => TypeOK
  BY DEF WalkInv
<1> QED
  BY <1>1, WalkInvariance, PTL

\* SnapshotWalk.hpp:10-11: no read leaves the buffer, whatever its content.
THEOREM NothingIsReadOutside == Spec => []ReadsStayInBuffer
<1>1. WalkInv => ReadsStayInBuffer
  BY DEF WalkInv
<1> QED
  BY <1>1, WalkInvariance, PTL

-----------------------------------------------------------------------------
(* Nothing well formed is rejected.  A header that does not fit condemns the *)
(* record that led to it, so the walk has to know where its offset is from. *)

\* The walk is where the last header sent it.
OffsetInv ==
  outcome = "pending" =>
    IF chain = <<>> THEN offset = 0
    ELSE LET last == chain[Len(chain)]
         IN last.rec.next # 0 /\ offset = last.at + last.rec.next

\* The inductive invariant of what is accepted.
AcceptInv == WalkInv /\ OffsetInv /\ WellFormedIsAccepted

\* The header that was read last is the last of the chain.
LEMMA ReadAppends ==
  ASSUME TypeOK, NEW r \in Record, Read(r)
  PROVE  /\ Len(chain') \in Nat \ {0}
         /\ chain' # <<>>
         /\ chain'[Len(chain')] = [at |-> offset, rec |-> r]
BY DEF Read, TypeOK

\* A record that ends the walk with an error is not well formed.
LEMMA CulpritRejected ==
  ASSUME WalkInv, NEW r \in Record, Read(r), total' = total,
         \/ offset + HeaderSize + r.threads * ThreadSize > total
         \/ r.next # 0 /\ offset + r.next >= total
  PROVE  WellFormedIsAccepted'
<1> DEFINE entry == [at |-> offset, rec |-> r]
<1>1. /\ total \in Nat /\ offset \in Nat /\ HeaderSize \in Nat /\ HeaderSize > 0
      /\ r.next \in Nat /\ r.threads * ThreadSize \in Nat
  BY WalkTypes, WalkSums, WalkAssumption DEF WalkInv
<1>2. ~(/\ entry.at + HeaderSize + entry.rec.threads * ThreadSize <= total
        /\ entry.rec.next # 0 => entry.at + entry.rec.next + HeaderSize <= total)
  <2>1. entry.at = offset /\ entry.rec = r
    OBVIOUS
  <2> HIDE DEF entry
  <2> QED
    BY <1>1, <2>1
<1>3. /\ Len(chain') \in Nat \ {0}
      /\ chain'[Len(chain')] = entry
  BY ReadAppends DEF WalkInv
<1> HIDE DEF entry
<1>4. Len(chain') \in 1 .. Len(chain')
  BY <1>3
<1>5. ~(/\ chain'[Len(chain')].at + HeaderSize
             + chain'[Len(chain')].rec.threads * ThreadSize <= total'
        /\ chain'[Len(chain')].rec.next # 0
             => chain'[Len(chain')].at + chain'[Len(chain')].rec.next + HeaderSize <= total')
  BY <1>2, <1>3
<1> QED
  BY <1>4, <1>5 DEF WellFormedIsAccepted, WellFormed

LEMMA AcceptStep == ASSUME AcceptInv, [Next]_vars PROVE OffsetInv' /\ WellFormedIsAccepted'
<1>1. CASE TruncatedHeader
  <2>1. /\ outcome = "pending" /\ outcome' = "error"
        /\ total' = total /\ chain' = chain /\ ~HeaderFits
    BY <1>1 DEF TruncatedHeader, Fail
  <2>2. CASE chain = <<>>
    <3>1. offset = 0
      BY <2>1, <2>2 DEF AcceptInv, OffsetInv
    <3>2. Plus(0, HeaderSize) = HeaderSize
      <4>1. HeaderSize \in Nat /\ HeaderSize < SizeModulus
        <5>1. total \in 0 .. UlongModulus - 1
          BY WalkAssumption DEF AcceptInv, WalkInv, TypeOK
        <5>2. 0 \in 0 .. UlongModulus - 1 /\ 0 * ThreadSize = 0
          BY <5>1, WalkAssumption
        <5>3. UlongModulus + UlongModulus + HeaderSize + 0 < SizeModulus
          BY <5>2, WidthAssumption
        <5> QED
          BY <5>3, WalkAssumption
      <4> QED
        BY <4>1, PlusIsSum
    <3>3. total < HeaderSize
      <4>1. total \in Nat /\ HeaderSize \in Nat
        BY WalkAssumption DEF AcceptInv, WalkInv, TypeOK
      <4> QED
        BY <2>1, <3>1, <3>2, <4>1 DEF HeaderFits
    <3> QED
      BY <2>1, <3>3 DEF OffsetInv, WellFormedIsAccepted
  <2>3. CASE chain # <<>>
    <3> DEFINE entry == chain[Len(chain)]
    <3>1. /\ Len(chain) \in 1 .. Len(chain)
          /\ entry.at \in Nat /\ entry.rec \in Record
      <4>1. chain \in Seq([at : Nat, rec : Record])
        BY DEF AcceptInv, WalkInv, TypeOK
      <4>2. Len(chain) \in Nat /\ Len(chain) # 0
        BY <2>3, <4>1
      <4>3. Len(chain) \in 1 .. Len(chain)
        BY <4>2
      <4>4. entry \in [at : Nat, rec : Record]
        <5>1. ASSUME NEW S, NEW s \in Seq(S), NEW i \in 1 .. Len(s) PROVE s[i] \in S
          OBVIOUS
        <5> QED
          BY <4>1, <4>3, <5>1
      <4> QED
        BY <4>3, <4>4
    <3>2. entry.rec.next # 0 /\ offset = entry.at + entry.rec.next
      BY <2>1, <2>3 DEF AcceptInv, OffsetInv
    <3>3. offset + HeaderSize > total
      <4>1. total \in Nat /\ offset \in Nat /\ HeaderSize \in Nat
        BY <3>1, WalkTypes DEF AcceptInv, WalkInv
      <4>2. Plus(offset, HeaderSize) = offset + HeaderSize
        BY <3>1, WalkSums DEF AcceptInv, WalkInv
      <4> QED
        BY <2>1, <4>1, <4>2 DEF HeaderFits
    <3>4. ~(entry.at + entry.rec.next + HeaderSize <= total)
      <4>1. total \in Nat /\ offset \in Nat /\ HeaderSize \in Nat
        BY <3>1, WalkTypes DEF AcceptInv, WalkInv
      <4> QED
        BY <3>2, <3>3, <4>1
    <3>5. ~WellFormed(entry)
      BY <3>2, <3>4 DEF WellFormed
    <3> QED
      BY <2>1, <3>1, <3>5 DEF OffsetInv, WellFormedIsAccepted, WellFormed
  <2> QED
    BY <2>2, <2>3
<1>2. ASSUME NEW r \in Record, ThreadsOutOfRange(r) PROVE OffsetInv' /\ WellFormedIsAccepted'
  <2>1. Read(r) /\ ~ThreadsFit(r) /\ total' = total /\ outcome' = "error"
    BY <1>2 DEF ThreadsOutOfRange, Fail
  <2>2. offset + HeaderSize + r.threads * ThreadSize > total
    <3>1. /\ total \in Nat /\ offset + HeaderSize + r.threads * ThreadSize \in Nat
      <4>1. total \in Nat /\ offset \in Nat /\ HeaderSize \in Nat
        BY WalkTypes DEF AcceptInv, WalkInv
      <4>2. r.threads * ThreadSize \in Nat
        BY WalkSums DEF AcceptInv, WalkInv
      <4> QED
        BY <4>1, <4>2
    <3> QED
      BY <2>1, <3>1, WalkSums DEF ThreadsFit, AcceptInv, WalkInv
  <2> QED
    BY <2>1, <2>2, CulpritRejected DEF OffsetInv, AcceptInv
<1>3. ASSUME NEW r \in Record, InvalidNext(r) PROVE OffsetInv' /\ WellFormedIsAccepted'
  <2>1. /\ Read(r) /\ r.next # 0 /\ ~NextIsInside(r)
        /\ total' = total /\ outcome' = "error"
    BY <1>3 DEF InvalidNext, Fail
  <2>2. offset + r.next >= total
    <3>1. total \in Nat /\ offset \in Nat /\ r.next \in Nat
      BY WalkTypes DEF AcceptInv, WalkInv
    <3>2. Plus(offset, r.next) = offset + r.next
      BY WalkSums DEF AcceptInv, WalkInv
    <3> QED
      BY <2>1, <3>1, <3>2 DEF NextIsInside
  <2> QED
    BY <2>1, <2>2, CulpritRejected DEF OffsetInv, AcceptInv
<1>4. ASSUME NEW r \in Record, Stop(r) \/ LastEntry(r) PROVE OffsetInv' /\ WellFormedIsAccepted'
  BY <1>4 DEF Stop, LastEntry, OffsetInv, WellFormedIsAccepted
<1>5. ASSUME NEW r \in Record, Advance(r) PROVE OffsetInv' /\ WellFormedIsAccepted'
  <2>1. /\ Read(r) /\ r.next # 0 /\ offset' = Plus(offset, r.next)
        /\ outcome = "pending" /\ outcome' = "pending"
    BY <1>5 DEF Advance, Visit, Read
  <2>2. offset' = offset + r.next
    BY <2>1, WalkSums DEF AcceptInv, WalkInv
  <2>3. chain'[Len(chain')] = [at |-> offset, rec |-> r] /\ chain' # <<>>
    BY <2>1, ReadAppends DEF AcceptInv, WalkInv
  <2> QED
    BY <2>1, <2>2, <2>3 DEF OffsetInv, WellFormedIsAccepted
<1>6. CASE UNCHANGED vars
  BY <1>6 DEF vars, AcceptInv, OffsetInv, WellFormedIsAccepted, WellFormed
<1> QED
  BY <1>1, <1>2, <1>3, <1>4, <1>5, <1>6 DEF Next

\* forEachProcess: a walk fails only on a buffer with a malformed record.
THEOREM NothingWellFormedIsRejected == Spec => []WellFormedIsAccepted
<1>1. Init => AcceptInv
  BY WalkAssumption DEF Init, AcceptInv, WalkInv, TypeOK, ReadsStayInBuffer, OffsetInv,
     WellFormedIsAccepted
<1>2. AcceptInv /\ [Next]_vars => AcceptInv'
  BY WalkStep, AcceptStep DEF AcceptInv
<1>3. AcceptInv => WellFormedIsAccepted
  BY DEF AcceptInv
<1> QED
  BY <1>1, <1>2, <1>3, PTL DEF Spec

-----------------------------------------------------------------------------
(* SnapshotWalk: the result is the chain.                                  *)

\* The rows that were collected so far.
Collected ==
  IF target = Everybody
  THEN Len(list) = Len(chain) /\ \A i \in 1 .. Len(chain) : list[i] = chain[i].at
  ELSE list = <<>>

\* While the walk runs, it has not met the process it looks for.
PassedInv ==
  outcome = "pending" => Collected /\ \A i \in 1 .. Len(chain) : chain[i].rec.pid # target

\* When it has ended.
EndedInv ==
  outcome = "ok" =>
    /\ chain # <<>>
    /\ IF target = Everybody
       THEN Collected /\ chain[Len(chain)].rec.next = 0
       ELSE /\ \A i \in 1 .. Len(chain) - 1 : chain[i].rec.pid # target
            /\ \/ /\ chain[Len(chain)].rec.pid = target
                  /\ Len(list) = chain[Len(chain)].rec.threads
               \/ chain[Len(chain)].rec.next = 0 /\ list = <<>>

\* The inductive invariant of the result.
ChainInv == AcceptInv /\ Linked /\ PassedInv /\ EndedInv

\* The chain with the header that was read.
LEMMA ChainGrows ==
  ASSUME TypeOK, NEW r \in Record, Read(r)
  PROVE  /\ Len(chain') = Len(chain) + 1 /\ Len(chain) \in Nat /\ chain' # <<>>
         /\ \A i \in 1 .. Len(chain) : chain'[i] = chain[i]
         /\ chain'[Len(chain) + 1].at = offset /\ chain'[Len(chain')].rec = r
<1>1. /\ chain \in Seq([at : Nat, rec : Record])
      /\ [at |-> offset, rec |-> r] \in [at : Nat, rec : Record]
  BY DEF TypeOK
<1>2. chain' = Append(chain, [at |-> offset, rec |-> r])
  BY DEF Read
<1>3. /\ Len(chain') = Len(chain) + 1 /\ Len(chain) \in Nat /\ chain' # <<>>
      /\ \A i \in 1 .. Len(chain) : chain'[i] = chain[i]
      /\ chain'[Len(chain) + 1] = [at |-> offset, rec |-> r]
  BY <1>1, <1>2
<1> QED
  BY <1>3

\* A record begins where the one before it says.
LEMMA LinkedGrows ==
  ASSUME AcceptInv, Linked, NEW r \in Record, Read(r)
  PROVE  Linked'
<1>1. TypeOK /\ outcome = "pending"
  BY DEF AcceptInv, WalkInv, Read
<1>2. /\ Len(chain') = Len(chain) + 1 /\ Len(chain) \in Nat
      /\ \A i \in 1 .. Len(chain) : chain'[i] = chain[i]
      /\ chain'[Len(chain) + 1].at = offset
  BY <1>1, ChainGrows
<1>3. ASSUME NEW i \in 1 .. Len(chain') - 1
      PROVE  chain'[i + 1].at = chain'[i].at + chain'[i].rec.next
  <2>1. CASE i = Len(chain)
    <3>1. chain # <<>> /\ chain'[i] = chain[Len(chain)]
      BY <1>2, <1>3, <2>1
    <3>2. offset = chain[Len(chain)].at + chain[Len(chain)].rec.next
      BY <1>1, <3>1 DEF AcceptInv, OffsetInv
    <3> QED
      BY <1>2, <2>1, <3>1, <3>2
  <2>2. CASE i # Len(chain)
    <3>1. i \in 1 .. Len(chain) - 1 /\ i + 1 \in 1 .. Len(chain) /\ i \in 1 .. Len(chain)
      BY <1>2, <1>3, <2>2
    <3>2. chain'[i] = chain[i] /\ chain'[i + 1] = chain[i + 1]
      BY <1>2, <3>1
    <3> QED
      BY <3>1, <3>2 DEF Linked
  <2> QED
    BY <2>1, <2>2
<1> QED
  BY <1>3 DEF Linked

\* What held of the records up to the last holds of all, if it holds of the new one.
LEMMA OneMore ==
  ASSUME NEW s \in Seq(Nat), NEW n \in Nat
  PROVE  /\ Len(s \o <<n>>) = Len(s) + 1
         /\ \A i \in 1 .. Len(s) : (s \o <<n>>)[i] = s[i]
         /\ (s \o <<n>>)[Len(s) + 1] = n
         /\ s \o <<>> = s /\ <<>> \o s = s
OBVIOUS

\* The rows with those of the record that is visited.
LEMMA RowsGrow ==
  ASSUME AcceptInv, PassedInv, NEW r \in Record, Visit(r)
  PROVE  /\ r.pid # target => Collected'
         /\ r.pid = target => target # Everybody /\ Len(list') = r.threads
<1>1. TypeOK /\ outcome = "pending" /\ Read(r) /\ list' = list \o Rows(r) /\ target' = target
  BY DEF AcceptInv, WalkInv, Read, Visit
<1>2. /\ Len(chain') = Len(chain) + 1 /\ Len(chain) \in Nat
      /\ \A i \in 1 .. Len(chain) : chain'[i] = chain[i]
      /\ chain'[Len(chain) + 1].at = offset
  BY <1>1, ChainGrows
<1>3. list \in Seq(Nat) /\ offset \in Nat
  BY <1>1 DEF TypeOK
<1>4. Collected
  BY <1>1 DEF PassedInv
<1>5. CASE target = Everybody
  <2>1. r.pid # target
    BY <1>5, WalkAssumption DEF Record
  <2>2. list' = list \o <<offset>>
    BY <1>1, <1>5 DEF Rows
  <2>3. Len(list) = Len(chain) /\ \A i \in 1 .. Len(chain) : list[i] = chain[i].at
    BY <1>4, <1>5 DEF Collected
  <2>4. /\ Len(list') = Len(list) + 1
        /\ \A i \in 1 .. Len(list) : list'[i] = list[i]
        /\ list'[Len(list) + 1] = offset
    BY <1>3, <2>2, OneMore
  <2>5. \A i \in 1 .. Len(chain') : i \in 1 .. Len(chain) \/ i = Len(chain) + 1
    BY <1>2
  <2>6. \A i \in 1 .. Len(chain') : list'[i] = chain'[i].at
    BY <1>2, <2>3, <2>4, <2>5
  <2> QED
    BY <1>1, <1>2, <1>5, <2>1, <2>3, <2>4, <2>6 DEF Collected
<1>6. CASE target # Everybody /\ r.pid # target
  <2>1. Rows(r) = <<>> /\ list = <<>>
    BY <1>4, <1>6 DEF Rows, Collected
  <2>2. list' = <<>>
    BY <1>1, <1>3, <2>1, OneMore
  <2> QED
    BY <1>1, <1>6, <2>2 DEF Collected
<1>7. CASE target # Everybody /\ r.pid = target
  <2>1. list = <<>>
    BY <1>4, <1>7 DEF Collected
  <2>2. Rows(r) = [i \in 1 .. r.threads |-> offset + HeaderSize + (i - 1) * ThreadSize]
    BY <1>7 DEF Rows
  <2>3. ThreadsFit(r) /\ HeaderFits
    BY DEF Visit, Read
  <2>4. Rows(r) \in Seq(Nat)
    BY <1>1, <2>3, RowsInside DEF AcceptInv
  <2>5. r.threads \in Nat
    BY <1>1, WalkTypes
  <2>6. Len(Rows(r)) = r.threads
    BY <2>2, <2>5
  <2>7. list' = Rows(r)
    BY <1>1, <2>1, <2>4, OneMore
  <2> QED
    BY <1>7, <2>6, <2>7
<1> QED
  BY <1>5, <1>6, <1>7

LEMMA ChainStep == ASSUME ChainInv, [Next]_vars PROVE ChainInv'
<1>1. AcceptInv /\ Linked /\ PassedInv /\ EndedInv /\ TypeOK
  BY DEF ChainInv, AcceptInv, WalkInv
<1>2. AcceptInv'
  BY <1>1, WalkStep, AcceptStep DEF AcceptInv
<1>3. CASE TruncatedHeader
  BY <1>1, <1>2, <1>3 DEF TruncatedHeader, Fail, ChainInv, Linked, PassedInv, EndedInv
<1>4. ASSUME NEW r \in Record, ThreadsOutOfRange(r) \/ InvalidNext(r) PROVE ChainInv'
  <2>1. Read(r) /\ outcome' = "error"
    BY <1>4 DEF ThreadsOutOfRange, InvalidNext, Fail
  <2>2. Linked'
    BY <1>1, <2>1, LinkedGrows
  <2> QED
    BY <1>2, <2>1, <2>2 DEF ChainInv, PassedInv, EndedInv
<1>5. ASSUME NEW r \in Record, Stop(r) \/ LastEntry(r) \/ Advance(r) PROVE ChainInv'
  <2>1. Visit(r) /\ Read(r) /\ target' = target
    BY <1>5 DEF Stop, LastEntry, Advance, Visit
  <2>2. Linked'
    BY <1>1, <2>1, LinkedGrows
  <2>3. /\ Len(chain') = Len(chain) + 1 /\ Len(chain) \in Nat /\ chain' # <<>>
        /\ \A i \in 1 .. Len(chain) : chain'[i] = chain[i]
        /\ chain'[Len(chain')].rec = r
    BY <1>1, <2>1, ChainGrows
  <2>4. \A i \in 1 .. Len(chain) : chain'[i].rec.pid # target
    BY <1>1, <2>1, <2>3 DEF PassedInv, Read
  <2>5. /\ r.pid # target => Collected'
        /\ r.pid = target => target # Everybody /\ Len(list') = r.threads
    BY <1>1, <2>1, RowsGrow
  <2>6. \A i \in 1 .. Len(chain') : i \in 1 .. Len(chain) \/ i = Len(chain')
    BY <2>3
  <2>7. 1 .. Len(chain') - 1 = 1 .. Len(chain)
    BY <2>3
  <2>8. CASE Stop(r)
    <3>1. r.pid = target /\ outcome' = "ok"
      BY <2>8 DEF Stop
    <3>2. EndedInv'
      BY <2>1, <2>3, <2>4, <2>5, <2>7, <3>1 DEF EndedInv
    <3> QED
      BY <1>2, <2>2, <3>1, <3>2 DEF ChainInv, PassedInv
  <2>9. CASE LastEntry(r)
    <3>1. r.pid # target /\ r.next = 0 /\ outcome' = "ok"
      BY <2>9 DEF LastEntry
    <3>2. Collected'
      BY <2>5, <3>1
    <3>3. target # Everybody => list' = <<>>
      BY <2>1, <3>2 DEF Collected
    <3>4. EndedInv'
      BY <2>1, <2>3, <2>4, <2>7, <3>1, <3>2, <3>3 DEF EndedInv
    <3> QED
      BY <1>2, <2>2, <3>1, <3>4 DEF ChainInv, PassedInv
  <2>10. CASE Advance(r)
    <3>1. r.pid # target /\ outcome' = "pending"
      BY <2>1, <2>10 DEF Advance, Read
    <3>2. \A i \in 1 .. Len(chain') : chain'[i].rec.pid # target
      BY <2>3, <2>4, <2>6, <3>1
    <3>3. PassedInv'
      BY <2>1, <2>5, <3>1, <3>2 DEF PassedInv
    <3> QED
      BY <1>2, <2>2, <3>1, <3>3 DEF ChainInv, EndedInv
  <2> QED
    BY <1>5, <2>8, <2>9, <2>10
<1>6. CASE UNCHANGED vars
  BY <1>1, <1>2, <1>6 DEF vars, ChainInv, Linked, PassedInv, EndedInv, Collected
<1> QED
  BY <1>3, <1>4, <1>5, <1>6 DEF Next

\* forEachProcess and its callers: what a successful walk returns is what the
\* links of the buffer name, record by record, up to the end or to the process.
THEOREM ResultsAreTheChain == Spec => []ResultIsTheChain
<1>1. Init => ChainInv
  <2> SUFFICES ASSUME Init PROVE ChainInv
    OBVIOUS
  <2>1. AcceptInv
    BY WalkAssumption DEF Init, AcceptInv, WalkInv, TypeOK, ReadsStayInBuffer, OffsetInv,
       WellFormedIsAccepted
  <2> QED
    BY <2>1 DEF Init, ChainInv, Linked, PassedInv, EndedInv, Collected
<1>2. ChainInv => ResultIsTheChain
  <2> SUFFICES ASSUME ChainInv, outcome = "ok" 
               PROVE  IF target = Everybody
                      THEN ChainEnded /\ list = [i \in 1 .. Len(chain) |-> chain[i].at]
                      ELSE /\ \A i \in 1 .. Len(chain) - 1 : chain[i].rec.pid # target
                           /\ \/ Last(chain).rec.pid = target /\ Len(list) = Last(chain).rec.threads
                              \/ ChainEnded /\ list = <<>>
    BY DEF ResultIsTheChain, ChainInv
  <2>1. EndedInv /\ chain # <<>> /\ list \in Seq(Nat)
    BY DEF ChainInv, EndedInv, AcceptInv, WalkInv, TypeOK
  <2>2. Last(chain) = chain[Len(chain)]
    BY DEF Last
  <2>3. CASE target = Everybody
    <3>1. /\ Len(list) = Len(chain) /\ \A i \in 1 .. Len(chain) : list[i] = chain[i].at
          /\ chain[Len(chain)].rec.next = 0
      BY <2>1, <2>3 DEF EndedInv, Collected
    <3>2. list = [i \in 1 .. Len(list) |-> list[i]]
      BY <2>1
    <3>3. list = [i \in 1 .. Len(chain) |-> chain[i].at]
      BY <3>1, <3>2
    <3> QED
      BY <2>1, <2>2, <2>3, <3>1, <3>3 DEF ChainEnded
  <2>4. CASE target # Everybody
    BY <2>1, <2>2, <2>4 DEF EndedInv, ChainEnded
  <2> QED
    BY <2>3, <2>4
<1> QED
  BY <1>1, <1>2, ChainStep, PTL DEF Spec

-----------------------------------------------------------------------------
(* TableWalks: where records begin.                                        *)

\* Rounding up moves no position down.
LEMMA UpIsAbove == ASSUME NEW n \in Nat PROVE Up(n) \in Nat /\ Up(n) >= n
<1>1. WordSize \in Nat \ {0}
  BY TableAssumption
<1>2. ((n + WordSize - 1) \div WordSize) * WordSize \in Nat
      /\ ((n + WordSize - 1) \div WordSize) * WordSize >= n
  BY <1>1
<1> QED
  BY <1>2 DEF Up

\* The record after a record begins behind it.
LEMMA BehindIsAfter ==
  ASSUME NEW t \in Tables, NEW at \in Nat, NEW tail \in Tails[t]
  PROVE  /\ tail \in Nat \ {0} /\ RecordSize[t] \in Nat \ {0}
         /\ Behind(t, at, tail) \in Nat /\ Behind(t, at, tail) > at
         /\ t # "topology" => Behind(t, at, tail) >= at + RecordSize[t] + tail
         /\ t = "pagefiles" => Behind(t, at, tail) = at + RecordSize[t] + tail
         /\ t = "topology" => Behind(t, at, tail) = at + tail
<1>1. tail \in Nat \ {0} /\ RecordSize[t] \in Nat \ {0}
  BY TableAssumption
<1>2. CASE t = "types"
  <2>1. at + RecordSize[t] + tail \in Nat
    BY <1>1
  <2>2. /\ Up(at + RecordSize[t] + tail) \in Nat
        /\ Up(at + RecordSize[t] + tail) >= at + RecordSize[t] + tail
    BY <2>1, UpIsAbove
  <2>3. Behind(t, at, tail) = Up(at + RecordSize[t] + tail)
    BY <1>2 DEF Behind
  <2> QED
    BY <1>1, <1>2, <2>2, <2>3
<1>3. CASE t = "pagefiles"
  BY <1>1, <1>3 DEF Behind
<1>4. CASE t = "topology"
  BY <1>1, <1>4 DEF Behind
<1> QED
  BY <1>2, <1>3, <1>4 DEF Tables

\* The layout of a table is what its recursive definition says.
LEMMA Layout ==
  ASSUME NEW t \in Tables, NEW r \in Seq(Tails[t])
  PROVE  /\ Begins(t, r) \in [1 .. Len(r) + 1 -> Nat]
         /\ Begins(t, r)[1] = Start(t)
         /\ \A i \in 1 .. Len(r) : Begins(t, r)[i + 1] = Behind(t, Begins(t, r)[i], r[i])
<1> DEFINE n == Len(r)
           Rec(at) == [i \in 1 .. n + 1 |->
                         IF i = 1 THEN Start(t) ELSE Behind(t, at[i - 1], r[i - 1])]
           g == [i \in 1 .. n |-> [x \in Nat |-> Behind(t, x, r[i])]]
<1>1. n \in Nat /\ \A i \in 1 .. n : r[i] \in Tails[t]
  OBVIOUS
<1>2. Start(t) \in Nat
  BY UpIsAbove DEF Start
<1>3. \A i \in 1 .. n : \A x \in Nat : Behind(t, x, r[i]) \in Nat
  BY <1>1, BehindIsAfter
<1>4. /\ g \in [1 .. n -> [Nat -> Nat]]
      /\ \A i \in 1 .. n : \A x \in Nat : g[i][x] = Behind(t, x, r[i])
  BY <1>3
<1> HIDE DEF g, n
<1>5. PICK f \in [0 .. n -> Nat] : f[0] = Start(t) /\ \A i \in 1 .. n : f[i] = g[i][f[i - 1]]
  <2>1. n \in Nat /\ g \in [1 .. n -> [Nat -> Nat]] /\ Start(t) \in Nat
    BY <1>1, <1>2, <1>4
  <2>2. PICK f : Iterates(n, Nat, Start(t), g, f)
    BY <2>1, StepByStep
  <2> QED
    BY <2>2 DEF Iterates
<1>6. \E at : at = Rec(at)
  <2> DEFINE h == [i \in 1 .. n + 1 |-> f[i - 1]]
  <2>1. ASSUME NEW i \in 1 .. n + 1
        PROVE  h[i] = IF i = 1 THEN Start(t) ELSE Behind(t, h[i - 1], r[i - 1])
    <3>1. CASE i = 1
      BY <1>1, <1>5, <3>1
    <3>2. CASE i # 1
      <4>1. i - 1 \in 1 .. n /\ i - 1 \in 1 .. n + 1 /\ (i - 1) - 1 \in 0 .. n
        BY <1>1, <3>2
      <4>2. f[i - 1] = g[i - 1][f[(i - 1) - 1]] /\ f[(i - 1) - 1] \in Nat
        BY <1>5, <4>1
      <4>3. f[i - 1] = Behind(t, f[(i - 1) - 1], r[i - 1])
        BY <1>4, <4>1, <4>2
      <4> QED
        BY <3>2, <4>1, <4>3
    <3> QED
      BY <3>1, <3>2
  <2>2. h = Rec(h)
    BY <2>1
  <2> QED
    BY <2>2
<1>7. Begins(t, r) = CHOOSE at : at = Rec(at)
  BY DEF Begins, n
<1>8. Begins(t, r) = Rec(Begins(t, r))
  BY <1>6, <1>7
<1>9. DOMAIN Begins(t, r) = 1 .. n + 1
  BY <1>8
<1>10. Begins(t, r)[1] = Start(t)
  BY <1>1, <1>8
<1>11. ASSUME NEW i \in 1 .. n PROVE Begins(t, r)[i + 1] = Behind(t, Begins(t, r)[i], r[i])
  <2>1. i + 1 \in 1 .. n + 1 /\ i + 1 # 1 /\ (i + 1) - 1 = i
    BY <1>1
  <2> QED
    BY <1>8, <2>1
<1>12. ASSUME NEW i \in 1 .. n + 1 PROVE Begins(t, r)[i] \in Nat
  <2> DEFINE S == {k \in Nat : k + 1 \in 1 .. n + 1 => Begins(t, r)[k + 1] \in Nat}
  <2>1. 0 \in S
    BY <1>2, <1>10
  <2>2. ASSUME NEW k \in 0 .. n - 1, k \in S PROVE k + 1 \in S
    <3>1. k + 1 \in 1 .. n /\ k + 1 \in 1 .. n + 1 /\ k + 1 \in Nat
      BY <1>1
    <3>2. Begins(t, r)[k + 1] \in Nat
      BY <2>2, <3>1
    <3>3. Begins(t, r)[(k + 1) + 1] \in Nat
      BY <1>3, <1>11, <3>1, <3>2
    <3> QED
      BY <3>1, <3>3
  <2> HIDE DEF S
  <2>3. i - 1 \in 0 .. n
    BY <1>1
  <2>4. i - 1 \in S
    BY <1>1, <2>1, <2>2, <2>3, UpTo
  <2>5. (i - 1) + 1 = i
    OBVIOUS
  <2> QED
    BY <2>4, <2>5 DEF S
<1>13. Begins(t, r) \in [1 .. n + 1 -> Nat]
  BY <1>8, <1>9, <1>12
<1> QED
  BY <1>10, <1>11, <1>13 DEF n

\* Records begin one behind the other.
LEMMA Ascending ==
  ASSUME NEW t \in Tables, NEW r \in Seq(Tails[t]), NEW i \in 1 .. Len(r) + 1,
         NEW j \in 1 .. Len(r) + 1, i < j
  PROVE  Begins(t, r)[i] < Begins(t, r)[j]
<1> DEFINE b == Begins(t, r)
           S == {k \in Nat : i + k + 1 <= Len(r) + 1 => b[i] < b[i + k + 1]}
<1>1. /\ Len(r) \in Nat /\ b \in [1 .. Len(r) + 1 -> Nat]
      /\ \A k \in 1 .. Len(r) : r[k] \in Tails[t] /\ b[k + 1] = Behind(t, b[k], r[k])
  BY Layout
<1>2. ASSUME NEW k \in 1 .. Len(r) PROVE b[k] \in Nat /\ b[k + 1] \in Nat /\ b[k] < b[k + 1]
  <2>1. b[k] \in Nat /\ r[k] \in Tails[t] /\ b[k + 1] = Behind(t, b[k], r[k])
    <3> HIDE DEF b
    <3>1. k \in 1 .. Len(r) + 1
      BY <1>1
    <3> QED
      BY <1>1, <3>1
  <2>2. \A x \in Nat, y \in Tails[t] : Behind(t, x, y) \in Nat /\ Behind(t, x, y) > x
    BY BehindIsAfter
  <2> HIDE DEF b
  <2> QED
    BY <2>1, <2>2
<1> HIDE DEF b
<1>3. 0 \in S
  <2>1. i + 0 + 1 <= Len(r) + 1 => i \in 1 .. Len(r) /\ i + 0 + 1 = i + 1
    BY <1>1
  <2> QED
    BY <1>2, <2>1
<1>4. ASSUME NEW k \in 0 .. Len(r) - 1, k \in S PROVE k + 1 \in S
  <2> SUFFICES ASSUME i + (k + 1) + 1 <= Len(r) + 1 PROVE b[i] < b[i + (k + 1) + 1]
    OBVIOUS
  <2>1. i + k + 1 \in 1 .. Len(r) /\ i \in 1 .. Len(r) /\ i + (k + 1) + 1 = (i + k + 1) + 1
    BY <1>1
  <2>2. b[i] < b[i + k + 1]
    BY <1>4, <2>1
  <2>3. /\ b[i + k + 1] < b[(i + k + 1) + 1]
        /\ b[i] \in Nat
        /\ b[i + k + 1] \in Nat
        /\ b[(i + k + 1) + 1] \in Nat
    BY <1>2, <2>1
  <2> QED
    BY <2>1, <2>2, <2>3
<1> HIDE DEF S
<1>5. j - i - 1 \in 0 .. Len(r) /\ i + (j - i - 1) + 1 = j
  BY <1>1
<1>6. j - i - 1 \in S
  BY <1>1, <1>3, <1>4, <1>5, UpTo
<1> QED
  BY <1>5, <1>6 DEF S, b

\* A record before the last one ends no later than the last one.
LEMMA Within ==
  ASSUME NEW at \in Nat, NEW bytes \in Nat, NEW tail \in Nat, NEW next \in Nat, NEW last \in Nat,
         NEW rest \in Nat, next >= at + bytes + tail, next <= last
  PROVE  at + bytes + tail <= last /\ at + bytes + tail <= last + bytes + rest
OBVIOUS

\* No record reaches behind the end of its table.
LEMMA EndIsBehind ==
  ASSUME NEW t \in Tables, NEW r \in Seq(Tails[t])
  PROVE  /\ End(t, r) \in Nat
         /\ \A i \in 1 .. Len(r) :
              t # "topology" => Begins(t, r)[i] + RecordSize[t] + r[i] <= End(t, r)
         /\ \A i \in 1 .. Len(r) + 1 : t # "types" /\ r # <<>> => Begins(t, r)[i] <= End(t, r)
<1> DEFINE b == Begins(t, r)
           n == Len(r)
<1>1. /\ n \in Nat /\ b \in [1 .. n + 1 -> Nat] /\ (r = <<>> <=> n = 0)
      /\ \A i \in 1 .. n : r[i] \in Tails[t] /\ b[i] \in Nat /\ b[i + 1] \in Nat
                             /\ b[i + 1] = Behind(t, b[i], r[i])
  <2>1. n \in Nat /\ (r = <<>> <=> n = 0) /\ \A i \in 1 .. n : r[i] \in Tails[t]
    OBVIOUS
  <2>2. b \in [1 .. n + 1 -> Nat] /\ \A i \in 1 .. n : b[i + 1] = Behind(t, b[i], r[i])
    BY Layout
  <2> HIDE DEF b, n
  <2>3. \A i \in 1 .. n : b[i] \in Nat /\ b[i + 1] \in Nat
    BY <2>1, <2>2
  <2> QED
    BY <2>1, <2>2, <2>3
<1>2. \A x \in Nat, y \in Tails[t] :
         /\ y \in Nat \ {0} /\ RecordSize[t] \in Nat \ {0} /\ Behind(t, x, y) \in Nat
         /\ t # "topology" => Behind(t, x, y) >= x + RecordSize[t] + y
         /\ t = "pagefiles" => Behind(t, x, y) = x + RecordSize[t] + y
  BY BehindIsAfter
<1>3. \A i, j \in 1 .. n + 1 : i < j => b[i] < b[j]
  BY Ascending
<1>4. End(t, r) = IF n = 0 THEN 0
                  ELSE IF t = "types" THEN b[n] + RecordSize[t] + r[n] ELSE b[n + 1]
  BY DEF End
<1> HIDE DEF b, n
<1>5. End(t, r) \in Nat
  <2>1. CASE n = 0
    BY <1>4, <2>1
  <2>2. CASE n # 0
    <3>1. n \in 1 .. n
      BY <1>1, <2>2
    <3>2. b[n] \in Nat /\ b[n + 1] \in Nat /\ r[n] \in Nat /\ RecordSize[t] \in Nat
      BY <1>1, <1>2, <3>1
    <3> QED
      BY <1>4, <2>2, <3>2
  <2> QED
    BY <2>1, <2>2
<1>6. ASSUME NEW i \in 1 .. n, t # "topology" PROVE b[i] + RecordSize[t] + r[i] <= End(t, r)
  <2>1. /\ b[i] \in Nat /\ r[i] \in Nat /\ RecordSize[t] \in Nat /\ b[i + 1] \in Nat
        /\ b[i + 1] >= b[i] + RecordSize[t] + r[i]
    <3>1. /\ b[i] \in Nat
          /\ r[i] \in Tails[t]
          /\ b[i + 1] = Behind(t, b[i], r[i])
          /\ b[i + 1] \in Nat
      BY <1>1
    <3>2. /\ r[i] \in Nat \ {0} /\ RecordSize[t] \in Nat \ {0}
          /\ Behind(t, b[i], r[i]) >= b[i] + RecordSize[t] + r[i]
      BY <1>2, <1>6, <3>1
    <3> QED
      BY <3>1, <3>2
  <2>2. n # 0 /\ n \in 1 .. n
    BY <1>1
  <2>3. CASE i = n
    BY <1>4, <1>6, <2>1, <2>2, <2>3
  <2>4. CASE i # n
    <3>1. /\ i + 1 \in 1 .. n + 1
          /\ n \in 1 .. n + 1
          /\ n + 1 \in 1 .. n + 1
          /\ i + 1 <= n
          /\ n < n + 1
      BY <1>1, <2>4
    <3>2. b[n] \in Nat /\ r[n] \in Nat /\ b[n + 1] \in Nat
      BY <1>1, <1>2, <2>2
    <3>3. b[i + 1] <= b[n] /\ b[n] < b[n + 1]
      <4>1. b[n] < b[n + 1]
        BY <1>3, <3>1
      <4>2. i + 1 = n \/ b[i + 1] < b[n]
        BY <1>3, <3>1
      <4> QED
        BY <2>1, <3>2, <4>1, <4>2
    <3>4. /\ b[i] + RecordSize[t] + r[i] <= b[n] + RecordSize[t] + r[n]
          /\ b[i] + RecordSize[t] + r[i] <= b[n + 1]
      <4>1. b[i + 1] <= b[n + 1]
        BY <2>1, <3>2, <3>3
      <4> QED
        BY <2>1, <3>2, <3>3, <4>1, Within
    <3> QED
      BY <1>4, <2>2, <3>4
  <2> QED
    BY <2>3, <2>4
<1>7. ASSUME NEW i \in 1 .. n + 1, t # "types", r # <<>> PROVE b[i] <= End(t, r)
  <2>1. n # 0 /\ n + 1 \in 1 .. n + 1 /\ b[i] \in Nat /\ b[n + 1] \in Nat
    BY <1>1, <1>7
  <2> QED
    BY <1>3, <1>4, <1>7, <2>1
<1> QED
  BY <1>5, <1>6, <1>7 DEF b, n

\* What is found at the cursor: the record that begins there, or none.
LEMMA FoundHere ==
  ASSUME table \in Tables, laid \in Seq(Tails[table]), NEW k \in 1 .. Len(laid) + 1,
         cursor = Begins(table, laid)[k]
  PROVE  Record0 = IF k <= Len(laid) THEN [at |-> k, tail |-> laid[k]]
                   ELSE [at |-> 0, tail |-> 0]
<1> DEFINE b == Begins(table, laid)
           n == Len(laid)
<1>1. n \in Nat /\ b \in [1 .. n + 1 -> Nat]
  BY Layout
<1>2. \A i, j \in 1 .. n + 1 : i < j => b[i] < b[j]
  BY Ascending
<1>3. Here = {i \in 1 .. n : b[i] = cursor}
  BY DEF Here
<1> HIDE DEF b, n
<1>4. ASSUME NEW i \in 1 .. n PROVE b[i] = b[k] <=> i = k
  <2>1. i \in 1 .. n + 1 /\ k \in 1 .. n + 1 /\ b[i] \in Nat /\ b[k] \in Nat
    BY <1>1 DEF n
  <2> QED
    BY <1>2, <2>1
<1>5. cursor = b[k]
  BY DEF b
<1>6. Here = {i \in 1 .. n : i = k}
  BY <1>3, <1>4, <1>5
<1>7. CASE k <= n
  <2>1. Here = {k}
    BY <1>1, <1>6, <1>7 DEF n
  <2>2. (CHOOSE i \in Here : TRUE) = k
    BY <2>1
  <2> QED
    BY <1>7, <2>1, <2>2 DEF Record0, n
<1>8. CASE ~(k <= n)
  <2>1. Here = {}
    BY <1>1, <1>6, <1>8 DEF n
  <2> QED
    BY <1>8, <2>1 DEF Record0, n
<1> QED
  BY <1>7, <1>8

\* Of a table without records nothing is found.
LEMMA NothingHere == ASSUME laid = <<>> PROVE Record0 = [at |-> 0, tail |-> 0]
<1>1. Here = {}
  BY DEF Here
<1> QED
  BY <1>1 DEF Record0

\* A table is a sequence of records, no longer than the bound.
LEMMA TablesAreSeqs ==
  ASSUME NEW t \in Tables, NEW r \in TablesOf(t)
  PROVE  r \in Seq(Tails[t]) /\ Len(r) \in 0 .. MaxRecords
<1>1. PICK n \in 0 .. MaxRecords : r \in [1 .. n -> Tails[t]]
  BY DEF TablesOf
<1>2. n \in Nat
  BY TableAssumption
<1> QED
  BY <1>1, <1>2

LEMMA InOrderGrows == ASSUME NEW n \in Nat PROVE Append(InOrder(n), n + 1) = InOrder(n + 1)
<1>1. InOrder(n) \in Seq(Nat) /\ Len(InOrder(n)) = n /\ \A i \in 1 .. n : InOrder(n)[i] = i
  BY DEF InOrder
<1>2. /\ InOrder(n + 1) \in Seq(Nat)
      /\ Len(InOrder(n + 1)) = n + 1
      /\ \A i \in 1 .. n + 1 : InOrder(n + 1)[i] = i
  BY DEF InOrder
<1> DEFINE s == InOrder(n)
           t == InOrder(n + 1)
<1> HIDE DEF s, t
<1>3. Append(s, n + 1) \in Seq(Nat) /\ Len(Append(s, n + 1)) = Len(t)
      /\ \A i \in 1 .. Len(t) : Append(s, n + 1)[i] = t[i]
  BY <1>1, <1>2 DEF s, t
<1> QED
  BY <1>2, <1>3 DEF s, t

-----------------------------------------------------------------------------
(* TableWalks: the rows of a process.                                      *)

\* The row of a handle, and how many of the first k handles are of the process.
RowOf(k) == [handle |-> handles[k], typeName |-> NameFor(handles[k].index)]

\* Handle k is one of the process that was asked for.
Owns(k) == handles[k].owner = ofPid

\* How many of the first k handles are of the process.
Count(k) == Cardinality({j \in 1 .. k : Owns(j)})

\* The next handle is counted if it is of the process.
LEMMA Counted ==
  ASSUME NEW k \in Nat
  PROVE  /\ Count(0) = 0 /\ Count(k) \in Nat
         /\ Count(k + 1) = IF Owns(k + 1) THEN Count(k) + 1 ELSE Count(k)
<1> DEFINE S == {j \in 1 .. k : Owns(j)}
           T == {j \in 1 .. k + 1 : Owns(j)}
<1>1. IsFiniteSet(1 .. k)
  BY FS_Interval
<1>2. IsFiniteSet(S)
  BY <1>1, FS_Subset
<1>3. {j \in 1 .. 0 : Owns(j)} = {}
  OBVIOUS
<1>4. Count(0) = 0
  BY <1>3, FS_EmptySet DEF Count
<1>5. Cardinality(S) \in Nat
  BY <1>2, FS_CardinalityType
<1>6. CASE Owns(k + 1)
  <2>1. T = S \cup {k + 1} /\ k + 1 \notin S
    BY <1>6
  <2>2. Cardinality(T) = Cardinality(S) + 1
    BY <1>2, <2>1, FS_AddElement
  <2> QED
    BY <1>4, <1>5, <1>6, <2>2 DEF Count
<1>7. CASE ~Owns(k + 1)
  <2>1. T = S
    BY <1>7
  <2> QED
    BY <1>4, <1>5, <1>7, <2>1 DEF Count
<1> QED
  BY <1>6, <1>7

\* What the loop over the first n handles has listed.
Listed(n, found) ==
  /\ Len(found) = Count(n)
  /\ \A k \in 1 .. n : Owns(k) => Count(k) \in 1 .. Count(n) /\ found[Count(k)] = RowOf(k)
  /\ \A i \in 1 .. Len(found) : \E k \in 1 .. n : Owns(k) /\ found[i] = RowOf(k)

\* The loop lists the next handle at the end, if it is of the process.
LEMMA ListedGrows ==
  ASSUME NEW R, NEW n \in Nat, NEW found \in Seq(R), NEW longer, Listed(n, found),
         longer = IF Owns(n + 1) THEN Append(found, RowOf(n + 1)) ELSE found
  PROVE  Listed(n + 1, longer)
<1>1. /\ Count(n) \in Nat /\ Count(n + 1) = IF Owns(n + 1) THEN Count(n) + 1 ELSE Count(n)
      /\ Len(found) = Count(n)
  BY Counted DEF Listed
<1>2. CASE Owns(n + 1)
  <2> DEFINE row == RowOf(n + 1)
  <2> HIDE DEF row
  <2>1. longer = Append(found, row) /\ found \in Seq(R)
    BY <1>2 DEF row
  <2>2. /\ Len(longer) = Count(n) + 1 /\ longer[Count(n) + 1] = row
        /\ \A i \in 1 .. Count(n) : longer[i] = found[i]
    BY <1>1, <2>1
  <2>3. ASSUME NEW k \in 1 .. n + 1, Owns(k)
        PROVE  Count(k) \in 1 .. Count(n + 1) /\ longer[Count(k)] = RowOf(k)
    <3>1. CASE k = n + 1
      BY <1>1, <1>2, <2>2, <3>1 DEF row
    <3>2. CASE k # n + 1
      <4>1. k \in 1 .. n
        BY <3>2
      <4>2. Count(k) \in 1 .. Count(n) /\ found[Count(k)] = RowOf(k)
        BY <2>3, <4>1 DEF Listed
      <4> QED
        BY <1>1, <1>2, <2>2, <4>2
    <3> QED
      BY <3>1, <3>2
  <2>4. ASSUME NEW i \in 1 .. Len(longer)
        PROVE  \E k \in 1 .. n + 1 : Owns(k) /\ longer[i] = RowOf(k)
    <3>1. CASE i = Count(n) + 1
      BY <1>2, <2>2, <3>1, n + 1 \in 1 .. n + 1 DEF row
    <3>2. CASE i # Count(n) + 1
      <4>1. i \in 1 .. Len(found) /\ longer[i] = found[i]
        BY <1>1, <2>2, <3>2
      <4>2. PICK k \in 1 .. n : Owns(k) /\ found[i] = RowOf(k)
        BY <4>1 DEF Listed
      <4> QED
        BY <4>1, <4>2, k \in 1 .. n + 1
    <3> QED
      BY <3>1, <3>2
  <2>5. Len(longer) = Count(n + 1)
    BY <1>1, <1>2, <2>2
  <2> QED
    BY <2>3, <2>4, <2>5 DEF Listed
<1>3. CASE ~Owns(n + 1)
  <2>1. longer = found /\ Count(n + 1) = Count(n)
    BY <1>1, <1>3
  <2>2. \A k \in 1 .. n + 1 : Owns(k) => k \in 1 .. n
    BY <1>3
  <2>3. \A k \in 1 .. n : k \in 1 .. n + 1
    OBVIOUS
  <2> QED
    BY <2>1, <2>2, <2>3 DEF Listed
<1> QED
  BY <1>2, <1>3

\* The rows of the process are those of its handles, each at its rank.
LEMMA RowsAreListed ==
  ASSUME declared \in Nat
  PROVE  /\ RowsOfHandles \in Seq({RowOf(k) : k \in 1 .. declared})
         /\ Listed(declared, RowsOfHandles)
<1> DEFINE n == declared
           R == {RowOf(k) : k \in 1 .. n}
           D == Seq(R)
           Rec(f) == [k \in 0 .. n |->
                        IF k = 0 THEN <<>>
                        ELSE IF handles[k].owner # ofPid THEN f[k - 1]
                        ELSE Append(f[k - 1], [handle   |-> handles[k],
                                               typeName |-> NameFor(handles[k].index)])]
           Longer(k, found) == IF Owns(k) THEN Append(found, RowOf(k)) ELSE found
           g == [k \in 1 .. n |-> [found \in D |-> Longer(k, found)]]
           upTo == CHOOSE f : f = Rec(f)
<1>1. n \in Nat
  OBVIOUS
<1>2. <<>> \in D
  OBVIOUS
<1>3. ASSUME NEW k \in 1 .. n, NEW found \in D PROVE Longer(k, found) \in D
  <2>1. RowOf(k) \in R
    OBVIOUS
  <2> HIDE DEF R
  <2> QED
    BY <2>1
<1>4. /\ g \in [1 .. n -> [D -> D]]
      /\ \A k \in 1 .. n : \A found \in D : g[k][found] = Longer(k, found)
  BY <1>3
<1>5. ASSUME NEW f PROVE Rec(f) = [k \in 0 .. n |-> IF k = 0 THEN <<>> ELSE Longer(k, f[k - 1])]
  <2>1. ASSUME NEW k \in 0 .. n
        PROVE  Rec(f)[k] = IF k = 0 THEN <<>> ELSE Longer(k, f[k - 1])
    BY DEF Owns, RowOf
  <2> QED
    BY <2>1
<1>6. RowsOfHandles = upTo[n]
  BY DEF RowsOfHandles
<1> HIDE DEF g, n, D, Rec, Longer, upTo
<1>7. PICK f : Iterates(n, D, <<>>, g, f)
  BY <1>1, <1>2, <1>4, StepByStep
<1>8. /\ f \in [0 .. n -> D] /\ f[0] = <<>>
      /\ \A k \in 1 .. n : f[k - 1] \in D /\ f[k] = Longer(k, f[k - 1])
  <2>1. f \in [0 .. n -> D] /\ f[0] = <<>> /\ \A k \in 1 .. n : f[k] = g[k][f[k - 1]]
    BY <1>7 DEF Iterates
  <2>2. \A k \in 1 .. n : k - 1 \in 0 .. n
    BY <1>1
  <2>3. \A k \in 1 .. n : f[k - 1] \in D
    BY <2>1, <2>2
  <2> QED
    BY <1>4, <2>1, <2>3
<1>9. f = Rec(f)
  <2>1. \A k \in 0 .. n : f[k] = IF k = 0 THEN <<>> ELSE Longer(k, f[k - 1])
    BY <1>1, <1>8
  <2> QED
    BY <1>5, <1>8, <2>1
<1>10. upTo = Rec(upTo)
  BY <1>9 DEF upTo
<1>11. \A k \in 0 .. n : upTo[k] = IF k = 0 THEN <<>> ELSE Longer(k, upTo[k - 1])
  BY <1>5, <1>10
<1> DEFINE S == {k \in Nat : upTo[k] \in D /\ Listed(k, upTo[k])}
<1>12. 0 \in S
  <2>1. upTo[0] = <<>>
    BY <1>1, <1>11
  <2>2. Count(0) = 0
    BY Counted
  <2> QED
    BY <1>2, <2>1, <2>2 DEF Listed
<1>13. ASSUME NEW k \in 0 .. n - 1, k \in S PROVE k + 1 \in S
  <2>1. k \in Nat /\ k + 1 \in 1 .. n /\ k + 1 \in 0 .. n /\ k + 1 # 0 /\ (k + 1) - 1 = k
    BY <1>1
  <2>2. upTo[k + 1] = Longer(k + 1, upTo[k]) /\ upTo[k] \in D /\ Listed(k, upTo[k])
    BY <1>11, <1>13, <2>1
  <2>3. upTo[k + 1] \in D
    BY <1>3, <2>1, <2>2
  <2>4. Listed(k + 1, upTo[k + 1])
    BY <2>1, <2>2, ListedGrows DEF Longer, D
  <2> QED
    BY <2>1, <2>3, <2>4
<1> HIDE DEF S
<1>14. n \in S
  BY <1>1, <1>12, <1>13, UpTo, n \in 0 .. n
<1> QED
  BY <1>6, <1>14 DEF S, D, n

-----------------------------------------------------------------------------
(* TableWalks: the invariant, and the steps.                               *)

\* A handle has the index of a type that is registered.
IndexesInv ==
  \A k \in 1 .. Len(handles) : \E i \in 1 .. registered : handles[k].index = TypeIndex(i)

\* Handles are asked for on the way to the table of types only.
StartsInv ==
  /\ stage \in {"idle", "answer"} \/ table # "types" => handles = <<>>
  /\ stage \in {"idle", "types", "answer"} => table = "types" /\ laid = <<>> /\ names = NoNames
  /\ stage = "filter" => table = "types"

\* The first n types have their names, and no other index has one.
Named(n) ==
  /\ DOMAIN names = {TypeIndex(i) : i \in 1 .. n}
  /\ \A i \in 1 .. n : names[TypeIndex(i)] = i

\* A walk is where its next record begins.
PlaceInv ==
  stage = "walk" =>
    /\ visited = InOrder(Len(visited)) /\ Len(visited) <= Len(laid)
    /\ cursor = Begins(table, laid)[Len(visited) + 1]
    /\ table = "types" =>
         Len(laid) = registered /\ room = End(table, laid) /\ Named(Len(visited))
    /\ table = "pagefiles" /\ laid # <<>> => room = End(table, laid) /\ Len(visited) < Len(laid)
    /\ table = "topology" => End(table, laid) <= room

\* The types are known when the rows are made: all of them, or none.
NamesInv == stage = "filter" => (laid = <<>> /\ names = NoNames) \/ Named(registered)

\* The inductive invariant of the walks through tables.
TablesInv ==
  /\ TablesTypeOK /\ IndexesInv /\ StartsInv /\ PlaceInv /\ NamesInv
  /\ TablesAreListedWhole /\ HandlesHaveTheirTypes

\* Types have different indexes.
LEMMA IndexTypes ==
  ASSUME TablesTypeOK, NEW i \in 1 .. MaxRecords
  PROVE  /\ TypeIndex(i) \in 1 .. MaxRecords + 1
         /\ \A j \in 1 .. MaxRecords : TypeIndex(j) = TypeIndex(i) => j = i
BY TableAssumption DEF TypeIndex, TablesTypeOK

\* What a walk knows of the record it is at.
LEMMA AtRecord ==
  ASSUME TablesInv, stage = "walk", NEW k, k = Len(visited) + 1
  PROVE  /\ table \in Tables /\ laid \in Seq(Tails[table]) /\ Len(laid) \in Nat
         /\ k \in 1 .. Len(laid) + 1 /\ visited = InOrder(k - 1)
         /\ RecordSize[table] \in Nat \ {0} /\ room \in Nat
         /\ cursor \in Nat /\ cursor = Begins(table, laid)[k]
         /\ k = Len(laid) + 1 => Record0 = [at |-> 0, tail |-> 0]
         /\ k <= Len(laid) =>
              /\ Record0 = [at |-> k, tail |-> laid[k]]
              /\ laid[k] \in Tails[table] /\ laid[k] \in Nat \ {0}
              /\ Begins(table, laid)[k + 1] = Behind(table, cursor, laid[k])
              /\ Behind(table, cursor, laid[k]) \in Nat
              /\ table # "topology" => cursor + RecordSize[table] + laid[k] <= End(table, laid)
<1>1. /\ table \in Tables /\ laid \in Seq(Tails[table]) /\ visited \in Seq(0 .. Len(laid))
      /\ room \in Nat /\ cursor \in Nat
  BY DEF TablesInv, TablesTypeOK
<1>2. Len(laid) \in Nat /\ Len(visited) \in Nat
  BY <1>1
<1>3. /\ visited = InOrder(Len(visited)) /\ Len(visited) <= Len(laid)
      /\ cursor = Begins(table, laid)[Len(visited) + 1]
  BY DEF TablesInv, PlaceInv
<1>4. k \in 1 .. Len(laid) + 1 /\ k - 1 = Len(visited)
  BY <1>2, <1>3
<1>5. Record0 = IF k <= Len(laid) THEN [at |-> k, tail |-> laid[k]] ELSE [at |-> 0, tail |-> 0]
  BY <1>1, <1>3, <1>4, FoundHere
<1>6. RecordSize[table] \in Nat \ {0}
  BY <1>1, TableAssumption
<1>7. ASSUME k <= Len(laid)
      PROVE  /\ laid[k] \in Tails[table] /\ laid[k] \in Nat \ {0}
             /\ Begins(table, laid)[k + 1] = Behind(table, cursor, laid[k])
             /\ Behind(table, cursor, laid[k]) \in Nat
             /\ table # "topology" => cursor + RecordSize[table] + laid[k] <= End(table, laid)
  <2>1. k \in 1 .. Len(laid)
    BY <1>2, <1>4, <1>7
  <2>2. laid[k] \in Tails[table]
    BY <1>1, <2>1
  <2>3. Begins(table, laid)[k + 1] = Behind(table, cursor, laid[k])
    BY <1>1, <1>3, <2>1, Layout
  <2>4. laid[k] \in Nat \ {0} /\ Behind(table, cursor, laid[k]) \in Nat
    BY <1>1, <2>2, BehindIsAfter
  <2>5. table # "topology" => cursor + RecordSize[table] + laid[k] <= End(table, laid)
    BY <1>1, <1>3, <2>1, EndIsBehind
  <2> QED
    BY <2>2, <2>3, <2>4, <2>5
<1> QED
  BY <1>1, <1>2, <1>3, <1>4, <1>5, <1>6, <1>7

LEMMA NameTypeKeeps == ASSUME TablesInv, NameType PROVE TablesInv'
<1> DEFINE k == Len(visited) + 1
<1>1. /\ stage = "walk" /\ table = "types" /\ k <= registered /\ stage' = "walk"
      /\ UNCHANGED <<registered, indexed, handles, declared, ofPid, table, laid, room, rows>>
  BY DEF NameType, Listing
<1>2. TablesTypeOK /\ StartsInv /\ IndexesInv
  BY DEF TablesInv
<1>3. Len(laid) = registered /\ room = End(table, laid) /\ Named(Len(visited))
  BY <1>1 DEF TablesInv, PlaceInv
<1>4. /\ table \in Tables /\ laid \in Seq(Tails[table]) /\ Len(laid) \in Nat
      /\ k \in 1 .. Len(laid) /\ visited = InOrder(k - 1)
      /\ RecordSize[table] \in Nat \ {0} /\ room \in Nat /\ cursor \in Nat
      /\ Record0 = [at |-> k, tail |-> laid[k]]
      /\ laid[k] \in Tails[table] /\ laid[k] \in Nat \ {0}
      /\ Begins(table, laid)[k + 1] = Behind(table, cursor, laid[k])
      /\ Behind(table, cursor, laid[k]) \in Nat
      /\ cursor + RecordSize[table] + laid[k] <= room
  <2>1. k <= Len(laid)
    BY <1>1, <1>3
  <2> HIDE DEF k
  <2>2. k = Len(visited) + 1
    BY DEF k
  <2>3. table # "topology"
    BY <1>1
  <2> QED
    BY <1>1, <1>3, <2>1, <2>2, <2>3, AtRecord
<1>5. Len(visited) = k - 1 /\ k \in Nat \ {0} /\ k - 1 \in Nat /\ (k - 1) + 1 = k
  <2>1. visited \in Seq(0 .. Len(laid))
    BY <1>2 DEF TablesTypeOK
  <2>2. Len(visited) \in Nat
    BY <2>1
  <2> QED
    BY <2>2
<1> DEFINE tail == laid[k]
           index == TypeIndex(k)
<1>6. /\ names' = IF tail <= Terminator \/ cursor + RecordSize[table] + tail - Terminator > room
                     \/ index \in DOMAIN names
                  THEN names
                  ELSE [x \in DOMAIN names \cup {index} |-> IF x = index THEN k ELSE names[x]]
      /\ visited' = Append(visited, k) /\ cursor' = PastRecord(tail)
  BY <1>4, <1>5 DEF NameType
<1> HIDE DEF k
<1>7. tail > Terminator /\ Terminator \in Nat /\ tail \in Nat /\ k \in 1 .. MaxRecords
  BY <1>1, <1>2, <1>3, <1>4, TableAssumption DEF TablesTypeOK
<1>8. cursor + RecordSize[table] + tail - Terminator <= room
  <2>1. /\ cursor \in Nat /\ RecordSize[table] \in Nat /\ room \in Nat
        /\ cursor + RecordSize[table] + tail <= room
    BY <1>4
  <2> HIDE DEF tail
  <2> QED
    BY <1>7, <2>1
<1>9. /\ \A i \in 1 .. k - 1 : i \in 1 .. MaxRecords /\ TypeIndex(i) # index
      /\ index \in 1 .. MaxRecords + 1
  <2>1. \A i \in 1 .. k - 1 : i \in 1 .. MaxRecords /\ i # k
    BY <1>7, TableAssumption
  <2> QED
    BY <1>2, <1>7, <2>1, IndexTypes
<1>10. /\ DOMAIN names = {TypeIndex(i) : i \in 1 .. k - 1}
       /\ \A i \in 1 .. k - 1 : names[TypeIndex(i)] = i
  BY <1>3, <1>5 DEF Named
<1>11. index \notin DOMAIN names
  BY <1>9, <1>10
<1>12. names' = [x \in DOMAIN names \cup {index} |-> IF x = index THEN k ELSE names[x]]
  <2>1. ~(tail <= Terminator)
    BY <1>7
  <2>2. ~(cursor + RecordSize[table] + tail - Terminator > room)
    <3> HIDE DEF tail
    <3>1. cursor + RecordSize[table] + tail - Terminator \in Int
      <4>1. cursor \in Nat /\ RecordSize[table] \in Nat /\ tail \in Nat /\ Terminator \in Nat
        BY <1>4, <1>7
      <4> QED
        BY <4>1
    <3> QED
      BY <1>4, <1>8, <3>1
  <2> HIDE DEF tail, index
  <2> QED
    BY <1>6, <1>11, <2>1, <2>2
<1>13. /\ DOMAIN names' = {TypeIndex(i) : i \in 1 .. k}
       /\ \A i \in 1 .. k : names'[TypeIndex(i)] = i
  <2>1. 1 .. k = (1 .. k - 1) \cup {k}
    BY <1>5
  <2>2. names'[index] = k /\ \A i \in 1 .. k - 1 : names'[TypeIndex(i)] = i
    BY <1>9, <1>10, <1>12
  <2>3. DOMAIN names' = {TypeIndex(i) : i \in 1 .. k - 1} \cup {index}
    BY <1>10, <1>12
  <2> QED
    BY <2>1, <2>2, <2>3
<1>14. visited' = InOrder(k) /\ Len(visited') = k
  <2>1. visited' = InOrder(k)
    BY <1>4, <1>5, <1>6, InOrderGrows
  <2> QED
    BY <1>5, <2>1 DEF InOrder
<1>15. cursor' = Begins(table, laid)[k + 1] /\ cursor' \in Nat
  BY <1>1, <1>4, <1>6 DEF PastRecord, Behind
<1>16. TablesTypeOK'
  <2>1. visited' \in Seq(0 .. Len(laid'))
    <3>1. \A i \in 1 .. k : i \in 0 .. Len(laid)
      BY <1>4
    <3> QED
      BY <1>1, <1>5, <1>14, <3>1 DEF InOrder
  <2>2. DOMAIN names' \subseteq 1 .. MaxRecords + 1
    BY <1>2, <1>9, <1>12 DEF TablesTypeOK
  <2>3. \A x \in DOMAIN names' : names'[x] \in 1 .. Len(laid')
    BY <1>1, <1>2, <1>4, <1>12 DEF TablesTypeOK
  <2> QED
    BY <1>1, <1>2, <1>15, <2>1, <2>2, <2>3 DEF TablesTypeOK
<1>17. IndexesInv' /\ StartsInv' /\ NamesInv'
  <2>1. IndexesInv'
    BY <1>1, <1>2 DEF IndexesInv, TypeIndex
  <2> QED
    BY <1>1, <1>2, <2>1 DEF StartsInv, NamesInv
<1>18. PlaceInv'
  <2>1. Named(Len(visited))'
    BY <1>1, <1>13, <1>14 DEF Named, TypeIndex
  <2>2. visited' = InOrder(Len(visited')) /\ Len(visited') <= Len(laid')
        /\ cursor' = Begins(table', laid')[Len(visited') + 1]
        /\ Len(laid') = registered' /\ room' = End(table', laid')
    BY <1>1, <1>3, <1>4, <1>14, <1>15
  <2> QED
    BY <1>1, <2>1, <2>2 DEF PlaceInv
<1>19. TablesAreListedWhole' /\ HandlesHaveTheirTypes'
  BY <1>1 DEF TablesAreListedWhole, HandlesHaveTheirTypes
<1> QED
  BY <1>16, <1>17, <1>18, <1>19 DEF TablesInv

\* Answers.
LEMMA AnswerKeeps ==
  ASSUME TablesInv, NEW t \in Tables, NEW r \in Seq(Tails[t]), NEW bytes \in Nat,
         Answer(t, r, bytes),
         UNCHANGED <<registered, indexed, handles, declared, ofPid, names, rows>>,
         stage \in {"idle", "types", "answer"}, t # "types" => handles = <<>>,
         t = "types" => Len(r) = registered /\ bytes = End(t, r),
         t = "pagefiles" /\ r # <<>> => bytes = End(t, r),
         t = "topology" => End(t, r) <= bytes
  PROVE  TablesInv'
<1>1. /\ table' = t /\ laid' = r /\ room' = bytes /\ cursor' = Start(t) /\ visited' = <<>>
      /\ stage' = "walk"
  BY DEF Answer
<1>2. TablesTypeOK /\ StartsInv /\ IndexesInv /\ names = NoNames
  BY DEF TablesInv, StartsInv
<1>3. /\ Len(r) \in Nat /\ Begins(t, r)[1] = Start(t) /\ Begins(t, r)[1] \in Nat
      /\ (r = <<>> <=> Len(r) = 0)
  <2>1. Len(r) \in Nat /\ (r = <<>> <=> Len(r) = 0)
    OBVIOUS
  <2>2. Begins(t, r) \in [1 .. Len(r) + 1 -> Nat] /\ Begins(t, r)[1] = Start(t)
    BY Layout
  <2> QED
    BY <2>1, <2>2
<1>4. DOMAIN names = {}
  BY <1>2 DEF NoNames
<1>5. TablesTypeOK'
  BY <1>1, <1>2, <1>3, <1>4 DEF TablesTypeOK
<1>6. IndexesInv' /\ StartsInv' /\ NamesInv'
  <2>1. IndexesInv'
    BY <1>1, <1>2 DEF IndexesInv, TypeIndex
  <2>2. StartsInv'
    BY <1>1 DEF StartsInv
  <2>3. NamesInv'
    BY <1>1 DEF NamesInv
  <2> QED
    BY <2>1, <2>2, <2>3
<1>7. PlaceInv'
  <2>1. Len(visited') = 0 /\ visited' = InOrder(Len(visited'))
    BY <1>1 DEF InOrder
  <2>2. Named(Len(visited))'
    BY <1>1, <1>4, <2>1 DEF Named
  <2>3. cursor' = Begins(table', laid')[Len(visited') + 1] /\ Len(visited') <= Len(laid')
    BY <1>1, <1>3, <2>1
  <2>4. /\ table' = "types" => Len(laid') = registered' /\ room' = End(table', laid')
        /\ table' = "pagefiles" /\ laid' # <<>> =>
             room' = End(table', laid') /\ Len(visited') < Len(laid')
        /\ table' = "topology" => End(table', laid') <= room'
    BY <1>1, <1>3, <2>1
  <2> QED
    BY <2>1, <2>2, <2>3, <2>4 DEF PlaceInv
<1>8. TablesAreListedWhole' /\ HandlesHaveTheirTypes'
  BY <1>1 DEF TablesAreListedWhole, HandlesHaveTheirTypes
<1> QED
  BY <1>5, <1>6, <1>7, <1>8 DEF TablesInv

\* Where only the stage, and nothing a walk has found, moves.
LEMMA StageKeeps ==
  ASSUME TablesInv, UNCHANGED <<indexed, ofPid, table, laid, cursor, visited, names, rows>>,
         registered' \in registered .. MaxRecords, room' \in Nat,
         declared' \in 0 .. MaxRecords + 1,
         stage \in {"idle", "types", "answer"},
         stage' \in {"idle", "types", "answer", "failed", "filter"},
         handles' \in Seq([owner : Pids, index : 1 .. MaxRecords + 1]),
         \A k \in 1 .. Len(handles') :
           \E i \in 1 .. registered' : handles'[k].index = TypeIndex(i),
         stage' \in {"idle", "answer"} => handles' = <<>>,
         ofPid' \in Pids \cup {Everybody}
  PROVE  TablesInv'
<1>1. TablesTypeOK /\ StartsInv
  BY DEF TablesInv
<1>2. table = "types" /\ laid = <<>> /\ names = NoNames
  BY <1>1 DEF StartsInv
<1>3. registered' \in 1 .. MaxRecords
  BY <1>1 DEF TablesTypeOK
<1>4. TablesTypeOK'
  BY <1>1, <1>3 DEF TablesTypeOK
<1>5. IndexesInv'
  BY DEF IndexesInv, TypeIndex
<1>6. StartsInv' /\ NamesInv'
  BY <1>2 DEF StartsInv, NamesInv
<1>7. PlaceInv' /\ TablesAreListedWhole' /\ HandlesHaveTheirTypes'
  BY DEF PlaceInv, TablesAreListedWhole, HandlesHaveTheirTypes
<1> QED
  BY <1>4, <1>5, <1>6, <1>7 DEF TablesInv

LEMMA QueryHandlesKeeps ==
  ASSUME TablesInv, NEW p \in Pids,
         NEW entries \in Listings, NEW count \in Counts(entries),
         QueryHandles(p, entries, count)
  PROVE  TablesInv'
<1>1. PICK n \in 0 .. MaxRecords : entries \in [1 .. n -> Entry]
  BY DEF Listings
<1>2. TablesTypeOK
  BY DEF TablesInv
<1>3. /\ MaxRecords \in Nat
      /\ n \in Nat
      /\ registered \in 1 .. MaxRecords
      /\ registered \in registered .. MaxRecords
  BY <1>2, TableAssumption DEF TablesTypeOK
<1>4. \A e \in Entry : /\ e \in [owner : Pids, index : 1 .. MaxRecords + 1]
                       /\ \E i \in 1 .. registered : e.index = TypeIndex(i)
  <2>1. \A i \in 1 .. registered : i \in 1 .. MaxRecords
    BY <1>3
  <2>2. \A i \in 1 .. registered : TypeIndex(i) \in 1 .. MaxRecords + 1
    BY <1>2, <2>1, IndexTypes
  <2> QED
    BY <2>2 DEF Entry
<1>5. /\ entries \in Seq([owner : Pids, index : 1 .. MaxRecords + 1])
      /\ \A k \in 1 .. Len(entries) : \E i \in 1 .. registered : entries[k].index = TypeIndex(i)
  <2>1. entries \in Seq(Entry)
    BY <1>1, <1>3
  <2> HIDE DEF Entry
  <2>2. \A k \in 1 .. Len(entries) : entries[k] \in Entry
    BY <2>1
  <2>3. entries \in Seq([owner : Pids, index : 1 .. MaxRecords + 1])
    <3> DEFINE R == [owner : Pids, index : 1 .. MaxRecords + 1]
    <3>1. \A e \in Entry : e \in R
      BY <1>4
    <3> HIDE DEF R
    <3>2. entries \in [1 .. n -> R]
      BY <1>1, <3>1
    <3>3. entries \in Seq(R)
      BY <1>3, <3>2
    <3> QED
      BY <3>3 DEF R
  <2> QED
    BY <1>4, <2>2, <2>3
<1>6. /\ stage = "idle" /\ stage' \in {"types", "failed"}
      /\ handles' = entries /\ declared' = count /\ ofPid' = p
      /\ UNCHANGED <<registered, indexed, table, laid, room, cursor, visited, names, rows>>
  BY DEF QueryHandles
<1> HIDE DEF Entry
<1>7. TablesTypeOK /\ StartsInv /\ table = "types" /\ laid = <<>> /\ names = NoNames
  BY <1>6 DEF TablesInv, StartsInv
<1>8. TablesTypeOK'
  <2>1. declared' \in 0 .. MaxRecords + 1
    BY <1>6 DEF Counts
  <2> QED
    BY <1>5, <1>6, <1>7, <2>1 DEF TablesTypeOK
<1>9. IndexesInv'
  BY <1>5, <1>6 DEF IndexesInv, TypeIndex
<1>10. StartsInv' /\ NamesInv'
  BY <1>6, <1>7 DEF StartsInv, NamesInv
<1>11. PlaceInv' /\ TablesAreListedWhole' /\ HandlesHaveTheirTypes'
  BY <1>6 DEF PlaceInv, TablesAreListedWhole, HandlesHaveTheirTypes
<1> QED
  BY <1>8, <1>9, <1>10, <1>11 DEF TablesInv

LEMMA QueryKeeps == ASSUME TablesInv, Query PROVE TablesInv'
<1>0. /\ TablesTypeOK
      /\ StartsInv
      /\ IndexesInv
      /\ registered \in 1 .. MaxRecords
      /\ MaxRecords \in Nat
      /\ room \in Nat /\ ofPid \in Pids \cup {Everybody}
      /\ declared \in 0 .. MaxRecords + 1
      /\ handles \in Seq([owner : Pids, index : 1 .. MaxRecords + 1])
  BY TableAssumption DEF TablesInv, TablesTypeOK
<1>1. ASSUME NEW p \in Pids, NEW entries \in Listings, NEW count \in Counts(entries),
             QueryHandles(p, entries, count)
      PROVE  TablesInv'
  BY <1>1, QueryHandlesKeeps
<1>2. ASSUME NEW r \in TablesOf("types"), QueryTypes(r) PROVE TablesInv'
  <2>1. "types" \in Tables /\ r \in Seq(Tails["types"]) /\ End("types", r) \in Nat
    BY TablesAreSeqs, EndIsBehind DEF Tables
  <2>2. /\ stage = "types" /\ Len(r) = registered /\ Answer("types", r, End("types", r))
        /\ UNCHANGED <<registered, indexed, handles, declared, ofPid, names, rows>>
    BY <1>2 DEF QueryTypes
  <2> QED
    BY <2>1, <2>2, AnswerKeeps
<1>3. ASSUME NEW r \in TablesOf("pagefiles"), QueryPagefiles(r) PROVE TablesInv'
  <2> DEFINE bytes == IF r = <<>> THEN Unwritten ELSE End("pagefiles", r)
  <2>1. "pagefiles" \in Tables /\ r \in Seq(Tails["pagefiles"]) /\ End("pagefiles", r) \in Nat
    BY TablesAreSeqs, EndIsBehind DEF Tables
  <2>2. bytes \in Nat
    BY <2>1, TableAssumption
  <2>3. /\ stage = "idle" /\ Answer("pagefiles", r, bytes)
        /\ UNCHANGED <<registered, indexed, handles, declared, ofPid, names, rows>>
    BY <1>3 DEF QueryPagefiles
  <2>4. handles = <<>>
    BY <1>0, <2>3 DEF StartsInv
  <2>5. r # <<>> => bytes = End("pagefiles", r)
    OBVIOUS
  <2> HIDE DEF bytes
  <2> QED
    BY <2>1, <2>2, <2>3, <2>4, <2>5, AnswerKeeps
<1>4. ASSUME NEW r \in TablesOf("topology"), QueryLength(r) PROVE TablesInv'
  <2>1. "topology" \in Tables /\ r \in Seq(Tails["topology"]) /\ End("topology", r) \in Nat
    BY TablesAreSeqs, EndIsBehind DEF Tables
  <2>2. /\ stage = "idle" /\ room' = End("topology", r) /\ stage' = "answer"
        /\ UNCHANGED <<registered, indexed, handles, declared, ofPid, table, laid, cursor,
                       visited, names, rows>>
    BY <1>4 DEF QueryLength
  <2>3. handles = <<>>
    BY <1>0, <2>2 DEF StartsInv
  <2> QED
    BY <1>0, <2>1, <2>2, <2>3, StageKeeps DEF IndexesInv
<1>5. ASSUME NEW r \in TablesOf("topology"), QueryTopology(r) PROVE TablesInv'
  <2>1. "topology" \in Tables /\ r \in Seq(Tails["topology"]) /\ End("topology", r) \in Nat
    BY TablesAreSeqs, EndIsBehind DEF Tables
  <2>2. /\ stage = "answer" /\ End("topology", r) <= room /\ Answer("topology", r, room)
        /\ UNCHANGED <<registered, indexed, handles, declared, ofPid, names, rows>>
    BY <1>5 DEF QueryTopology
  <2>3. handles = <<>>
    BY <1>0, <2>2 DEF StartsInv
  <2> QED
    BY <1>0, <2>1, <2>2, <2>3, AnswerKeeps
<1>6. ASSUME TypesFail PROVE TablesInv'
  <2>1. /\ stage = "types" /\ stage' = "filter"
        /\ UNCHANGED <<registered, indexed, handles, declared, ofPid, table, laid, room,
                       cursor, visited, names, rows>>
    BY <1>6 DEF TypesFail
  <2> QED
    BY <1>0, <2>1, StageKeeps DEF IndexesInv
<1>7. ASSUME QueryFails PROVE TablesInv'
  <2>1. /\ stage \in {"idle", "answer"} /\ stage' = "failed"
        /\ UNCHANGED <<registered, indexed, handles, declared, ofPid, table, laid, room,
                       cursor, visited, names, rows>>
    BY <1>7 DEF QueryFails
  <2>2. handles = <<>>
    BY <1>0, <2>1 DEF StartsInv
  <2> QED
    BY <1>0, <2>1, <2>2, StageKeeps DEF IndexesInv
<1> QED
  BY <1>1, <1>2, <1>3, <1>4, <1>5, <1>6, <1>7 DEF Query

LEMMA RegisterKeeps == ASSUME TablesInv, RegisterType PROVE TablesInv'
<1>1. /\ stage \in {"idle", "types"} /\ registered < MaxRecords /\ registered' = registered + 1
      /\ UNCHANGED <<indexed, handles, declared, ofPid, stage, table, laid, room, cursor,
                     visited, names, rows>>
  BY DEF RegisterType
<1>2. /\ TablesTypeOK
      /\ StartsInv
      /\ IndexesInv
      /\ registered \in 1 .. MaxRecords
      /\ MaxRecords \in Nat
      /\ room \in Nat /\ ofPid \in Pids \cup {Everybody}
      /\ declared \in 0 .. MaxRecords + 1
      /\ handles \in Seq([owner : Pids, index : 1 .. MaxRecords + 1])
  BY TableAssumption DEF TablesInv, TablesTypeOK
<1>3. \A i \in 1 .. registered : i \in 1 .. registered'
  BY <1>1, <1>2
<1>4. stage' = "idle" => handles' = <<>>
  BY <1>1, <1>2 DEF StartsInv
<1> QED
  BY <1>1, <1>2, <1>3, <1>4, StageKeeps DEF IndexesInv

LEMMA EndOfTypesKeeps == ASSUME TablesInv, EndOfTypes PROVE TablesInv'
<1> DEFINE k == Len(visited) + 1
<1>1. /\ stage = "walk" /\ table = "types" /\ stage' = "filter"
      /\ Len(visited) = registered \/ ~RecordFits
      /\ UNCHANGED <<registered, indexed, handles, declared, ofPid, table, laid, room, cursor,
                     visited, names, rows>>
  BY DEF EndOfTypes, Listing
<1>2. TablesTypeOK /\ StartsInv /\ IndexesInv
  BY DEF TablesInv
<1>3. /\ Len(laid) = registered /\ room = End(table, laid) /\ Named(Len(visited))
      /\ Len(visited) <= Len(laid)
  BY <1>1 DEF TablesInv, PlaceInv
<1>4. Len(visited) \in Nat /\ Len(laid) \in Nat
  BY <1>2 DEF TablesTypeOK
<1>5. Len(visited) = registered
  <2> SUFFICES ASSUME Len(visited) # registered PROVE FALSE
    OBVIOUS
  <2>1. k <= Len(laid) /\ table # "topology"
    BY <1>1, <1>3, <1>4
  <2>2. /\ RecordSize[table] \in Nat \ {0}
        /\ room \in Nat
        /\ cursor \in Nat
        /\ laid[k] \in Nat \ {0}
        /\ cursor + RecordSize[table] + laid[k] <= room
    <3> HIDE DEF k
    <3>1. k = Len(visited) + 1
      BY DEF k
    <3> QED
      BY <1>1, <1>3, <2>1, <3>1, AtRecord
  <2>3. RecordFits
    <3> HIDE DEF k
    <3> QED
      BY <2>2 DEF RecordFits
  <2> QED
    BY <1>1, <2>3
<1>6. TablesTypeOK'
  BY <1>1, <1>2 DEF TablesTypeOK
<1>7. IndexesInv' /\ StartsInv'
  BY <1>1, <1>2 DEF IndexesInv, TypeIndex, StartsInv
<1>8. NamesInv'
  <2>1. Named(registered)
    BY <1>3, <1>5
  <2> QED
    BY <1>1, <2>1 DEF NamesInv, Named, TypeIndex
<1>9. PlaceInv' /\ TablesAreListedWhole' /\ HandlesHaveTheirTypes'
  BY <1>1 DEF PlaceInv, TablesAreListedWhole, HandlesHaveTheirTypes
<1> QED
  BY <1>6, <1>7, <1>8, <1>9 DEF TablesInv

\* A walk that visits the record it is at.
LEMMA VisitKeeps ==
  ASSUME TablesInv, stage = "walk", table # "types", NEW k, k = Len(visited) + 1,
         k <= Len(laid), visited' = Append(visited, k),
         UNCHANGED <<registered, indexed, handles, declared, ofPid, table, laid, room, names,
                     rows>>,
         cursor' \in Nat
  PROVE  /\ visited' = InOrder(k) /\ Len(visited') = k
         /\ stage' \in {"idle", "types", "answer", "walk", "filter", "done", "failed"} =>
              TablesTypeOK'
         /\ IndexesInv' /\ handles' = <<>> /\ table' # "types"
<1>1. /\ TablesTypeOK /\ StartsInv /\ IndexesInv
  BY DEF TablesInv
<1>2. k \in 1 .. Len(laid) + 1 /\ Len(laid) \in Nat /\ visited = InOrder(k - 1)
  BY AtRecord
<1>3. k - 1 \in Nat /\ (k - 1) + 1 = k /\ k \in 1 .. Len(laid)
  BY <1>2
<1>4. visited' = InOrder(k)
  BY <1>2, <1>3, InOrderGrows
<1>5. Len(visited') = k
  BY <1>3, <1>4 DEF InOrder
<1>6. visited' \in Seq(0 .. Len(laid'))
  <2>1. k \in Nat /\ \A i \in 1 .. k : i \in 0 .. Len(laid)
    BY <1>2, <1>3
  <2>2. InOrder(k) \in [1 .. k -> 0 .. Len(laid)]
    BY <2>1 DEF InOrder
  <2>3. InOrder(k) \in Seq(0 .. Len(laid))
    BY <2>1, <2>2
  <2> QED
    BY <1>4, <2>3
<1>7. stage' \in {"idle", "types", "answer", "walk", "filter", "done", "failed"} => TablesTypeOK'
  BY <1>1, <1>6 DEF TablesTypeOK
<1>8. IndexesInv' /\ handles' = <<>>
  BY <1>1 DEF IndexesInv, TypeIndex, StartsInv
<1> QED
  BY <1>4, <1>5, <1>7, <1>8

LEMMA ListPagefileKeeps == ASSUME TablesInv, ListPagefile PROVE TablesInv'
<1> DEFINE next == NextPagefile(Record0)
<1>1. /\ stage = "walk" /\ table = "pagefiles" /\ visited' = Append(visited, Record0.at)
      /\ UNCHANGED <<registered, indexed, handles, declared, ofPid, table, laid, room, names,
                     rows>>
      /\ IF next > cursor /\ next < room THEN cursor' = next /\ stage' = stage
         ELSE stage' = "done" /\ cursor' = cursor
  BY DEF ListPagefile, Listing
<1>2. TablesTypeOK /\ StartsInv /\ IndexesInv /\ PlaceInv
  BY DEF TablesInv
<1> DEFINE k == Len(visited) + 1
           n == Len(laid)
<1>3. k = Len(visited) + 1 /\ n = Len(laid)
  OBVIOUS
<1> HIDE DEF k, n
<1>4. /\ n \in Nat /\ k \in 1 .. n + 1 /\ cursor \in Nat /\ room \in Nat
      /\ cursor = Begins(table, laid)[k] /\ RecordSize[table] \in Nat \ {0}
      /\ table \in Tables /\ laid \in Seq(Tails[table])
      /\ k = n + 1 => Record0 = [at |-> 0, tail |-> 0]
      /\ k <= n =>
           /\ Record0 = [at |-> k, tail |-> laid[k]]
           /\ laid[k] \in Tails[table] /\ laid[k] \in Nat \ {0}
           /\ Begins(table, laid)[k + 1] = Behind(table, cursor, laid[k])
           /\ Behind(table, cursor, laid[k]) \in Nat
  BY <1>1, <1>3, AtRecord
<1>5. CASE laid = <<>>
  <2>1. n = 0 /\ k = 1 /\ visited = <<>>
    <3>1. n = 0 /\ k = 1 /\ Len(visited) = 0
      BY <1>3, <1>4, <1>5
    <3> QED
      BY <1>2, <3>1 DEF TablesTypeOK
  <2>2. Record0 = [at |-> 0, tail |-> 0] /\ next = cursor
    <3>1. Record0 = [at |-> 0, tail |-> 0]
      BY <1>4, <2>1
    <3> QED
      BY <3>1 DEF NextPagefile
  <2>3. stage' = "done" /\ cursor' = cursor /\ visited' = <<0>>
    <3> HIDE DEF next
    <3> QED
      BY <1>1, <1>4, <2>1, <2>2
  <2>4. TablesTypeOK'
    <3>1. visited' \in Seq(0 .. Len(laid'))
      BY <1>1, <1>3, <2>1, <2>3
    <3> QED
      BY <1>1, <1>2, <2>3, <3>1 DEF TablesTypeOK
  <2>5. IndexesInv' /\ StartsInv' /\ NamesInv' /\ PlaceInv'
    BY <1>1, <1>2, <2>3 DEF IndexesInv, TypeIndex, StartsInv, NamesInv, PlaceInv
  <2>6. TablesAreListedWhole' /\ HandlesHaveTheirTypes'
    BY <1>1, <1>2, <1>5, <2>3 DEF StartsInv, TablesAreListedWhole, HandlesHaveTheirTypes
  <2> QED
    BY <2>4, <2>5, <2>6 DEF TablesInv
<1>6. CASE laid # <<>>
  <2>1. k \in 1 .. n /\ room = End(table, laid) /\ End(table, laid) = Begins(table, laid)[n + 1]
    <3>1. room = End(table, laid) /\ Len(visited) < n /\ n # 0
      BY <1>1, <1>2, <1>3, <1>6 DEF PlaceInv, TablesTypeOK
    <3>2. End(table, laid) = Begins(table, laid)[n + 1]
      BY <1>1, <1>3, <3>1 DEF End
    <3>3. Len(visited) \in Nat
      BY <1>2 DEF TablesTypeOK
    <3> QED
      BY <1>3, <1>4, <3>1, <3>2, <3>3
  <2>2. /\ Record0 = [at |-> k, tail |-> laid[k]] /\ laid[k] \in Nat \ {0}
        /\ Begins(table, laid)[k + 1] = cursor + RecordSize["pagefiles"] + laid[k]
        /\ visited' = Append(visited, k)
    BY <1>1, <1>4, <2>1 DEF Behind
  <2>3. next = IF k < n THEN cursor + RecordSize["pagefiles"] + laid[k] ELSE cursor
    <3>1. k \in 1 .. n - 1 <=> k < n
      BY <1>4, <2>1
    <3> QED
      BY <1>3, <2>2, <3>1 DEF NextPagefile
  <2>4. next \in Nat
    BY <1>1, <1>4, <2>2, <2>3
  <2>5. CASE k < n
    <3>1. Begins(table, laid)[k + 1] < Begins(table, laid)[n + 1]
      <4>1. k + 1 \in 1 .. n + 1 /\ n + 1 \in 1 .. n + 1 /\ k + 1 < n + 1
        BY <1>4, <2>1, <2>5
      <4> QED
        BY <1>3, <1>4, <4>1, Ascending
    <3>2. next = Begins(table, laid)[k + 1]
      BY <2>2, <2>3, <2>5
    <3>3. next > cursor
      BY <1>1, <1>4, <2>2, <2>3, <2>5
    <3> HIDE DEF next
    <3>4. stage' = "walk" /\ cursor' = Begins(table, laid)[k + 1] /\ cursor' \in Nat
      BY <1>1, <2>1, <2>4, <3>1, <3>2, <3>3
    <3>5. /\ visited' = InOrder(k) /\ Len(visited') = k /\ TablesTypeOK' /\ IndexesInv'
          /\ handles' = <<>> /\ table' # "types"
      <4>1. k = Len(visited) + 1 /\ k <= Len(laid) /\ visited' = Append(visited, k)
        BY <1>3, <1>4, <2>1, <2>2
      <4> QED
        BY <1>1, <3>4, <4>1, VisitKeeps
    <3>6. StartsInv' /\ NamesInv'
      BY <3>4, <3>5 DEF StartsInv, NamesInv
    <3>7. PlaceInv'
      BY <1>1, <1>3, <2>1, <2>5, <3>4, <3>5 DEF PlaceInv
    <3>8. TablesAreListedWhole' /\ HandlesHaveTheirTypes'
      BY <3>4 DEF TablesAreListedWhole, HandlesHaveTheirTypes
    <3> QED
      BY <3>5, <3>6, <3>7, <3>8 DEF TablesInv
  <2>6. CASE ~(k < n)
    <3>1. k = n /\ next = cursor
      BY <1>4, <2>1, <2>3, <2>6
    <3> HIDE DEF next
    <3>2. stage' = "done" /\ cursor' = cursor /\ cursor' \in Nat
      BY <1>1, <1>4, <3>1
    <3>3. /\ visited' = InOrder(k) /\ TablesTypeOK' /\ IndexesInv'
          /\ handles' = <<>> /\ table' # "types"
      <4>1. k = Len(visited) + 1 /\ k <= Len(laid) /\ visited' = Append(visited, k)
        BY <1>3, <1>4, <2>1, <2>2
      <4> QED
        BY <1>1, <3>2, <4>1, VisitKeeps
    <3>4. StartsInv' /\ NamesInv' /\ PlaceInv'
      BY <3>2, <3>3 DEF StartsInv, NamesInv, PlaceInv
    <3>5. TablesAreListedWhole'
      BY <1>1, <1>3, <3>1, <3>3 DEF TablesAreListedWhole
    <3>6. HandlesHaveTheirTypes'
      BY <3>3 DEF HandlesHaveTheirTypes
    <3> QED
      BY <3>3, <3>4, <3>5, <3>6 DEF TablesInv
  <2> QED
    BY <2>5, <2>6
<1> QED
  BY <1>5, <1>6

LEMMA CountRecordKeeps == ASSUME TablesInv, CountRecord PROVE TablesInv'
<1>1. /\ stage = "walk" /\ table = "topology" /\ visited' = Append(visited, Record0.at)
      /\ cursor' = cursor + Record0.tail /\ stage' = "walk" /\ Record0.tail # 0
      /\ UNCHANGED <<registered, indexed, handles, declared, ofPid, table, laid, room, names,
                     rows>>
  BY DEF CountRecord, Listing
<1>2. StartsInv /\ PlaceInv
  BY DEF TablesInv
<1> DEFINE k == Len(visited) + 1
           n == Len(laid)
<1>3. k = Len(visited) + 1 /\ n = Len(laid)
  OBVIOUS
<1> HIDE DEF k, n
<1>4. /\ n \in Nat /\ k \in 1 .. n + 1 /\ cursor \in Nat
      /\ k = n + 1 => Record0 = [at |-> 0, tail |-> 0]
      /\ k <= n =>
           /\ Record0 = [at |-> k, tail |-> laid[k]]
           /\ laid[k] \in Nat \ {0}
           /\ Begins(table, laid)[k + 1] = Behind(table, cursor, laid[k])
  BY <1>1, <1>3, AtRecord
<1>5. k <= n
  <2>1. k # n + 1
    BY <1>1, <1>4
  <2> QED
    BY <1>4, <2>1
<1>6. cursor' = Begins(table, laid)[k + 1] /\ cursor' \in Nat /\ visited' = Append(visited, k)
  BY <1>1, <1>4, <1>5 DEF Behind
<1>7. /\ visited' = InOrder(k) /\ Len(visited') = k /\ TablesTypeOK' /\ IndexesInv'
      /\ handles' = <<>> /\ table' # "types"
  BY <1>1, <1>3, <1>5, <1>6, VisitKeeps
<1>8. StartsInv' /\ NamesInv'
  BY <1>1, <1>7 DEF StartsInv, NamesInv
<1>9. PlaceInv'
  BY <1>1, <1>2, <1>3, <1>5, <1>6, <1>7 DEF PlaceInv
<1>10. TablesAreListedWhole' /\ HandlesHaveTheirTypes'
  BY <1>1 DEF TablesAreListedWhole, HandlesHaveTheirTypes
<1> QED
  BY <1>7, <1>8, <1>9, <1>10 DEF TablesInv

\* Two records of the topology are longer than one of any kind.
LEMMA TwoAreLonger ==
  ASSUME NEW at \in Nat, NEW m1 \in Nat, NEW m2 \in Nat, NEW bytes \in Nat, NEW last \in Nat,
         2 * m1 >= bytes, 2 * m2 >= bytes, at + m1 + m2 <= last
  PROVE  at + bytes <= last
OBVIOUS

LEMMA EndOfRecordsKeeps == ASSUME TablesInv, EndOfRecords PROVE TablesInv'
<1>1. /\ stage = "walk" /\ stage' = "done"
      /\ UNCHANGED <<registered, indexed, handles, declared, ofPid, table, laid, room, cursor,
                     visited, names, rows>>
      /\ \/ table = "pagefiles" /\ ~RecordFits
         \/ table = "topology" /\ (~More \/ Record0.tail = 0 \/ cursor + Record0.tail > room)
  BY DEF EndOfRecords, Listing
<1>2. TablesTypeOK /\ StartsInv /\ IndexesInv /\ PlaceInv
  BY DEF TablesInv
<1>3. TablesTypeOK' /\ IndexesInv' /\ StartsInv' /\ NamesInv' /\ PlaceInv'
  BY <1>1, <1>2 DEF TablesTypeOK, IndexesInv, TypeIndex, StartsInv, NamesInv, PlaceInv
<1>4. HandlesHaveTheirTypes'
  BY <1>1, <1>2 DEF StartsInv, HandlesHaveTheirTypes
<1> DEFINE k == Len(visited) + 1
           n == Len(laid)
<1>5. k = Len(visited) + 1 /\ n = Len(laid)
  OBVIOUS
<1> HIDE DEF k, n
<1>6. /\ n \in Nat /\ k \in 1 .. n + 1 /\ cursor \in Nat /\ room \in Nat
      /\ visited = InOrder(k - 1)
      /\ cursor = Begins(table, laid)[k] /\ RecordSize[table] \in Nat \ {0}
      /\ table \in Tables /\ laid \in Seq(Tails[table])
      /\ k <= n =>
           /\ Record0 = [at |-> k, tail |-> laid[k]]
           /\ laid[k] \in Tails[table] /\ laid[k] \in Nat \ {0}
           /\ Begins(table, laid)[k + 1] = Behind(table, cursor, laid[k])
           /\ table # "topology" => cursor + RecordSize[table] + laid[k] <= End(table, laid)
  BY <1>1, <1>5, AtRecord
<1>7. CASE table = "pagefiles"
  <2>1. laid = <<>>
    <3> SUFFICES ASSUME laid # <<>> PROVE FALSE
      OBVIOUS
    <3>1. room = End(table, laid) /\ k <= n
      <4>1. room = End(table, laid) /\ Len(visited) < n
        BY <1>1, <1>2, <1>5, <1>7 DEF PlaceInv
      <4>2. Len(visited) \in Nat
        BY <1>2 DEF TablesTypeOK
      <4> QED
        BY <1>5, <1>6, <4>1, <4>2
    <3>2. cursor + RecordSize[table] + laid[k] <= room /\ laid[k] \in Nat
      BY <1>6, <1>7, <3>1
    <3>3. RecordFits
      BY <1>6, <3>2 DEF RecordFits
    <3> QED
      BY <1>1, <1>7, <3>3
  <2> QED
    BY <1>1, <1>3, <1>4, <1>7, <2>1 DEF TablesInv, TablesAreListedWhole
<1>8. CASE table = "topology"
  <2>1. End(table, laid) <= room /\ End(table, laid) \in Nat
    BY <1>1, <1>2, <1>6, <1>8, EndIsBehind DEF PlaceInv
  <2>2. CASE k = n + 1
    <3>1. visited' = InOrder(n)
      BY <1>1, <1>6, <2>2
    <3> QED
      BY <1>1, <1>3, <1>4, <1>5, <1>8, <3>1 DEF TablesInv, TablesAreListedWhole
  <2>3. CASE k <= n
    <3>1. laid # <<>> /\ k \in 1 .. n /\ k + 1 \in 1 .. n + 1
      BY <1>5, <1>6, <2>3
    <3>2. \A i \in 1 .. n + 1 : Begins(table, laid)[i] <= End(table, laid)
      BY <1>5, <1>6, <1>8, <3>1, EndIsBehind
    <3>3. \A i \in 1 .. n : /\ laid[i] \in Tails[table]
                            /\ Begins(table, laid)[i + 1] =
                                 Behind(table, Begins(table, laid)[i], laid[i])
      <4>1. \A i \in 1 .. n : laid[i] \in Tails[table]
        BY <1>5, <1>6
      <4>2. \A i \in 1 .. Len(laid) :
               Begins(table, laid)[i + 1] = Behind(table, Begins(table, laid)[i], laid[i])
        BY <1>6, Layout
      <4> QED
        BY <1>5, <4>1, <4>2
    <3>4. /\ Begins(table, laid)[k + 1] = cursor + laid[k]
          /\ laid[k] \in Nat \ {0}
          /\ 2 * laid[k] >= RecordSize[table]
      BY <1>6, <1>8, <2>3, TableAssumption DEF Behind
    <3>5. cursor + laid[k] <= room
      <4>1. cursor + laid[k] <= End(table, laid)
        BY <3>1, <3>2, <3>4
      <4> QED
        BY <1>6, <2>1, <3>4, <4>1
    <3>6. ~More
      <4>1. Record0.tail = laid[k]
        BY <1>6, <2>3
      <4>2. ~(Record0.tail = 0)
        BY <3>4, <4>1
      <4>3. ~(cursor + Record0.tail > room)
        BY <1>6, <3>4, <3>5, <4>1
      <4> QED
        BY <1>1, <1>8, <4>2, <4>3
    <3>7. cursor + RecordSize[table] > room
      BY <1>6, <1>8, <3>6 DEF More
    <3>8. k = n
      <4> SUFFICES ASSUME k # n PROVE FALSE
        OBVIOUS
      <4>1. k + 1 \in 1 .. n /\ (k + 1) + 1 \in 1 .. n + 1
        BY <1>6, <2>3
      <4>2. /\ laid[k + 1] \in Tails[table]
            /\ Begins(table, laid)[(k + 1) + 1] =
                 Behind(table, Begins(table, laid)[k + 1], laid[k + 1])
        BY <3>3, <4>1
      <4>3. laid[k + 1] \in Nat \ {0} /\ 2 * laid[k + 1] >= RecordSize[table]
        <5>1. laid[k + 1] \in Tails["topology"] /\ "topology" \in Tables
          BY <1>8, <4>2 DEF Tables
        <5>2. /\ Tails["topology"] \subseteq Nat \ {0}
              /\ \A m \in Tails["topology"] : 2 * m >= RecordSize["topology"]
          BY <5>1, TableAssumption
        <5> QED
          BY <1>8, <5>1, <5>2
      <4>4. Begins(table, laid)[(k + 1) + 1] = cursor + laid[k] + laid[k + 1]
        BY <1>8, <3>4, <4>2 DEF Behind
      <4>5. cursor + laid[k] + laid[k + 1] <= End(table, laid)
        BY <3>2, <4>1, <4>4
      <4>6. cursor + RecordSize[table] <= End(table, laid)
        BY <1>6, <2>1, <3>4, <4>3, <4>5, TwoAreLonger
      <4> QED
        BY <1>6, <2>1, <3>7, <4>6
    <3>9. visited' = InOrder(n - 1) /\ n > 0 /\ Begins(table, laid)[n] + RecordSize[table] > room
      BY <1>1, <1>6, <3>1, <3>7, <3>8
    <3>10. TablesAreListedWhole'
      BY <1>1, <1>5, <1>8, <3>9 DEF TablesAreListedWhole
    <3> QED
      BY <1>3, <1>4, <3>10 DEF TablesInv
  <2> QED
    BY <1>6, <2>2, <2>3
<1> QED
  BY <1>1, <1>7, <1>8

\* The name a row gets: that of the type of its handle, or none at all.
LEMMA NamesAreFound ==
  ASSUME TablesInv, stage = "filter"
  PROVE  \/ /\ Named(registered)
            /\ \A k \in 1 .. Len(handles) :
                 /\ NameFor(handles[k].index) \in 1 .. registered
                 /\ TypeIndex(NameFor(handles[k].index)) = handles[k].index
         \/ laid = <<>> /\ \A index : NameFor(index) = None
<1>1. IndexesInv /\ ((laid = <<>> /\ names = NoNames) \/ Named(registered))
  BY DEF TablesInv, NamesInv
<1>2. CASE laid = <<>> /\ names = NoNames
  BY <1>2 DEF NameFor, NoNames
<1>3. CASE Named(registered)
  <2>1. ASSUME NEW k \in 1 .. Len(handles)
        PROVE  /\ NameFor(handles[k].index) \in 1 .. registered
               /\ TypeIndex(NameFor(handles[k].index)) = handles[k].index
    <3>1. PICK i \in 1 .. registered : handles[k].index = TypeIndex(i)
      BY <1>1 DEF IndexesInv
    <3>2. TypeIndex(i) \in DOMAIN names /\ names[TypeIndex(i)] = i
      BY <1>3 DEF Named
    <3> QED
      BY <3>1, <3>2 DEF NameFor
  <2> QED
    BY <1>3, <2>1
<1> QED
  BY <1>1, <1>2, <1>3

LEMMA FilterHandlesKeeps == ASSUME TablesInv, FilterHandles PROVE TablesInv'
<1> DEFINE n == declared
           H == [owner : Pids, index : 1 .. MaxRecords + 1]
           found == RowsOfHandles
<1>1. /\ stage = "filter" /\ stage' = "done" /\ rows' = found
      /\ UNCHANGED <<registered, indexed, handles, declared, ofPid, table, laid, room, cursor,
                     visited, names>>
  BY DEF FilterHandles
<1>2. TablesTypeOK /\ StartsInv /\ IndexesInv /\ handles \in Seq(H) /\ n \in Nat
      /\ registered \in 1 .. MaxRecords /\ MaxRecords \in Nat
      /\ n <= Len(handles) /\ \A k \in 1 .. n : k \in 1 .. Len(handles)
  BY TableAssumption DEF TablesInv, TablesTypeOK, FilterHandles, CountFits
<1>3. found \in Seq({RowOf(k) : k \in 1 .. n}) /\ Listed(n, found)
  BY <1>2, RowsAreListed
<1>4. /\ Len(found) = Count(n)
      /\ \A k \in 1 .. n : Owns(k) => found[Count(k)] = RowOf(k)
      /\ \A i \in 1 .. Len(found) : \E k \in 1 .. n : found[i] = RowOf(k)
  BY <1>3 DEF Listed
<1>5. \/ \A k \in 1 .. n : /\ NameFor(handles[k].index) \in 1 .. registered
                           /\ TypeIndex(NameFor(handles[k].index)) = handles[k].index
      \/ laid = <<>> /\ \A index : NameFor(index) = None
  BY <1>1, <1>2, NamesAreFound
<1>6. rows' \in Seq([handle : H, typeName : 1 .. MaxRecords \cup {None}])
  <2>1. ASSUME NEW k \in 1 .. n
        PROVE  RowOf(k) \in [handle : H, typeName : 1 .. MaxRecords \cup {None}]
    <3>1. handles[k] \in H
      <4>1. handles \in Seq(H) /\ k \in 1 .. Len(handles)
        BY <1>2
      <4> HIDE DEF H
      <4> QED
        BY <4>1
    <3>2. NameFor(handles[k].index) \in 1 .. MaxRecords \cup {None}
      BY <1>2, <1>5
    <3> QED
      BY <3>1, <3>2 DEF RowOf
  <2> DEFINE R == [handle : H, typeName : 1 .. MaxRecords \cup {None}]
             Q == {RowOf(k) : k \in 1 .. n}
  <2>2. \A q \in Q : q \in R
    BY <2>1
  <2>3. found \in Seq(Q)
    BY <1>3
  <2> HIDE DEF R, Q, found
  <2>4. found \in Seq(R)
    BY <2>2, <2>3
  <2> QED
    BY <1>1, <2>4 DEF R
<1>7. TablesTypeOK'
  BY <1>1, <1>2, <1>6 DEF TablesTypeOK
<1>8. IndexesInv' /\ StartsInv' /\ NamesInv' /\ PlaceInv'
  BY <1>1, <1>2 DEF IndexesInv, TypeIndex, StartsInv, NamesInv, PlaceInv
<1>9. TablesAreListedWhole'
  BY <1>1, <1>2 DEF StartsInv, TablesAreListedWhole
<1>10. HandlesHaveTheirTypes'
  <2> DEFINE own == {k \in 1 .. n : handles[k].owner = ofPid}
             place(k) == Cardinality({j \in own : j <= k})
  <2>1. Cardinality(own) = Count(n)
    BY DEF Count, Owns
  <2>2. ASSUME NEW k \in own PROVE place(k) = Count(k)
    <3>1. {j \in own : j <= k} = {j \in 1 .. k : Owns(j)}
      BY <1>2 DEF Owns
    <3> QED
      BY <3>1 DEF Count
  <2>3. \A k \in own : found[place(k)].handle = handles[k]
    <3>1. ASSUME NEW k \in own PROVE found[Count(k)].handle = handles[k]
      <4>1. k \in 1 .. n /\ Owns(k)
        BY DEF Owns
      <4>2. found[Count(k)] = RowOf(k)
        BY <1>4, <4>1
      <4> HIDE DEF found
      <4> QED
        BY <4>2 DEF RowOf
    <3> HIDE DEF found, own, place
    <3> QED
      BY <2>2, <3>1
  <2>4. \/ \A i \in 1 .. Len(found) : /\ found[i].typeName # None
                                      /\ TypeIndex(found[i].typeName) = found[i].handle.index
        \/ laid = <<>> /\ \A i \in 1 .. Len(found) : found[i].typeName = None
    <3>1. ASSUME NEW i \in 1 .. Len(found)
          PROVE  \E k \in 1 .. n : /\ found[i].typeName = NameFor(handles[k].index)
                                   /\ found[i].handle = handles[k]
      <4>1. PICK k \in 1 .. n : found[i] = RowOf(k)
        BY <1>4
      <4> QED
        BY <4>1 DEF RowOf
    <3>2. \A i \in 1 .. registered : i # None
      BY <1>2, TableAssumption
    <3> HIDE DEF found
    <3> QED
      BY <1>5, <3>1, <3>2
  <2>5. Len(found) = Cardinality(own)
    BY <1>4, <2>1
  <2> HIDE DEF found
  <2> QED
    BY <1>1, <1>2, <2>3, <2>4, <2>5 DEF HandlesHaveTheirTypes, TypeIndex
<1> QED
  BY <1>7, <1>8, <1>9, <1>10 DEF TablesInv

LEMMA CountExceedsKeeps == ASSUME TablesInv, CountExceeds PROVE TablesInv'
<1>1. /\ stage = "filter" /\ stage' = "failed"
      /\ UNCHANGED <<registered, indexed, handles, declared, ofPid, table, laid, room, cursor,
                     visited, names, rows>>
  BY DEF CountExceeds
<1> QED
  BY <1>1 DEF TablesInv, TablesTypeOK, IndexesInv, TypeIndex, StartsInv, PlaceInv, NamesInv,
              TablesAreListedWhole, HandlesHaveTheirTypes

LEMMA TablesStart == WalksInit => TablesInv
<1> SUFFICES ASSUME WalksInit PROVE TablesInv
  OBVIOUS
<1>1. /\ registered = 1 /\ indexed \in BOOLEAN /\ handles = <<>> /\ declared = 0
      /\ ofPid = Everybody
      /\ stage = "idle" /\ table = "types" /\ laid = <<>> /\ room = 0 /\ cursor = 0
      /\ visited = <<>> /\ names = NoNames /\ rows = <<>>
  BY DEF WalksInit, TablesInit
<1>2. DOMAIN names = {}
  BY <1>1 DEF NoNames
<1>3. TablesTypeOK
  BY <1>1, <1>2, TableAssumption DEF TablesTypeOK, Tables
<1> QED
  BY <1>1, <1>3 DEF TablesInv, IndexesInv, StartsInv, PlaceInv, NamesInv, TablesAreListedWhole,
                    HandlesHaveTheirTypes

LEMMA TablesRest == ASSUME TablesInv, UNCHANGED tableVars PROVE TablesInv'
BY DEF tableVars, TablesInv, TablesTypeOK, IndexesInv, StartsInv, PlaceInv, NamesInv, Named,
       TypeIndex, TablesAreListedWhole, HandlesHaveTheirTypes

LEMMA TablesStep == TablesInv /\ [WalksNext]_walkVars => TablesInv'
<1> SUFFICES ASSUME TablesInv, [WalksNext]_walkVars PROVE TablesInv'
  OBVIOUS
<1>1. CASE UNCHANGED tableVars
  BY <1>1, TablesRest
<1>2. CASE RegisterType
  BY <1>2, RegisterKeeps
<1>3. CASE Query
  BY <1>3, QueryKeeps
<1>4. CASE NameType
  BY <1>4, NameTypeKeeps
<1>5. CASE EndOfTypes
  BY <1>5, EndOfTypesKeeps
<1>6. CASE ListPagefile
  BY <1>6, ListPagefileKeeps
<1>7. CASE CountRecord
  BY <1>7, CountRecordKeeps
<1>8. CASE EndOfRecords
  BY <1>8, EndOfRecordsKeeps
<1>9. CASE FilterHandles
  BY <1>9, FilterHandlesKeeps
<1>10. CASE CountExceeds
  BY <1>10, CountExceedsKeeps
<1> QED
  BY <1>1, <1>2, <1>3, <1>4, <1>5, <1>6, <1>7, <1>8, <1>9, <1>10
  DEF WalksNext, RecordsMove, walkVars

\* ObjectTypeTable::build, fillPagefiles, fillTopology: a walk is always where a record begins.
THEOREM TablesInvHolds == WalksSpec => []TablesInv
BY TablesStart, TablesStep, PTL DEF WalksSpec

\* TableWalks keeps its types, however long the tables are.
THEOREM TablesTypesHold == WalksSpec => []TablesTypeOK
<1>1. TablesInv => TablesTypeOK
  BY DEF TablesInv
<1> QED
  BY <1>1, TablesInvHolds, PTL

\* fillPagefiles, fillTopology: a table is listed whole, whatever its records and its buffer are.
THEOREM TablesAreAlwaysListedWhole == WalksSpec => []TablesAreListedWhole
<1>1. TablesInv => TablesAreListedWhole
  BY DEF TablesInv
<1> QED
  BY <1>1, TablesInvHolds, PTL

\* HandleManager::snapshot: each handle of the process the header counts is listed, with the
\* name of its own type, and a header that counts more than the buffer holds is refused.
THEOREM HandlesAlwaysHaveTheirTypes == WalksSpec => []HandlesHaveTheirTypes
<1>1. TablesInv => HandlesHaveTheirTypes
  BY DEF TablesInv
<1> QED
  BY <1>1, TablesInvHolds, PTL

\* The composition takes nothing from SnapshotWalk: what is proved of it holds here too.
THEOREM TablesAside == WalksSpec => Spec
<1>1. WalksInit => Init
  BY DEF WalksInit
<1>2. [WalksNext]_walkVars => [Next]_vars
  BY DEF WalksNext, walkVars, TablesMove
<1> QED
  BY <1>1, <1>2, PTL DEF WalksSpec, Spec

-----------------------------------------------------------------------------
(* ModuleSnapshot.                                                         *)

\* A module that stayed lies within the array that is to be filled.
InArray ==
  pc = "fill" => \A m \in stayed : \E i \in 1 .. Len(loaded) : i <= capacity /\ loaded[i] = m

\* An address is listed once, and that of a module that stayed is.
Enumerated == pc \in {"path", "info", "done"}

\* Which addresses EnumProcessModules gave: none twice, and all of those that stayed.
BasesInv ==
  /\ ~Enumerated => bases = <<>> /\ modules = <<>>
  /\ \A i, j \in 1 .. Len(bases) : bases[i] = bases[j] /\ bases[i] # Junk => i = j
  /\ Enumerated => \A m \in stayed : \E i \in 1 .. Len(bases) : bases[i] = m.base

\* What a row says of a module that stayed.
RowsInv ==
  /\ \A i \in 1 .. Len(modules) : modules[i].base = bases[i]
  /\ \A m \in stayed, i \in 1 .. Len(modules) :
       modules[i].base = m.base =>
         modules[i].path \in {m.id, Unknown} /\ modules[i].info \in {m.id, Unknown}
  /\ pc = "done" => Len(modules) = Len(bases)

\* The inductive invariant of a module snapshot.
ModulesInv == ModulesTypeOK /\ InArray /\ BasesInv /\ RowsInv

\* Membership of a range, by position.
LEMMA InRange ==
  ASSUME NEW S, NEW s \in Seq(S), NEW x
  PROVE  x \in Range(s) <=> \E i \in 1 .. Len(s) : s[i] = x
BY DEF Range

LEMMA ModulesStart == ModulesInit => ModulesInv
<1> SUFFICES ASSUME ModulesInit PROVE ModulesInv
  OBVIOUS
<1>1. PICK n \in 0 .. MaxLoads : \E at \in [1 .. n -> Bases] :
        IsInjective(at) /\ loads = n /\ loaded = [i \in 1 .. n |-> [base |-> at[i], id |-> i]]
  BY DEF ModulesInit
<1>2. PICK at \in [1 .. n -> Bases] :
        IsInjective(at) /\ loads = n /\ loaded = [i \in 1 .. n |-> [base |-> at[i], id |-> i]]
  BY <1>1
<1>3. n \in Nat /\ loads = n /\ DOMAIN loaded = 1 .. n /\ Len(loaded) = n /\ loaded \in Seq(Module)
  BY <1>2, ModuleAssumption DEF Module
<1>4. \A i, j \in 1 .. Len(loaded) : loaded[i].base = loaded[j].base => i = j
  BY <1>2, <1>3 DEF IsInjective
<1>5. /\ pc = "open" /\ capacity = 0 /\ returned = 0 /\ bases = <<>> /\ modules = <<>>
      /\ stayed = Range(loaded)
  BY DEF ModulesInit
<1>6. ModulesTypeOK
  BY <1>3, <1>4, <1>5 DEF ModulesTypeOK
<1> QED
  BY <1>5, <1>6 DEF ModulesInv, InArray, BasesInv, RowsInv, Enumerated

\* Who is at the base of a module that is loaded.
LEMMA AtIsLoaded ==
  ASSUME ModulesTypeOK
  PROVE  /\ \A base : At(base) \in Nat \cup {Unknown}
         /\ \A m \in Range(loaded) : At(m.base) = m.id
<1>1. loaded \in Seq(Module)
  BY DEF ModulesTypeOK
<1>2. ASSUME NEW base PROVE At(base) \in Nat \cup {Unknown}
  <2>1. CASE \E i \in 1 .. Len(loaded) : loaded[i].base = base
    <3> DEFINE k == CHOOSE i \in 1 .. Len(loaded) : loaded[i].base = base
    <3>1. k \in 1 .. Len(loaded)
      BY <2>1
    <3>2. loaded[k] \in Module
      BY <1>1, <3>1
    <3> QED
      BY <2>1, <3>2 DEF At, Module
  <2>2. CASE ~\E i \in 1 .. Len(loaded) : loaded[i].base = base
    BY <2>2 DEF At
  <2> QED
    BY <2>1, <2>2
<1>3. ASSUME NEW m \in Range(loaded) PROVE At(m.base) = m.id
  <2>1. PICK i \in 1 .. Len(loaded) : loaded[i] = m
    BY <1>1, InRange
  <2>2. \A j \in 1 .. Len(loaded) : loaded[j].base = m.base => j = i
    BY <2>1 DEF ModulesTypeOK
  <2> QED
    BY <2>1, <2>2 DEF At
<1> QED
  BY <1>2, <1>3

\* A module that is unloaded leaves the others in their order.
LEMMA Removed ==
  ASSUME NEW S, NEW s \in Seq(S), NEW i \in 1 .. Len(s)
  PROVE  /\ RemoveAt(s, i) \in Seq(S) /\ Len(RemoveAt(s, i)) = Len(s) - 1
         /\ \A j \in 1 .. Len(s) - 1 : RemoveAt(s, i)[j] = IF j < i THEN s[j] ELSE s[j + 1]
<1> DEFINE a == SubSeq(s, 1, i - 1)
           b == SubSeq(s, i + 1, Len(s))
<1>1. /\ a \in Seq(S) /\ Len(a) = i - 1 /\ \A j \in 1 .. i - 1 : a[j] = s[j]
  OBVIOUS
<1>2. /\ b \in Seq(S) /\ Len(b) = Len(s) - i /\ \A j \in 1 .. Len(s) - i : b[j] = s[i + j]
  OBVIOUS
<1> HIDE DEF a, b
<1>3. /\ a \o b \in Seq(S) /\ Len(a \o b) = Len(s) - 1
      /\ \A j \in 1 .. Len(s) - 1 : (a \o b)[j] = IF j < i THEN a[j] ELSE b[j - i + 1]
  <2>1. Len(s) \in Nat /\ i \in Nat
    OBVIOUS
  <2>2. a \o b \in Seq(S) /\ Len(a \o b) = Len(a) + Len(b)
    <3>1. a \in Seq(S)
      BY <1>1
    <3>2. b \in Seq(S)
      BY <1>2
    <3> QED
      BY <3>1, <3>2
  <2>3. \A j \in 1 .. Len(a) + Len(b) : (a \o b)[j] = IF j <= Len(a) THEN a[j] ELSE b[j - Len(a)]
    BY <1>1, <1>2
  <2>4. Len(a) + Len(b) = Len(s) - 1
    BY <1>1, <1>2, <2>1
  <2>5. ASSUME NEW j \in 1 .. Len(s) - 1 PROVE (a \o b)[j] = IF j < i THEN a[j] ELSE b[j - i + 1]
    <3>1. (j <= Len(a) <=> j < i) /\ j - Len(a) = j - i + 1
      BY <1>1, <2>1
    <3> QED
      BY <2>3, <2>4, <3>1
  <2> QED
    BY <2>2, <2>4, <2>5
<1>4. \A j \in 1 .. Len(s) - 1 : (a \o b)[j] = IF j < i THEN s[j] ELSE s[j + 1]
  <2> TAKE j \in 1 .. Len(s) - 1
  <2>1. CASE j < i
    BY <1>1, <1>3, <2>1
  <2>2. CASE ~(j < i)
    <3>1. j - i + 1 \in 1 .. Len(s) - i /\ i + (j - i + 1) = j + 1
      BY <2>2
    <3> QED
      BY <1>2, <1>3, <2>2, <3>1
  <2> QED
    BY <2>1, <2>2
<1>5. RemoveAt(s, i) = a \o b
  BY DEF RemoveAt, a, b
<1> QED
  BY <1>3, <1>4, <1>5

LEMMA ModulesStep == ASSUME ModulesInv, [ModulesNext]_moduleVars PROVE ModulesInv'
<1> DEFINE L == Len(loaded)
<1>0. /\ loaded \in Seq(Module) /\ loads \in Nat /\ capacity \in Nat /\ returned \in Nat
      /\ bases \in Seq(Bases \cup {Junk}) /\ modules \in Seq(Row) /\ L \in Nat
      /\ stayed \subseteq Range(loaded) /\ Len(modules) <= Len(bases)
      /\ Len(modules) \in Nat /\ Len(bases) \in Nat
      /\ \A i, j \in 1 .. L : loaded[i].base = loaded[j].base => i = j
  BY DEF ModulesInv, ModulesTypeOK
<1>1. ASSUME NEW base \in Bases, Load(base) PROVE ModulesInv'
  <2> DEFINE new == [base |-> base, id |-> loads + 1]
  <2>1. /\ loaded' = Append(loaded, new) /\ loads' = loads + 1
        /\ \A i \in 1 .. L : loaded[i].base # base
        /\ UNCHANGED <<pc, capacity, returned, bases, modules, stayed>>
    BY <1>1 DEF Load
  <2>2. new \in Module /\ new.base = base
    BY <1>0 DEF Module
  <2> HIDE DEF new
  <2>3. /\ loaded' \in Seq(Module) /\ Len(loaded') = L + 1 /\ loaded'[L + 1] = new
        /\ \A i \in 1 .. L : loaded'[i] = loaded[i]
    BY <1>0, <2>1, <2>2
  <2>4. Range(loaded) \subseteq Range(loaded')
    <3> SUFFICES ASSUME NEW i \in 1 .. L PROVE loaded[i] \in Range(loaded')
      BY <1>0, InRange
    <3> QED
      BY <1>0, <2>3, InRange
  <2>5. \A i, j \in 1 .. Len(loaded') : loaded'[i].base = loaded'[j].base => i = j
    <3> SUFFICES ASSUME NEW i \in 1 .. L + 1, NEW j \in 1 .. L + 1, loaded'[i].base = loaded'[j].base
                 PROVE  i = j
      BY <2>3
    <3>1. CASE i = L + 1 \/ j = L + 1
      BY <1>0, <2>1, <2>2, <2>3, <3>1
    <3>2. CASE i \in 1 .. L /\ j \in 1 .. L
      BY <1>0, <2>3, <3>2
    <3> QED
      BY <1>0, <3>1, <3>2
  <2>6. ModulesTypeOK'
    BY <1>0, <2>1, <2>3, <2>4, <2>5 DEF ModulesInv, ModulesTypeOK
  <2>7. InArray'
    BY <1>0, <2>1, <2>3 DEF ModulesInv, InArray
  <2> QED
    BY <2>1, <2>6, <2>7 DEF ModulesInv, BasesInv, RowsInv, Enumerated
<1>2. ASSUME NEW k \in DOMAIN loaded, Unload(k) PROVE ModulesInv'
  <2>1. /\ loaded' = RemoveAt(loaded, k) /\ stayed' = stayed \ {loaded[k]} /\ k \in 1 .. L
        /\ UNCHANGED <<loads, pc, capacity, returned, bases, modules>>
    BY <1>0, <1>2 DEF Unload
  <2>2. /\ loaded' \in Seq(Module) /\ Len(loaded') = L - 1
        /\ \A j \in 1 .. L - 1 : loaded'[j] = IF j < k THEN loaded[j] ELSE loaded[j + 1]
    BY <1>0, <2>1, Removed
  \* Where the one that was at i is now.
  <2>3. ASSUME NEW i \in 1 .. L, i # k
        PROVE  \E j \in 1 .. L - 1 : j <= i /\ loaded'[j] = loaded[i]
    <3>1. CASE i < k
      BY <1>0, <2>1, <2>2, <3>1
    <3>2. CASE i > k
      <4>1. i - 1 \in 1 .. L - 1 /\ i - 1 >= k /\ (i - 1) + 1 = i
        BY <1>0, <2>1, <3>2
      <4> QED
        BY <2>2, <4>1
    <3> QED
      <4>1. i < k \/ i > k
        BY <1>0, <2>1, <2>3
      <4> QED
        BY <3>1, <3>2, <4>1, Zenon
  <2>4. stayed' \subseteq Range(loaded')
    <3> SUFFICES ASSUME NEW m \in stayed, m # loaded[k] PROVE m \in Range(loaded')
      BY <2>1
    <3>1. PICK i \in 1 .. L : loaded[i] = m
      BY <1>0, InRange
    <3>2. \E j \in 1 .. L - 1 : loaded'[j] = m
      BY <2>3, <3>1
    <3> QED
      BY <2>2, <3>2, InRange
  <2>5. \A i, j \in 1 .. Len(loaded') : loaded'[i].base = loaded'[j].base => i = j
    <3> SUFFICES ASSUME NEW i \in 1 .. L - 1, NEW j \in 1 .. L - 1, loaded'[i].base = loaded'[j].base
                 PROVE  i = j
      BY <2>2
    <3> DEFINE was(n) == IF n < k THEN n ELSE n + 1
    <3>1. was(i) \in 1 .. L /\ was(j) \in 1 .. L /\ (was(i) = was(j) => i = j)
      BY <1>0, <2>1
    <3>2. loaded'[i] = loaded[was(i)] /\ loaded'[j] = loaded[was(j)]
      BY <2>2
    <3> QED
      BY <1>0, <3>1, <3>2
  <2>6. ModulesTypeOK'
    BY <1>0, <2>1, <2>2, <2>4, <2>5 DEF ModulesInv, ModulesTypeOK
  <2>7. InArray'
    <3> SUFFICES ASSUME pc = "fill", NEW m \in stayed, m # loaded[k]
                 PROVE  \E i \in 1 .. Len(loaded') : i <= capacity /\ loaded'[i] = m
      BY <2>1 DEF InArray
    <3>1. PICK i \in 1 .. L : i <= capacity /\ loaded[i] = m
      BY DEF ModulesInv, InArray
    <3>2. PICK j \in 1 .. L - 1 : j <= i /\ loaded'[j] = m
      BY <2>3, <3>1
    <3> QED
      BY <1>0, <2>2, <3>1, <3>2
  <2> QED
    BY <2>1, <2>6, <2>7 DEF ModulesInv, BasesInv, RowsInv, Enumerated
<1>3. CASE Fails \/ Open \/ Finish
  <2>1. UNCHANGED <<processVars, capacity, returned, bases, modules, stayed>>
    BY <1>3 DEF Fails, Open, Finish
  <2>2. /\ pc' \in {"failed", "size", "done"} /\ (Enumerated' => pc = "path")
        /\ (pc' = "done" => Len(modules) = Len(bases)) /\ (pc = "path" => pc' = "done")
    BY <1>3 DEF Fails, Open, Finish, Enumerated
  <2>3. ModulesTypeOK'
    BY <2>1, <2>2 DEF ModulesInv, ModulesTypeOK, processVars
  <2> QED
    BY <1>3, <2>1, <2>2, <2>3 DEF ModulesInv, InArray, BasesInv, RowsInv, Enumerated, Fails,
       Open, Finish
<1>4. CASE SizeArray
  <2>1. /\ pc = "size" /\ capacity' = L /\ pc' = IF loaded = <<>> THEN "done" ELSE "fill"
        /\ UNCHANGED <<processVars, returned, bases, modules, stayed>>
    BY <1>4 DEF SizeArray
  <2>2. bases = <<>> /\ modules = <<>>
    BY <2>1 DEF ModulesInv, BasesInv, Enumerated
  <2>3. ModulesTypeOK'
    BY <1>0, <2>1 DEF ModulesInv, ModulesTypeOK, processVars
  <2>4. \A m \in stayed : \E i \in 1 .. L : loaded[i] = m
    BY <1>0, InRange
  <2>5. InArray'
    BY <1>0, <2>1, <2>4 DEF InArray, processVars
  <2>6. pc' = "done" => stayed = {}
    BY <2>1, <2>4
  <2> QED
    BY <2>1, <2>2, <2>3, <2>5, <2>6 DEF ModulesInv, BasesInv, RowsInv, Enumerated
<1>5. CASE FillArray
  <2>1. /\ pc = "fill" /\ returned' = L /\ bases' = HandleAt(L) /\ pc' = "path"
        /\ UNCHANGED <<processVars, capacity, modules, stayed>>
    BY <1>5 DEF FillArray
  <2>2. modules = <<>>
    BY <2>1 DEF ModulesInv, BasesInv, Enumerated
  <2>3. \A i \in 1 .. L : loaded[i] \in Module /\ loaded[i].base \in Bases
    <3>1. ASSUME NEW i \in 1 .. L PROVE loaded[i] \in Module
      BY <1>0
    <3> QED
      BY <3>1 DEF Module
  <2>4. /\ bases' \in Seq(Bases \cup {Junk}) /\ Len(bases') = L
        /\ \A i \in 1 .. L : bases'[i] = IF i <= capacity THEN loaded[i].base ELSE Junk
    BY <1>0, <2>1, <2>3 DEF HandleAt
  <2>5. ModulesTypeOK'
    BY <1>0, <2>1, <2>2, <2>4 DEF ModulesInv, ModulesTypeOK, processVars
  <2>6. \A i, j \in 1 .. Len(bases') : bases'[i] = bases'[j] /\ bases'[i] # Junk => i = j
    BY <1>0, <2>4
  <2>7. ASSUME NEW m \in stayed PROVE \E i \in 1 .. Len(bases') : bases'[i] = m.base
    <3>1. PICK i \in 1 .. L : i <= capacity /\ loaded[i] = m
      BY <2>1 DEF ModulesInv, InArray
    <3> QED
      BY <2>4, <3>1
  <2>8. BasesInv'
    BY <2>1, <2>6, <2>7 DEF BasesInv, Enumerated
  <2> QED
    BY <2>1, <2>2, <2>5, <2>8 DEF ModulesInv, InArray, RowsInv
<1>6. CASE QueryFileName
  <2> DEFINE n == Len(modules)
             b == bases[n + 1]
  <2>0. PICK path \in {At(b), Unknown} :
          modules' = Append(modules, [base |-> b, path |-> path, info |-> Unknown])
    BY <1>6 DEF QueryFileName, Answers
  <2> DEFINE row == [base |-> b, path |-> path, info |-> Unknown]
  <2>1. /\ pc = "path" /\ n < Len(bases) /\ modules' = Append(modules, row) /\ pc' = "info"
        /\ UNCHANGED <<processVars, capacity, returned, bases, stayed>>
    BY <1>6, <2>0 DEF QueryFileName
  <2>2. b \in Bases \cup {Junk} /\ row \in Row /\ row.base = b /\ row.path = path /\ row.info = Unknown
    BY <1>0, <2>1, AtIsLoaded DEF Row, ModulesInv
  <2> HIDE DEF row, b
  <2>3. /\ modules' \in Seq(Row) /\ Len(modules') = n + 1 /\ modules'[n + 1] = row
        /\ \A i \in 1 .. n : modules'[i] = modules[i]
    BY <1>0, <2>1, <2>2
  <2>4. ModulesTypeOK'
    <3>1. Len(modules') <= Len(bases) /\ modules' # <<>>
      <4>1. n \in Nat /\ Len(bases) \in Nat
        BY <1>0
      <4>2. Len(modules') <= Len(bases) /\ Len(modules') # 0
        BY <2>1, <2>3, <4>1
      <4> QED
        BY <4>2
    <3> QED
      BY <2>1, <2>3, <3>1 DEF ModulesInv, ModulesTypeOK, processVars
  <2>5. ASSUME NEW i \in 1 .. n + 1 PROVE modules'[i].base = bases[i]
    <3>1. CASE i = n + 1
      BY <2>2, <2>3, <3>1 DEF b
    <3>2. CASE i \in 1 .. n
      BY <2>3, <3>2 DEF ModulesInv, RowsInv
    <3> QED
      BY <1>0, <3>1, <3>2
  <2>6. ASSUME NEW m \in stayed, NEW i \in 1 .. n + 1, modules'[i].base = m.base
        PROVE  modules'[i].path \in {m.id, Unknown} /\ modules'[i].info \in {m.id, Unknown}
    <3>1. CASE i = n + 1
      <4>1. b = m.base /\ At(m.base) = m.id
        BY <1>0, <2>2, <2>3, <2>6, <3>1, AtIsLoaded DEF ModulesInv
      <4> QED
        BY <2>2, <2>3, <3>1, <4>1
    <3>2. CASE i \in 1 .. n
      BY <2>1, <2>3, <2>6, <3>2 DEF ModulesInv, RowsInv
    <3> QED
      BY <1>0, <3>1, <3>2
  <2>7. RowsInv'
    BY <2>1, <2>3, <2>5, <2>6 DEF RowsInv
  <2>8. BasesInv' /\ InArray'
    BY <2>1 DEF ModulesInv, BasesInv, Enumerated, InArray
  <2> QED
    BY <2>4, <2>7, <2>8 DEF ModulesInv
<1>7. CASE QueryInformation
  <2> DEFINE n == Len(modules)
  <2>0. PICK a \in {At(modules[n].base), Unknown} : modules' = [modules EXCEPT ![n].info = a]
    BY <1>7 DEF QueryInformation, Answers
  <2> DEFINE row == [base |-> modules[n].base, path |-> modules[n].path, info |-> a]
  <2>1. /\ pc = "info" /\ pc' = "path" /\ modules' = [modules EXCEPT ![n].info = a]
        /\ UNCHANGED <<processVars, capacity, returned, bases, stayed>>
    BY <1>7, <2>0 DEF QueryInformation
  <2>2. n \in 1 .. n /\ modules[n] \in Row
    BY <1>0, <2>1 DEF ModulesInv, ModulesTypeOK
  <2>3. a \in Nat \cup {Unknown}
    BY AtIsLoaded DEF ModulesInv
  <2>4. row \in Row /\ row.base = modules[n].base /\ row.path = modules[n].path /\ row.info = a
    BY <2>2, <2>3 DEF Row
  <2>5. [modules[n] EXCEPT !.info = a] = row
    BY <2>2 DEF Row
  <2> HIDE DEF row
  <2>6. modules' = [modules EXCEPT ![n] = row]
    BY <2>1, <2>5
  <2>7. /\ modules' \in Seq(Row) /\ Len(modules') = n /\ modules'[n] = row
        /\ \A i \in 1 .. n : i # n => modules'[i] = modules[i]
    BY <1>0, <2>2, <2>4, <2>6
  <2>8. ModulesTypeOK'
    BY <1>0, <2>1, <2>7 DEF ModulesInv, ModulesTypeOK, processVars
  <2>9. \A i \in 1 .. n : modules'[i].base = bases[i]
    BY <2>4, <2>7 DEF ModulesInv, RowsInv
  <2>10. ASSUME NEW m \in stayed, NEW i \in 1 .. n, modules'[i].base = m.base
         PROVE  modules'[i].path \in {m.id, Unknown} /\ modules'[i].info \in {m.id, Unknown}
    <3>1. CASE i = n
      <4>1. a \in {m.id, Unknown}
        BY <1>0, <2>4, <2>7, <2>10, <3>1, AtIsLoaded DEF ModulesInv
      <4> QED
        BY <2>4, <2>7, <2>10, <3>1, <4>1 DEF ModulesInv, RowsInv
    <3>2. CASE i # n
      BY <2>7, <2>10, <3>2 DEF ModulesInv, RowsInv
    <3> QED
      BY <3>1, <3>2
  <2>11. RowsInv'
    BY <2>1, <2>7, <2>9, <2>10 DEF RowsInv
  <2>12. BasesInv' /\ InArray'
    BY <2>1 DEF ModulesInv, BasesInv, Enumerated, InArray
  <2> QED
    BY <2>8, <2>11, <2>12 DEF ModulesInv
<1>8. CASE UNCHANGED moduleVars
  BY <1>8 DEF moduleVars, processVars, ModulesInv, ModulesTypeOK, InArray, BasesInv, RowsInv,
     Enumerated
<1> QED
  BY <1>1, <1>2, <1>3, <1>4, <1>5, <1>6, <1>7, <1>8 DEF ModulesNext

\* The invariant says of a finished snapshot what the property asks.
LEMMA ListedOnce == ModulesInv => StableModulesAreListed
<1> SUFFICES ASSUME ModulesInv, pc = "done", NEW m \in stayed
             PROVE  \E i \in 1 .. Len(modules) :
                      /\ modules[i].base = m.base
                      /\ modules[i].path \in {m.id, Unknown} /\ modules[i].info \in {m.id, Unknown}
                      /\ \A j \in 1 .. Len(modules) : modules[j].base = m.base => i = j
  BY DEF StableModulesAreListed
<1>1. Len(modules) = Len(bases) /\ \A i \in 1 .. Len(modules) : modules[i].base = bases[i]
  BY DEF ModulesInv, RowsInv
<1>2. PICK i \in 1 .. Len(bases) : bases[i] = m.base
  BY DEF ModulesInv, BasesInv, Enumerated
<1>3. /\ modules[i].base = m.base
      /\ modules[i].path \in {m.id, Unknown} /\ modules[i].info \in {m.id, Unknown}
  BY <1>1, <1>2 DEF ModulesInv, RowsInv
<1>4. m.base # Junk
  <2>1. loaded \in Seq(Module) /\ m \in Range(loaded)
    BY DEF ModulesInv, ModulesTypeOK
  <2>2. PICK k \in 1 .. Len(loaded) : loaded[k] = m
    BY <2>1, InRange
  <2>3. m \in Module
    BY <2>1, <2>2
  <2> QED
    BY <2>3, ModuleAssumption DEF Module
<1>5. \A j \in 1 .. Len(modules) : modules[j].base = m.base => i = j
  BY <1>1, <1>2, <1>4 DEF ModulesInv, BasesInv
<1> QED
  BY <1>1, <1>3, <1>5

-----------------------------------------------------------------------------
(* Inspection: the invariant.                                              *)

\* What the plans have in common.
Handles == {"process", "thread", "token", "buffer"}

\* The fields that may be cut short.
Strings == {"imagePathName", "commandLine", "currentDirectory"}

\* Step k of call c opens h, or fills f.
Opens(c, k, h) == Plan[c][k].way = "open" /\ Plan[c][k].field = h
Fills(c, k, f) == Plan[c][k].way # "open" /\ Plan[c][k].field = f

\* The fields a call can do without, and that are of use on their own.
Useful(c) ==
  {Plan[c][k].field : k \in {x \in DOMAIN Plan[c] : ~Plan[c][x].must}} \ {"pageSize", "pagefiles"}

\* A handle is opened once, a token after its process, and no call does without.
OpeningsAreSound(c) ==
  \A k \in DOMAIN Plan[c] : Plan[c][k].way = "open" =>
    /\ Plan[c][k].must /\ Plan[c][k].after = {}
    /\ Plan[c][k].field \in {"process", "thread", "token", "buffer"}
    /\ Plan[c][k].field = "token" => \E j \in 1 .. k - 1 : Opens(c, j, "process")
    /\ Plan[c][k].field = "thread" => k = 1
    /\ \A j \in DOMAIN Plan[c] : Opens(c, j, Plan[c][k].field) => j = k

\* A field is read through a handle that was opened before, or is of the system.
FillingsAreSound(c) ==
  \A k \in DOMAIN Plan[c] : Plan[c][k].way # "open" =>
    /\ Plan[c][k].field \in FieldsOf[c]
    /\ Plan[c][k].way \in {"query", "memory", "string", "id"}
    /\ Plan[c][k].from = "system" \/ \E j \in 1 .. k - 1 : Opens(c, j, Plan[c][k].from)
    /\ Plan[c][k].way = "string" => Plan[c][k].field \in Strings
    /\ Plan[c][k].way = "id" => c = "heaps"
    /\ Plan[c][k].from = "buffer" => Plan[c][k].way = "id"
    /\ Plan[c][k].from = "system" <=> c = "system"
    /\ c = "heaps" => Plan[c][k].field = "heaps"

\* What cannot be done without comes before what is of use on its own.
OrderIsSound(c) ==
  \A k \in DOMAIN Plan[c] : Plan[c][k].must =>
     \A j \in 1 .. k - 1 : Plan[c][j].way # "open" => Plan[c][j].field \notin Useful(c)

\* A call but readTeb reads all its fields through one handle.
OneSource(c) ==
  c # "teb" =>
  \A j, k \in DOMAIN Plan[c] :
     Plan[c][j].way # "open" /\ Plan[c][k].way # "open" => Plan[c][j].from = Plan[c][k].from

\* readTeb reads its first field through the thread, the others through the process.
TebSources ==
  \A k \in DOMAIN Plan["teb"] : Plan["teb"][k].way # "open" =>
    /\ k > 1 /\ (k = 2 <=> Plan["teb"][k].field = "basic")
    /\ Plan["teb"][k].from = IF k = 2 THEN "thread" ELSE "process"
    /\ Opens("teb", 1, "thread") /\ Opens("teb", 3, "process") /\ Plan["teb"][2].must

\* An object of the kernel: its id, the process it is of, and whether it runs.
Object == [id : ObjectIds, of : Nat, alive : BOOLEAN]

\* A thread does not outlive its process, a process belongs to itself.
KernelInv ==
  /\ objects \in Seq(Object) /\ Len(objects) <= MaxObjects
  /\ \A i \in DOMAIN objects :
       /\ objects[i].of \in DOMAIN objects
       /\ objects[objects[i].of].of = objects[i].of
       /\ objects[i].alive => objects[objects[i].of].alive

\* No two objects that exist have one id.
UniqueIds ==
  \A i, j \in DOMAIN objects : Exists(i) /\ Exists(j) /\ objects[i].id = objects[j].id => i = j

\* The place of a call in its list.
CallInv ==
  /\ call \in DOMAIN FieldsOf /\ verdict \in {"idle", "running", "ok", "error"}
  /\ leaked \in BOOLEAN
  /\ verdict # "idle" => call \in DOMAIN Plan
  /\ verdict = "running" => stepNo \in 1 .. Len(Plan[call]) + 1

\* The handles: those of the steps that were made, while the call runs.
HeldInv ==
  /\ \A h \in DOMAIN held : h \in Handles /\ held[h] \in 0 .. Len(objects)
  /\ \A h \in DOMAIN held : h # "buffer" => held[h] \in DOMAIN objects
  /\ verdict = "running" =>
       \A h \in Handles : h \in DOMAIN held <=> \E k \in 1 .. stepNo - 1 : Opens(call, k, h)
  /\ "process" \in DOMAIN held => IsProcess(held["process"])
  /\ {"process", "thread"} \subseteq DOMAIN held =>
       LET p == objects[held["thread"]].of IN objects[p].id = wanted.pid => held["process"] = p

\* What is reported is of somebody, unless it is of the system, and whole but for strings.
FieldsInv ==
  /\ DOMAIN fields \subseteq FieldsOf[call]
  /\ \A f \in DOMAIN fields :
       /\ fields[f] \in [of : 0 .. Len(objects), whole : BOOLEAN]
       /\ fields[f].whole \/ f \in Strings
       /\ fields[f].of = Nobody <=> call = "system"

\* What has been reported is from the handle its step names; nothing needed is missing.
ReadInv ==
  verdict = "running" =>
    /\ \A f \in DOMAIN fields : \E k \in 1 .. stepNo - 1 :
         /\ Fills(call, k, f)
         /\ call \notin {"system", "heaps"} =>
              Plan[call][k].from \in DOMAIN held /\ fields[f].of = held[Plan[call][k].from]
    /\ \A k \in 1 .. stepNo - 1 :
         Plan[call][k].must /\ Plan[call][k].way # "open" => Plan[call][k].field \in DOMAIN fields

\* The process asked for is the one the thread is of, which readTeb does not look at.
Asked ==
  call = "teb" /\ "basic" \in DOMAIN fields =>
    objects[objects[fields["basic"].of].of].id = wanted.pid

\* All that is reported is of one process.
SameOwner ==
  \A f, g \in DOMAIN fields :
    fields[f].of # Nobody /\ fields[g].of # Nobody =>
      objects[fields[f].of].of = objects[fields[g].of].of

\* The part of ReportsAreOfOne that takes a proof.
ReportInv == Returned /\ Asked => SameOwner

-----------------------------------------------------------------------------
(* Inspection: the lists of steps.                                         *)

\* Two lists joined, position by position.
LEMMA Concatenated ==
  ASSUME NEW S, NEW s \in Seq(S), NEW t \in Seq(S)
  PROVE  /\ s \o t \in Seq(S) /\ Len(s \o t) = Len(s) + Len(t)
         /\ \A i \in 1 .. Len(s) + Len(t) : (s \o t)[i] = IF i <= Len(s) THEN s[i] ELSE t[i - Len(s)]
OBVIOUS

\* Lists that agree in length and at every position are equal.
LEMMA SameSeq ==
  ASSUME NEW S, NEW s \in Seq(S), NEW t \in Seq(S), Len(s) = Len(t), \A i \in 1 .. Len(s) : s[i] = t[i]
  PROVE  s = t
OBVIOUS

LEMMA Join1And2 ==
  ASSUME NEW a, NEW b, NEW c
  PROVE  <<a>> \o <<b, c>> = <<a, b, c>>
<1> DEFINE S == {a, b, c}
<1>1. <<a>> \in Seq(S) /\ <<b, c>> \in Seq(S) /\ <<a, b, c>> \in Seq(S)
  OBVIOUS
<1> HIDE DEF S
<1>2. <<a>> \o <<b, c>> \in Seq(S) /\ Len(<<a>> \o <<b, c>>) = 3 /\ Len(<<a, b, c>>) = 3
  BY <1>1, Concatenated
<1>3. \A i \in 1 .. 3 : (<<a>> \o <<b, c>>)[i] = <<a, b, c>>[i]
  BY <1>1, Concatenated
<1> QED
  BY <1>1, <1>2, <1>3, SameSeq

LEMMA Join2And3 ==
  ASSUME NEW a, NEW b, NEW c, NEW d, NEW e
  PROVE  <<a, b>> \o <<c, d, e>> = <<a, b, c, d, e>>
<1> DEFINE S == {a, b, c, d, e}
<1>1. <<a, b>> \in Seq(S) /\ <<c, d, e>> \in Seq(S) /\ <<a, b, c, d, e>> \in Seq(S)
  OBVIOUS
<1> HIDE DEF S
<1>2. /\ <<a, b>> \o <<c, d, e>> \in Seq(S)
      /\ Len(<<a, b>> \o <<c, d, e>>) = 5
      /\ Len(<<a, b, c, d, e>>) = 5
  BY <1>1, Concatenated
<1>3. \A i \in 1 .. 5 : (<<a, b>> \o <<c, d, e>>)[i] = <<a, b, c, d, e>>[i]
  BY <1>1, Concatenated
<1> QED
  BY <1>1, <1>2, <1>3, SameSeq

LEMMA Join5And1 ==
  ASSUME NEW a, NEW b, NEW c, NEW d, NEW e, NEW f
  PROVE  <<a, b, c, d, e>> \o <<f>> = <<a, b, c, d, e, f>>
<1> DEFINE S == {a, b, c, d, e, f}
<1>1. <<a, b, c, d, e>> \in Seq(S) /\ <<f>> \in Seq(S) /\ <<a, b, c, d, e, f>> \in Seq(S)
  OBVIOUS
<1> HIDE DEF S
<1>2. /\ <<a, b, c, d, e>> \o <<f>> \in Seq(S)
      /\ Len(<<a, b, c, d, e>> \o <<f>>) = 6
      /\ Len(<<a, b, c, d, e, f>>) = 6
  BY <1>1, Concatenated
<1>3. \A i \in 1 .. 6 : (<<a, b, c, d, e>> \o <<f>>)[i] = <<a, b, c, d, e, f>>[i]
  BY <1>1, Concatenated
<1> QED
  BY <1>1, <1>2, <1>3, SameSeq

LEMMA Join6And1 ==
  ASSUME NEW a, NEW b, NEW c, NEW d, NEW e, NEW f, NEW g
  PROVE  <<a, b, c, d, e, f>> \o <<g>> = <<a, b, c, d, e, f, g>>
<1> DEFINE S == {a, b, c, d, e, f, g}
<1>1. <<a, b, c, d, e, f>> \in Seq(S) /\ <<g>> \in Seq(S) /\ <<a, b, c, d, e, f, g>> \in Seq(S)
  OBVIOUS
<1> HIDE DEF S
<1>2. /\ <<a, b, c, d, e, f>> \o <<g>> \in Seq(S)
      /\ Len(<<a, b, c, d, e, f>> \o <<g>>) = 7
      /\ Len(<<a, b, c, d, e, f, g>>) = 7
  BY <1>1, Concatenated
<1>3. \A i \in 1 .. 7 : (<<a, b, c, d, e, f>> \o <<g>>)[i] = <<a, b, c, d, e, f, g>>[i]
  BY <1>1, Concatenated
<1> QED
  BY <1>1, <1>2, <1>3, SameSeq

LEMMA Join7And1 ==
  ASSUME NEW a, NEW b, NEW c, NEW d, NEW e, NEW f, NEW g, NEW h
  PROVE  <<a, b, c, d, e, f, g>> \o <<h>> = <<a, b, c, d, e, f, g, h>>
<1> DEFINE S == {a, b, c, d, e, f, g, h}
<1>1. /\ <<a, b, c, d, e, f, g>> \in Seq(S)
      /\ <<h>> \in Seq(S)
      /\ <<a, b, c, d, e, f, g, h>> \in Seq(S)
  OBVIOUS
<1> HIDE DEF S
<1>2. /\ <<a, b, c, d, e, f, g>> \o <<h>> \in Seq(S)
      /\ Len(<<a, b, c, d, e, f, g>> \o <<h>>) = 8
      /\ Len(<<a, b, c, d, e, f, g, h>>) = 8
  BY <1>1, Concatenated
<1>3. \A i \in 1 .. 8 : (<<a, b, c, d, e, f, g>> \o <<h>>)[i] = <<a, b, c, d, e, f, g, h>>[i]
  BY <1>1, Concatenated
<1> QED
  BY <1>1, <1>2, <1>3, SameSeq

LEMMA Join3And4 ==
  ASSUME NEW a, NEW b, NEW c, NEW d, NEW e, NEW f, NEW g
  PROVE  <<a, b, c>> \o <<d, e, f, g>> = <<a, b, c, d, e, f, g>>
<1> DEFINE S == {a, b, c, d, e, f, g}
<1>1. <<a, b, c>> \in Seq(S) /\ <<d, e, f, g>> \in Seq(S) /\ <<a, b, c, d, e, f, g>> \in Seq(S)
  OBVIOUS
<1> HIDE DEF S
<1>2. /\ <<a, b, c>> \o <<d, e, f, g>> \in Seq(S)
      /\ Len(<<a, b, c>> \o <<d, e, f, g>>) = 7
      /\ Len(<<a, b, c, d, e, f, g>>) = 7
  BY <1>1, Concatenated
<1>3. \A i \in 1 .. 7 : (<<a, b, c>> \o <<d, e, f, g>>)[i] = <<a, b, c, d, e, f, g>>[i]
  BY <1>1, Concatenated
<1> QED
  BY <1>1, <1>2, <1>3, SameSeq

LEMMA Join3And1 ==
  ASSUME NEW a, NEW b, NEW c, NEW d
  PROVE  <<a, b, c>> \o <<d>> = <<a, b, c, d>>
<1> DEFINE S == {a, b, c, d}
<1>1. <<a, b, c>> \in Seq(S) /\ <<d>> \in Seq(S) /\ <<a, b, c, d>> \in Seq(S)
  OBVIOUS
<1> HIDE DEF S
<1>2. <<a, b, c>> \o <<d>> \in Seq(S) /\ Len(<<a, b, c>> \o <<d>>) = 4 /\ Len(<<a, b, c, d>>) = 4
  BY <1>1, Concatenated
<1>3. \A i \in 1 .. 4 : (<<a, b, c>> \o <<d>>)[i] = <<a, b, c, d>>[i]
  BY <1>1, Concatenated
<1> QED
  BY <1>1, <1>2, <1>3, SameSeq

LEMMA Join3And2 ==
  ASSUME NEW a, NEW b, NEW c, NEW d, NEW e
  PROVE  <<a, b, c>> \o <<d, e>> = <<a, b, c, d, e>>
<1> DEFINE S == {a, b, c, d, e}
<1>1. <<a, b, c>> \in Seq(S) /\ <<d, e>> \in Seq(S) /\ <<a, b, c, d, e>> \in Seq(S)
  OBVIOUS
<1> HIDE DEF S
<1>2. /\ <<a, b, c>> \o <<d, e>> \in Seq(S)
      /\ Len(<<a, b, c>> \o <<d, e>>) = 5
      /\ Len(<<a, b, c, d, e>>) = 5
  BY <1>1, Concatenated
<1>3. \A i \in 1 .. 5 : (<<a, b, c>> \o <<d, e>>)[i] = <<a, b, c, d, e>>[i]
  BY <1>1, Concatenated
<1> QED
  BY <1>1, <1>2, <1>3, SameSeq

LEMMA Join8And3 ==
  ASSUME NEW a, NEW b, NEW c, NEW d, NEW e, NEW f, NEW g, NEW h, NEW i, NEW j, NEW k
  PROVE  <<a, b, c, d, e, f, g, h>> \o <<i, j, k>> =
           <<a, b, c, d, e, f, g, h, i, j, k>>
<1> DEFINE S == {a, b, c, d, e, f, g, h, i, j, k}
           s == <<a, b, c, d, e, f, g, h>>
           t == <<i, j, k>>
           u == <<a, b, c, d, e, f, g, h, i, j, k>>
<1>1. s \in Seq(S) /\ t \in Seq(S) /\ u \in Seq(S) /\ Len(s) = 8 /\ Len(t) = 3 /\ Len(u) = 11
  OBVIOUS
<1>2. \A x \in 1 .. 11 : u[x] = IF x <= 8 THEN s[x] ELSE t[x - 8]
  OBVIOUS
<1> HIDE DEF S, s, t, u
<1>3. s \in Seq(S) /\ t \in Seq(S) /\ u \in Seq(S)
  BY <1>1
<1>4. /\ s \o t \in Seq(S) /\ Len(s \o t) = Len(s) + Len(t)
      /\ \A x \in 1 .. Len(s) + Len(t) : (s \o t)[x] = IF x <= Len(s) THEN s[x] ELSE t[x - Len(s)]
  BY <1>3, Concatenated
<1>5. Len(s \o t) = Len(u) /\ \A x \in 1 .. Len(s \o t) : (s \o t)[x] = u[x]
  <2>1. Len(s) = 8 /\ Len(s) + Len(t) = 11 /\ Len(s \o t) = 11 /\ Len(u) = 11
    BY <1>1, <1>4
  <2> QED
    BY <1>2, <1>4, <2>1
<1>6. s \o t = u
  BY <1>3, <1>4, <1>5, SameSeq
<1> QED
  BY <1>6 DEF s, t, u

\* The plans, step by step.
LEMMA PebPlan ==
  Plan["peb"] =
    <<OpenOf("process"), ProcessBasic, Needed("memory", "peb", "process"),
      Optional("memory", "parameters", "process"),
      Nested("string", "imagePathName", "process", "parameters"),
      Nested("string", "commandLine", "process", "parameters"),
      Nested("string", "currentDirectory", "process", "parameters"),
      Optional("memory", "loaderData", "process")>>
<1> DEFINE a == OpenOf("process")
           b == ProcessBasic
           c == Needed("memory", "peb", "process")
           d == Optional("memory", "parameters", "process")
           e == Nested("string", "imagePathName", "process", "parameters")
           f == Nested("string", "commandLine", "process", "parameters")
           g == Nested("string", "currentDirectory", "process", "parameters")
           h == Optional("memory", "loaderData", "process")
<1>1. <<a, b, c>> \o <<d, e, f, g>> = <<a, b, c, d, e, f, g>>
  BY Join3And4
<1>2. <<a, b, c, d, e, f, g>> \o <<h>> = <<a, b, c, d, e, f, g, h>>
  BY Join7And1
<1> QED
  BY <1>1, <1>2 DEF Plan, PebSteps, ParameterSteps, LoaderSteps

LEMMA TokenPlan ==
  Plan["token"] =
    <<OpenOf("process"), OpenOf("token"), TokenQuery("user"),
      Nested("query", "userSid", "token", "user"),
      Nested("query", "userName", "token", "user"), TokenQuery("integrityLevel"),
      TokenQuery("privileges"), TokenQuery("groups"), TokenQuery("sessionId"),
      TokenQuery("isElevated"), TokenQuery("elevationType")>>
<1> DEFINE a == OpenOf("process")
           b == OpenOf("token")
           c == TokenQuery("user")
           d == Nested("query", "userSid", "token", "user")
           e == Nested("query", "userName", "token", "user")
           f == TokenQuery("integrityLevel")
           g == TokenQuery("privileges")
           h == TokenQuery("groups")
           i == TokenQuery("sessionId")
           j == TokenQuery("isElevated")
           k == TokenQuery("elevationType")
<1>1. <<c>> \o <<d, e>> = <<c, d, e>>
  BY Join1And2
<1>2. <<a, b>> \o <<c, d, e>> = <<a, b, c, d, e>>
  BY Join2And3
<1>3. <<a, b, c, d, e>> \o <<f>> = <<a, b, c, d, e, f>>
  BY Join5And1
<1>4. <<a, b, c, d, e, f>> \o <<g>> = <<a, b, c, d, e, f, g>>
  BY Join6And1
<1>5. <<a, b, c, d, e, f, g>> \o <<h>> = <<a, b, c, d, e, f, g, h>>
  BY Join7And1
<1>6. <<a, b, c, d, e, f, g, h>> \o <<i, j, k>> = <<a, b, c, d, e, f, g, h, i, j, k>>
  BY Join8And3
<1> QED
  BY <1>1, <1>2, <1>3, <1>4, <1>5, <1>6 DEF Plan, TokenSteps, UserSteps, SidSteps,
     IntegritySteps, PrivilegeSteps, GroupSteps, SessionSteps

LEMMA ProcessPlan ==
  Plan["process"] =
    <<OpenOf("process"), Optional("query", "fullImagePath", "process"),
      Optional("query", "architecture", "process"),
      Optional("query", "commandLine", "process")>>
<1> DEFINE a == OpenOf("process")
           b == Optional("query", "fullImagePath", "process")
           c == Optional("query", "architecture", "process")
           d == Optional("query", "commandLine", "process")
<1>1. <<a>> \o <<b, c>> = <<a, b, c>>
  BY Join1And2
<1>2. <<a, b, c>> \o <<d>> = <<a, b, c, d>>
  BY Join3And1
<1> QED
  BY <1>1, <1>2 DEF Plan, ProcessSteps, ImageSteps, CommandLineStep

LEMMA SystemPlan ==
  Plan["system"] =
    <<Optional("query", "topology", "system"),
      Optional("query", "memory", "system"),
      Optional("query", "pageSize", "system"), Optional("query", "os", "system"),
      Optional("query", "pagefiles", "system")>>
<1> DEFINE a == Optional("query", "topology", "system")
           b == Optional("query", "memory", "system")
           c == Optional("query", "pageSize", "system")
           d == Optional("query", "os", "system")
           e == Optional("query", "pagefiles", "system")
<1>1. <<a>> \o <<b, c>> = <<a, b, c>>
  BY Join1And2
<1>2. <<a, b, c>> \o <<d, e>> = <<a, b, c, d, e>>
  BY Join3And2
<1> QED
  BY <1>1, <1>2 DEF Plan, SystemSteps, MemorySteps, OsStep

LEMMA TokenShape ==
  LET P == Plan["token"] IN
  /\ DOMAIN P = 1 .. 11
  /\ \A k \in 1 .. 2 : /\ P[k].way = "open" /\ P[k].must /\ P[k].after = {}
                        /\ P[k].field = IF k = 1 THEN "process" ELSE "token"
  /\ \A k \in 3 .. 11 : /\ P[k].way = "query" /\ P[k].from = "token" /\ ~P[k].must
                         /\ P[k].field \in FieldsOf["token"]
<1>1. /\ DOMAIN Plan["token"] = 1 .. 11
      /\ Plan["token"][1] = OpenOf("process") /\ Plan["token"][2] = OpenOf("token")
  BY TokenPlan
<1>2. \A k \in 3 .. 11 : /\ Plan["token"][k].way = "query" /\ Plan["token"][k].from = "token"
                         /\ ~Plan["token"][k].must /\ Plan["token"][k].field \in FieldsOf["token"]
  BY TokenPlan DEF TokenQuery, Optional, Nested, Step, FieldsOf, TokenFields
<1> QED
  BY <1>1, <1>2 DEF OpenOf, Step

\* Every list is sound, call by call.
LEMMA AllOpeningsAreSound == \A c \in DOMAIN Plan : OpeningsAreSound(c)
<1>1. OpeningsAreSound("peb")
  BY PebPlan, SMTT(30) DEF OpeningsAreSound, Opens, OpenOf, ProcessBasic, ThreadBasic, Needed,
     Optional, Nested, Step
<1>2. OpeningsAreSound("teb")
  BY DEF OpeningsAreSound, Opens, Plan, TebSteps, OpenOf, ProcessBasic, ThreadBasic, Needed,
     Optional, Nested, Step
<1>3. OpeningsAreSound("token")
  BY TokenShape DEF OpeningsAreSound, Opens
<1>4. OpeningsAreSound("process")
  BY ProcessPlan DEF OpeningsAreSound, Opens, OpenOf, ProcessBasic, ThreadBasic, Needed,
     Optional, Nested, Step
<1>5. OpeningsAreSound("thread")
  BY DEF OpeningsAreSound, Opens, Plan, ThreadSteps, StartAddressStep, OpenOf, ProcessBasic,
     ThreadBasic, Needed, Optional, Nested, Step
<1>6. OpeningsAreSound("heaps")
  BY DEF OpeningsAreSound, Opens, Plan, HeapSteps, HeapsStep, OpenOf, ProcessBasic,
     ThreadBasic, Needed, Optional, Nested, Step
<1>7. OpeningsAreSound("system")
  BY SystemPlan DEF OpeningsAreSound, Opens, OpenOf, ProcessBasic, ThreadBasic, Needed,
     Optional, Nested, Step
<1> QED
  BY <1>1, <1>2, <1>3, <1>4, <1>5, <1>6, <1>7 DEF Plan

LEMMA AllFillingsAreSound == \A c \in DOMAIN Plan : FillingsAreSound(c)
<1>1. FillingsAreSound("peb")
  BY PebPlan, SMTT(30) DEF FillingsAreSound, Opens, FieldsOf, PebFields, TebFields, TokenFields,
     SystemFields, Strings, OpenOf, ProcessBasic, ThreadBasic, Needed, Optional, Nested, Step
<1>2. FillingsAreSound("teb")
  BY DEF FillingsAreSound, Opens, FieldsOf, PebFields, TebFields, TokenFields, SystemFields,
     Strings, Plan, TebSteps, OpenOf, ProcessBasic, ThreadBasic, Needed, Optional, Nested, Step
<1>3. FillingsAreSound("token")
  BY TokenShape DEF FillingsAreSound, Opens, FieldsOf, PebFields, TebFields, TokenFields,
     SystemFields, Strings
<1>4. FillingsAreSound("process")
  BY ProcessPlan DEF FillingsAreSound, Opens, FieldsOf, PebFields, TebFields, TokenFields,
     SystemFields, Strings, OpenOf, ProcessBasic, ThreadBasic, Needed, Optional, Nested, Step
<1>5. FillingsAreSound("thread")
  BY DEF FillingsAreSound, Opens, FieldsOf, PebFields, TebFields, TokenFields, SystemFields,
     Strings, Plan, ThreadSteps, StartAddressStep, OpenOf, ProcessBasic, ThreadBasic, Needed,
     Optional, Nested, Step
<1>6. FillingsAreSound("heaps")
  BY DEF FillingsAreSound, Opens, FieldsOf, PebFields, TebFields, TokenFields, SystemFields,
     Strings, Plan, HeapSteps, HeapsStep, OpenOf, ProcessBasic, ThreadBasic, Needed, Optional,
     Nested, Step
<1>7. FillingsAreSound("system")
  BY SystemPlan DEF FillingsAreSound, Opens, FieldsOf, PebFields, TebFields, TokenFields,
     SystemFields, Strings, OpenOf, ProcessBasic, ThreadBasic, Needed, Optional, Nested, Step
<1> QED
  BY <1>1, <1>2, <1>3, <1>4, <1>5, <1>6, <1>7 DEF Plan

LEMMA AllOrderIsSound == \A c \in DOMAIN Plan : OrderIsSound(c)
<1>1. OrderIsSound("peb")
  BY PebPlan DEF OrderIsSound, Useful, OpenOf, ProcessBasic, ThreadBasic, Needed, Optional,
     Nested, Step
<1>2. OrderIsSound("teb")
  BY DEF OrderIsSound, Useful, Plan, TebSteps, OpenOf, ProcessBasic, ThreadBasic, Needed,
     Optional, Nested, Step
<1>3. OrderIsSound("token")
  BY TokenShape DEF OrderIsSound, Useful
<1>4. OrderIsSound("process")
  BY ProcessPlan DEF OrderIsSound, Useful, OpenOf, ProcessBasic, ThreadBasic, Needed, Optional,
     Nested, Step
<1>5. OrderIsSound("thread")
  BY DEF OrderIsSound, Useful, Plan, ThreadSteps, StartAddressStep, OpenOf, ProcessBasic,
     ThreadBasic, Needed, Optional, Nested, Step
<1>6. OrderIsSound("heaps")
  BY DEF OrderIsSound, Useful, Plan, HeapSteps, HeapsStep, OpenOf, ProcessBasic, ThreadBasic,
     Needed, Optional, Nested, Step
<1>7. OrderIsSound("system")
  BY SystemPlan DEF OrderIsSound, Useful, OpenOf, ProcessBasic, ThreadBasic, Needed, Optional,
     Nested, Step
<1> QED
  BY <1>1, <1>2, <1>3, <1>4, <1>5, <1>6, <1>7 DEF Plan

LEMMA AllOneSource == \A c \in DOMAIN Plan : OneSource(c)
<1>1. OneSource("peb")
  BY PebPlan, SMTT(30) DEF OneSource, OpenOf, ProcessBasic, ThreadBasic, Needed, Optional, Nested, Step
<1>2. OneSource("teb")
  BY DEF OneSource, Plan, TebSteps, OpenOf, ProcessBasic, ThreadBasic, Needed, Optional,
     Nested, Step
<1>3. OneSource("token")
  BY TokenShape DEF OneSource
<1>4. OneSource("process")
  BY ProcessPlan DEF OneSource, OpenOf, ProcessBasic, ThreadBasic, Needed, Optional, Nested,
     Step
<1>5. OneSource("thread")
  BY DEF OneSource, Plan, ThreadSteps, StartAddressStep, OpenOf, ProcessBasic, ThreadBasic,
     Needed, Optional, Nested, Step
<1>6. OneSource("heaps")
  BY DEF OneSource, Plan, HeapSteps, HeapsStep, OpenOf, ProcessBasic, ThreadBasic, Needed,
     Optional, Nested, Step
<1>7. OneSource("system")
  BY SystemPlan DEF OneSource, OpenOf, ProcessBasic, ThreadBasic, Needed, Optional, Nested, Step
<1> QED
  BY <1>1, <1>2, <1>3, <1>4, <1>5, <1>6, <1>7 DEF Plan

LEMMA TebPlan == TebSources
BY DEF TebSources, Opens, Plan, TebSteps, OpenOf, ProcessBasic, ThreadBasic, Needed, Optional,
   Nested, Step

-----------------------------------------------------------------------------
(* Inspection: the steps of the calls and of the system.                   *)

\* The inductive invariant of the calls.
CallsInv ==
  KernelInv /\ UniqueIds /\ CallInv /\ HeldInv /\ FieldsInv /\ ReadInv /\ ReportInv
    /\ FailsForGoodReason

\* The inductive invariant of both.
InspectInv == ModulesInv /\ CallsInv

LEMMA Plans ==
  /\ DOMAIN Plan = {"peb", "teb", "token", "process", "thread", "heaps", "system"}
  /\ DOMAIN FieldsOf = DOMAIN Plan \cup {"none"}
BY DEF Plan, FieldsOf

LEMMA PlanLengths == \A c \in DOMAIN Plan : DOMAIN Plan[c] = 1 .. Len(Plan[c]) /\ Len(Plan[c]) \in Nat
<1>1. /\ DOMAIN Plan["teb"] = 1 .. 5 /\ Len(Plan["teb"]) = 5
      /\ DOMAIN Plan["thread"] = 1 .. 3 /\ Len(Plan["thread"]) = 3
      /\ DOMAIN Plan["heaps"] = 1 .. 2 /\ Len(Plan["heaps"]) = 2
  BY DEF Plan, TebSteps, ThreadSteps, HeapSteps
<1>2. DOMAIN Plan["peb"] = 1 .. 8 /\ Len(Plan["peb"]) = 8
  BY PebPlan
<1>3. DOMAIN Plan["token"] = 1 .. 11 /\ Len(Plan["token"]) = 11
  BY TokenPlan
<1>4. DOMAIN Plan["process"] = 1 .. 4 /\ Len(Plan["process"]) = 4
  BY ProcessPlan
<1>5. DOMAIN Plan["system"] = 1 .. 5 /\ Len(Plan["system"]) = 5
  BY SystemPlan
<1> QED
  BY <1>1, <1>2, <1>3, <1>4, <1>5, Plans

\* A handle keeps its object and the process that is of.
LEMMA Keeping ==
  \A i : i \in Kept <=> \E h \in DOMAIN held \cap {"process", "thread"} :
                           i = held[h] \/ i = objects[held[h]].of
BY DEF Kept

\* The holder of an id is an object that exists and has it.
LEMMA Holder ==
  ASSUME NEW id, objects \in Seq(Object)
  PROVE  /\ HolderOf(id) = Nobody => \A i \in DOMAIN objects : Exists(i) => objects[i].id # id
         /\ HolderOf(id) # Nobody =>
              /\ HolderOf(id) \in DOMAIN objects /\ Exists(HolderOf(id))
              /\ objects[HolderOf(id)].id = id
<1> DEFINE H == {i \in DOMAIN objects : Exists(i) /\ objects[i].id = id}
<1>1. DOMAIN objects = 1 .. Len(objects) /\ Len(objects) \in Nat
  OBVIOUS
<1>2. CASE H = {}
  BY <1>2 DEF HolderOf
<1>3. CASE H # {}
  <2>1. HolderOf(id) \in H
    BY <1>3 DEF HolderOf
  <2> QED
    BY <1>1, <2>1 DEF Nobody
<1> QED
  BY <1>2, <1>3

\* The owner of what exists exists.
LEMMA OwnerExists ==
  ASSUME KernelInv, HeldInv, NEW i \in DOMAIN objects, Exists(i)
  PROVE  Exists(objects[i].of)
<1>1. CASE objects[i].alive
  BY <1>1 DEF KernelInv, Exists
<1>2. CASE i \in Kept
  <2>1. PICK h \in DOMAIN held \cap {"process", "thread"} : i = held[h] \/ i = objects[held[h]].of
    BY <1>2, Keeping
  <2>2. held[h] \in DOMAIN objects
    BY <2>1 DEF HeldInv
  <2>3. objects[i].of = objects[held[h]].of
    BY <2>1, <2>2 DEF KernelInv
  <2> QED
    BY <2>1, <2>3, Keeping DEF Exists
<1> QED
  BY <1>1, <1>2 DEF Exists

\* What moves of the kernel leave as it is.
LEMMA Unmoved ==
  ASSUME CallsInv, KernelInv', UniqueIds',
         UNCHANGED <<call, wanted, stepNo, held, fields, verdict, leaked>>,
         DOMAIN objects \subseteq DOMAIN objects', Len(objects) <= Len(objects'),
         \A i \in DOMAIN objects : objects'[i].id = objects[i].id /\ objects'[i].of = objects[i].of
  PROVE  CallsInv'
<1>0. /\ KernelInv /\ CallInv /\ HeldInv /\ FieldsInv /\ ReadInv /\ ReportInv /\ FailsForGoodReason
      /\ DOMAIN objects = 1 .. Len(objects) /\ Len(objects) \in Nat /\ Len(objects') \in Nat
  BY DEF CallsInv, KernelInv
<1>1. CallInv'
  BY <1>0 DEF CallInv
<1>2. HeldInv'
  <2>1. \A h \in DOMAIN held : h \in Handles /\ held[h] \in 0 .. Len(objects')
    BY <1>0 DEF HeldInv
  <2>2. \A h \in DOMAIN held : h # "buffer" => held[h] \in DOMAIN objects'
    BY <1>0 DEF HeldInv
  <2>3. "process" \in DOMAIN held => held["process"] \in DOMAIN objects /\ objects'[held["process"]].of = held["process"]
    BY <1>0 DEF HeldInv, IsProcess
  <2>4. ASSUME "process" \in DOMAIN held, "thread" \in DOMAIN held
        PROVE  LET p == objects'[held["thread"]].of IN objects'[p].id = wanted.pid => held["process"] = p
    <3>1. held["thread"] \in DOMAIN objects
      BY <1>0, <2>4 DEF HeldInv
    <3>2. objects[held["thread"]].of \in DOMAIN objects
      BY <1>0, <3>1 DEF KernelInv
    <3> QED
      BY <1>0, <2>4, <3>1, <3>2 DEF HeldInv
  <2> QED
    BY <1>0, <2>1, <2>2, <2>3, <2>4 DEF HeldInv, IsProcess, Opens
<1>3. FieldsInv'
  <2>1. ASSUME NEW f \in DOMAIN fields PROVE fields[f] \in [of : 0 .. Len(objects'), whole : BOOLEAN]
    <3>1. fields[f] \in [of : 0 .. Len(objects), whole : BOOLEAN]
      BY <1>0 DEF FieldsInv
    <3> QED
      BY <1>0, <3>1
  <2> QED
    BY <1>0, <2>1 DEF FieldsInv
<1>4. ReadInv'
  BY <1>0 DEF ReadInv, Fills
<1>5. ASSUME NEW f \in DOMAIN fields, fields[f].of # Nobody PROVE fields[f].of \in DOMAIN objects
  <2>1. fields[f] \in [of : 0 .. Len(objects), whole : BOOLEAN]
    BY <1>0 DEF FieldsInv
  <2> QED
    BY <1>0, <1>5, <2>1 DEF Nobody
<1>6. SameOwner => SameOwner'
  BY <1>5 DEF SameOwner
<1>7. Asked' => Asked
  <2> SUFFICES ASSUME Asked', call = "teb", "basic" \in DOMAIN fields
               PROVE  objects[objects[fields["basic"].of].of].id = wanted.pid
    BY DEF Asked
  <2>1. fields["basic"].of \in DOMAIN objects
    BY <1>0, <1>5 DEF FieldsInv
  <2>2. objects[fields["basic"].of].of \in DOMAIN objects
    BY <1>0, <2>1 DEF KernelInv
  <2> QED
    BY <2>1, <2>2 DEF Asked
<1>8. ReportInv'
  BY <1>0, <1>6, <1>7 DEF ReportInv, Returned
<1>9. FailsForGoodReason'
  BY <1>0 DEF FailsForGoodReason, Returned
<1> QED
  BY <1>1, <1>2, <1>3, <1>4, <1>8, <1>9 DEF CallsInv

LEMMA CreateKeeps ==
  ASSUME CallsInv, NEW id \in ObjectIds, NEW p, Create(id, p),
         p = Len(objects) + 1 \/ (p \in DOMAIN objects /\ IsProcess(p) /\ objects[p].alive)
  PROVE  CallsInv'
<1> DEFINE n == Len(objects) + 1
           new == [id |-> id, of |-> p, alive |-> TRUE]
<1>1. /\ KernelInv /\ UniqueIds /\ HeldInv /\ n \in Nat \ {0} /\ DOMAIN objects = 1 .. n - 1
      /\ objects \in Seq(Object) /\ n \notin DOMAIN objects
      /\ Len(objects) < MaxObjects /\ HolderOf(id) = Nobody /\ objects' = Append(objects, new)
      /\ UNCHANGED <<call, wanted, stepNo, held, fields, verdict, leaked>>
  BY DEF CallsInv, KernelInv, Create
<1>2. new \in Object /\ new.id = id /\ new.of = p /\ new.alive
  BY <1>1 DEF Object
<1> HIDE DEF new
<1>3. /\ objects' \in Seq(Object) /\ Len(objects') = n /\ DOMAIN objects' = 1 .. n /\ objects'[n] = new
      /\ \A i \in DOMAIN objects : objects'[i] = objects[i]
  BY <1>1, <1>2
<1> HIDE DEF n
<1>4. DOMAIN objects' = DOMAIN objects \cup {n}
  BY <1>1, <1>3
<1>5. KernelInv'
  <2>1. ASSUME NEW i \in DOMAIN objects
        PROVE  /\ objects'[i].of \in DOMAIN objects'
               /\ objects'[objects'[i].of].of = objects'[i].of
               /\ objects'[i].alive => objects'[objects'[i].of].alive
    BY <1>1, <1>3, <1>4 DEF KernelInv
  <2>2. /\ objects'[n].of \in DOMAIN objects' /\ objects'[objects'[n].of].of = objects'[n].of
        /\ objects'[n].alive => objects'[objects'[n].of].alive
    <3>1. CASE p = n
      BY <1>2, <1>3, <1>4, <3>1
    <3>2. CASE p \in DOMAIN objects /\ IsProcess(p) /\ objects[p].alive
      BY <1>2, <1>3, <1>4, <3>2 DEF IsProcess
    <3> QED
      BY <3>1, <3>2 DEF n
  <2>3. Len(objects') <= MaxObjects
    BY <1>1, <1>3, InspectionAssumption DEF n
  <2> QED
    BY <1>3, <1>4, <2>1, <2>2, <2>3 DEF KernelInv
<1>6. Kept' = Kept
  <2>1. \A h \in DOMAIN held \cap {"process", "thread"} : objects'[held[h]].of = objects[held[h]].of
    BY <1>1, <1>3 DEF HeldInv
  <2> QED
    BY <1>1, <2>1 DEF Kept
<1>7. \A i \in DOMAIN objects : Exists(i)' = Exists(i)
  BY <1>3, <1>6 DEF Exists
<1>8. \A i \in DOMAIN objects : Exists(i) => objects[i].id # id
  BY <1>1, Holder
<1>9. UniqueIds'
  <2> SUFFICES ASSUME NEW i \in DOMAIN objects', NEW j \in DOMAIN objects', Exists(i)', Exists(j)',
                      objects'[i].id = objects'[j].id
               PROVE  i = j
    BY DEF UniqueIds
  <2>1. CASE i = n \/ j = n
    BY <1>2, <1>3, <1>4, <1>7, <1>8, <2>1
  <2>2. CASE i \in DOMAIN objects /\ j \in DOMAIN objects
    BY <1>1, <1>3, <1>7, <2>2 DEF UniqueIds
  <2> QED
    BY <1>4, <2>1, <2>2
<1>10. DOMAIN objects \subseteq DOMAIN objects' /\ Len(objects) <= Len(objects')
  BY <1>1, <1>3, <1>4 DEF n
<1> QED
  BY <1>1, <1>3, <1>5, <1>9, <1>10, Unmoved

LEMMA ExitKeeps == ASSUME CallsInv, NEW k \in DOMAIN objects, Exit(k) PROVE CallsInv'
<1>1. /\ KernelInv /\ UniqueIds /\ HeldInv /\ objects \in Seq(Object)
      /\ DOMAIN objects = 1 .. Len(objects) /\ Len(objects) \in Nat
      /\ UNCHANGED <<call, wanted, stepNo, held, fields, verdict, leaked>>
  BY DEF CallsInv, KernelInv, Exit
<1>0. objects' = [j \in DOMAIN objects |->
                    [objects[j] EXCEPT !.alive = @ /\ ~(j = k \/ objects[j].of = k)]]
  BY DEF Exit
<1>2. ASSUME NEW j \in DOMAIN objects
      PROVE  /\ objects'[j] \in Object
             /\ objects'[j].id = objects[j].id /\ objects'[j].of = objects[j].of
             /\ objects'[j].alive <=> objects[j].alive /\ ~(j = k \/ objects[j].of = k)
  <2>1. objects[j] \in Object
    BY <1>1
  <2>2. objects'[j] = [objects[j] EXCEPT !.alive = @ /\ ~(j = k \/ objects[j].of = k)]
    BY <1>0
  <2> QED
    BY <2>1, <2>2 DEF Object
<1>3. DOMAIN objects' = DOMAIN objects /\ Len(objects') = Len(objects) /\ objects' \in Seq(Object)
  <2>1. DOMAIN objects' = 1 .. Len(objects) /\ objects' = [j \in 1 .. Len(objects) |-> objects'[j]]
    BY <1>0, <1>1
  <2>2. \A j \in 1 .. Len(objects) : objects'[j] \in Object
    BY <1>1, <1>2
  <2> HIDE DEF Object
  <2> QED
    BY <1>1, <2>1, <2>2
<1>4. KernelInv'
  <2> SUFFICES ASSUME NEW i \in DOMAIN objects
               PROVE  /\ objects'[i].of \in DOMAIN objects
                      /\ objects'[objects'[i].of].of = objects'[i].of
                      /\ objects'[i].alive => objects'[objects'[i].of].alive
    BY <1>1, <1>3 DEF KernelInv
  <2>1. /\ objects[i].of \in DOMAIN objects /\ objects[objects[i].of].of = objects[i].of
        /\ objects[i].alive => objects[objects[i].of].alive
    BY <1>1 DEF KernelInv
  <2> QED
    BY <1>2, <2>1
<1>5. Kept' = Kept
  <2>1. \A h \in DOMAIN held \cap {"process", "thread"} : objects'[held[h]].of = objects[held[h]].of
    BY <1>1, <1>2 DEF HeldInv
  <2> QED
    BY <1>1, <2>1 DEF Kept
<1>6. \A i \in DOMAIN objects : Exists(i)' => Exists(i)
  BY <1>2, <1>5 DEF Exists
<1>7. UniqueIds'
  BY <1>1, <1>2, <1>3, <1>6 DEF UniqueIds
<1> QED
  BY <1>1, <1>2, <1>3, <1>4, <1>7, Unmoved

\* The step that is next, as the plan has it.
LEMMA NextIs ==
  ASSUME CallsInv, Running
  PROVE  /\ call \in DOMAIN Plan /\ stepNo \in DOMAIN Plan[call] /\ stepNo \in Nat
         /\ NextStep = Plan[call][stepNo] /\ verdict = "running"
         /\ stepNo + 1 \in 1 .. Len(Plan[call]) + 1
         /\ 1 .. (stepNo + 1) - 1 = (1 .. stepNo - 1) \cup {stepNo} /\ stepNo \notin 1 .. stepNo - 1
         /\ \A k \in 1 .. stepNo - 1 : k \in DOMAIN Plan[call]
<1>1. call \in DOMAIN Plan /\ verdict = "running" /\ stepNo \in 1 .. Len(Plan[call]) + 1
      /\ stepNo <= Len(Plan[call])
  BY DEF CallsInv, CallInv, Running
<1>2. DOMAIN Plan[call] = 1 .. Len(Plan[call]) /\ Len(Plan[call]) \in Nat
  BY <1>1, PlanLengths
<1> QED
  BY <1>1, <1>2 DEF NextStep

LEMMA OpenKeeps == ASSUME CallsInv, OpenStep PROVE CallsInv'
<1> DEFINE h == NextStep.field
<1>1. /\ Running /\ NextStep.way = "open" /\ stepNo' = stepNo + 1
      /\ UNCHANGED <<objects, call, wanted, fields, verdict, leaked>>
  BY DEF OpenStep
<1>2. PICK i \in Target(h) : held' = [x \in DOMAIN held \cup {h} |-> IF x = h THEN i ELSE held[x]]
  BY DEF OpenStep
<1>3. /\ call \in DOMAIN Plan /\ stepNo \in DOMAIN Plan[call] /\ stepNo \in Nat
      /\ NextStep = Plan[call][stepNo] /\ verdict = "running"
      /\ stepNo + 1 \in 1 .. Len(Plan[call]) + 1
      /\ 1 .. (stepNo + 1) - 1 = (1 .. stepNo - 1) \cup {stepNo} /\ stepNo \notin 1 .. stepNo - 1
      /\ \A k \in 1 .. stepNo - 1 : k \in DOMAIN Plan[call]
  BY <1>1, NextIs
<1>4. /\ h \in Handles
      /\ h = "token" => \E j \in 1 .. stepNo - 1 : Opens(call, j, "process")
      /\ h = "thread" => stepNo = 1
      /\ \A j \in DOMAIN Plan[call] : Opens(call, j, h) => j = stepNo
  BY <1>1, <1>3, AllOpeningsAreSound DEF OpeningsAreSound, Handles
<1> HIDE DEF h
<1>5. /\ DOMAIN held' = DOMAIN held \cup {h} /\ held'[h] = i
      /\ \A x \in DOMAIN held : x # h => held'[x] = held[x]
  BY <1>2
<1>6. /\ KernelInv /\ UniqueIds /\ CallInv /\ HeldInv /\ FieldsInv /\ ReadInv
      /\ \A x \in Handles : x \in DOMAIN held <=> \E j \in 1 .. stepNo - 1 : Opens(call, j, x)
      /\ objects \in Seq(Object) /\ DOMAIN objects = 1 .. Len(objects) /\ Len(objects) \in Nat
  <2>1. KernelInv /\ UniqueIds /\ CallInv /\ HeldInv /\ FieldsInv /\ ReadInv
    BY DEF CallsInv
  <2>2. objects \in Seq(Object)
    BY <2>1 DEF KernelInv
  <2> HIDE DEF Object
  <2>3. DOMAIN objects = 1 .. Len(objects) /\ Len(objects) \in Nat
    BY <2>2
  <2> QED
    BY <1>3, <2>1, <2>2, <2>3 DEF HeldInv
<1>7. h \notin DOMAIN held
  BY <1>3, <1>4, <1>6
<1>8. \A x \in DOMAIN held : held'[x] = held[x]
  BY <1>5, <1>7
\* What is opened.
<1>9. /\ i \in 0 .. Len(objects) /\ (h # "buffer" => i \in DOMAIN objects)
      /\ h = "process" => IsProcess(i) /\ Exists(i) /\ objects[i].id = wanted.pid
      /\ h = "thread" => Exists(i)
  <2>1. CASE h = "process"
    <3>1. i = HolderOf(wanted.pid) /\ i # Nobody /\ IsProcess(i)
      BY <1>2, <2>1 DEF Target
    <3> QED
      BY <1>6, <2>1, <3>1, Holder
  <2>2. CASE h = "thread"
    <3>1. i = HolderOf(wanted.tid) /\ i # Nobody
      BY <1>2, <2>2 DEF Target
    <3> QED
      BY <1>6, <2>2, <3>1, Holder
  <2>3. CASE h = "token"
    <3>1. i = held["process"]
      BY <1>2, <2>3 DEF Target
    <3>2. "process" \in DOMAIN held
      BY <1>4, <1>6, <2>3 DEF Handles
    <3> QED
      BY <1>6, <2>3, <3>1, <3>2 DEF HeldInv
  <2>4. CASE h = "buffer"
    <3>1. i = Nobody
      BY <1>2, <2>4 DEF Target
    <3> QED
      BY <1>6, <2>4, <3>1 DEF Nobody
  <2> QED
    BY <1>4, <2>1, <2>2, <2>3, <2>4 DEF Handles
<1>10. ASSUME NEW j \in DOMAIN objects, Exists(j)' PROVE Exists(j)
  <2>1. CASE objects'[j].alive
    BY <1>1, <2>1 DEF Exists
  <2>2. CASE j \in Kept'
    <3>1. PICK x \in DOMAIN held' \cap {"process", "thread"} : j = held'[x] \/ j = objects[held'[x]].of
      BY <1>1, <2>2 DEF Kept
    <3>2. CASE x \in DOMAIN held
      BY <1>8, <3>1, <3>2, Keeping DEF Exists
    <3>3. CASE x = h
      <4>1. h \in {"process", "thread"} /\ held'[x] = i
        BY <1>5, <3>1, <3>3
      <4>2. i \in DOMAIN objects /\ Exists(i)
        BY <1>9, <4>1
      <4>3. Exists(objects[i].of)
        BY <1>6, <4>2, OwnerExists
      <4> QED
        BY <3>1, <4>1, <4>2, <4>3
    <3> QED
      BY <1>5, <3>1, <3>2, <3>3
  <2> QED
    BY <1>10, <2>1, <2>2 DEF Exists
<1>11. KernelInv' /\ CallInv'
  <2>1. KernelInv'
    BY <1>1, <1>6 DEF KernelInv
  <2>2. CallInv'
    BY <1>1, <1>3, <1>6 DEF CallInv
  <2> QED
    BY <2>1, <2>2
<1>12. UniqueIds'
  <2> SUFFICES ASSUME NEW j \in DOMAIN objects, NEW k \in DOMAIN objects, Exists(j)', Exists(k)',
                      objects[j].id = objects[k].id
               PROVE  j = k
    BY <1>1 DEF UniqueIds
  <2> QED
    BY <1>6, <1>10 DEF UniqueIds
<1>13. HeldInv'
  <2>1. \A x \in DOMAIN held' : x \in Handles /\ held'[x] \in 0 .. Len(objects)
    BY <1>4, <1>5, <1>6, <1>8, <1>9 DEF HeldInv
  <2>2. \A x \in DOMAIN held' : x # "buffer" => held'[x] \in DOMAIN objects
    BY <1>5, <1>6, <1>8, <1>9 DEF HeldInv
  <2>3. Opens(call, stepNo, h) /\ \A x : Opens(call, stepNo, x) => x = h
    BY <1>1, <1>3 DEF Opens, h
  <2>4. \A x \in Handles :
          x \in DOMAIN held' <=> \E j \in (1 .. stepNo - 1) \cup {stepNo} : Opens(call, j, x)
    BY <1>5, <1>6, <2>3
  <2>5. "process" \in DOMAIN held' => objects[held'["process"]].of = held'["process"]
    <3>1. CASE h = "process"
      BY <1>5, <1>9, <3>1 DEF IsProcess
    <3>2. CASE "process" \in DOMAIN held
      BY <1>6, <1>8, <3>2 DEF HeldInv, IsProcess
    <3> QED
      BY <1>5, <3>1, <3>2
  <2>6. ASSUME {"process", "thread"} \subseteq DOMAIN held'
        PROVE  LET p == objects[held'["thread"]].of IN objects[p].id = wanted.pid => held'["process"] = p
    <3>1. CASE h = "process"
      <4>1. "thread" \in DOMAIN held /\ held'["thread"] = held["thread"] /\ held'["process"] = i
        BY <1>5, <1>8, <2>6, <3>1
      <4> DEFINE p == objects[held["thread"]].of
      <4>2. p \in DOMAIN objects /\ Exists(p)
        BY <1>6, <4>1, Keeping DEF HeldInv, KernelInv, Exists
      <4>3. objects[p].id = wanted.pid => i = p
        BY <1>6, <1>9, <3>1, <4>2 DEF UniqueIds
      <4> QED
        BY <4>1, <4>3
    <3>2. CASE h = "thread"
      <4>1. "process" \in DOMAIN held
        BY <1>5, <2>6, <3>2
      <4>2. \E j \in 1 .. stepNo - 1 : Opens(call, j, "process")
        BY <1>6, <4>1 DEF Handles
      <4> QED
        BY <1>3, <1>4, <3>2, <4>2
    <3>3. CASE h \notin {"process", "thread"}
      BY <1>5, <1>6, <1>8, <2>6, <3>3 DEF HeldInv
    <3> QED
      BY <3>1, <3>2, <3>3
  <2> QED
    BY <1>1, <1>3, <2>1, <2>2, <2>4, <2>5, <2>6 DEF HeldInv, IsProcess, Opens
<1>14. FieldsInv'
  BY <1>1, <1>6 DEF FieldsInv
<1>15. ReadInv'
  <2>1. ASSUME NEW f \in DOMAIN fields
        PROVE  \E k \in (1 .. stepNo - 1) \cup {stepNo} :
                 /\ Fills(call, k, f)
                 /\ call \notin {"system", "heaps"} =>
                      Plan[call][k].from \in DOMAIN held' /\ fields[f].of = held'[Plan[call][k].from]
    BY <1>3, <1>5, <1>6, <1>8 DEF ReadInv
  <2>2. \A k \in (1 .. stepNo - 1) \cup {stepNo} :
          Plan[call][k].must /\ Plan[call][k].way # "open" => Plan[call][k].field \in DOMAIN fields
    BY <1>1, <1>3, <1>6 DEF ReadInv
  <2> QED
    BY <1>1, <1>3, <2>1, <2>2 DEF ReadInv, Fills
<1>16. ReportInv' /\ FailsForGoodReason'
  BY <1>1, <1>3 DEF ReportInv, FailsForGoodReason, Returned
<1> QED
  BY <1>11, <1>12, <1>13, <1>14, <1>15, <1>16 DEF CallsInv

LEMMA FillKeeps == ASSUME CallsInv, FillStep PROVE CallsInv'
<1> DEFINE s == NextStep
           g == NextStep.field
<1>1. /\ Running /\ s.way # "open" /\ stepNo' = stepNo + 1 /\ held' = held
      /\ UNCHANGED <<objects, call, wanted, verdict, leaked>>
  BY DEF FillStep, StillHeld
<1>2. PICK i \in Source(s), whole \in Sizes(s) :
        /\ GoodEnough(s, whole)
        /\ fields' = [f \in DOMAIN fields \cup {g} |->
                        IF f = g THEN [of |-> i, whole |-> whole] ELSE fields[f]]
  BY DEF FillStep
<1>3. /\ call \in DOMAIN Plan /\ stepNo \in DOMAIN Plan[call] /\ stepNo \in Nat
      /\ s = Plan[call][stepNo] /\ verdict = "running"
      /\ stepNo + 1 \in 1 .. Len(Plan[call]) + 1
      /\ 1 .. (stepNo + 1) - 1 = (1 .. stepNo - 1) \cup {stepNo} /\ stepNo \notin 1 .. stepNo - 1
      /\ \A k \in 1 .. stepNo - 1 : k \in DOMAIN Plan[call]
  BY <1>1, NextIs
<1>4. /\ g \in FieldsOf[call] /\ s.way \in {"query", "memory", "string", "id"}
      /\ s.from = "system" \/ \E j \in 1 .. stepNo - 1 : Opens(call, j, s.from)
      /\ s.way = "string" => g \in Strings
      /\ s.way = "id" => call = "heaps"
      /\ s.from = "buffer" => s.way = "id"
      /\ s.from = "system" <=> call = "system"
  BY <1>1, <1>3, AllFillingsAreSound DEF FillingsAreSound
<1>5. /\ DOMAIN fields' = DOMAIN fields \cup {g} /\ fields'[g] = [of |-> i, whole |-> whole]
      /\ \A f \in DOMAIN fields : f # g => fields'[f] = fields[f]
  BY <1>2
<1>6. /\ KernelInv /\ UniqueIds /\ CallInv /\ HeldInv /\ FieldsInv /\ ReadInv
      /\ \A x \in Handles : x \in DOMAIN held <=> \E j \in 1 .. stepNo - 1 : Opens(call, j, x)
      /\ objects \in Seq(Object) /\ DOMAIN objects = 1 .. Len(objects) /\ Len(objects) \in Nat
  <2>1. KernelInv /\ UniqueIds /\ CallInv /\ HeldInv /\ FieldsInv /\ ReadInv
    BY DEF CallsInv
  <2>2. objects \in Seq(Object)
    BY <2>1 DEF KernelInv
  <2> HIDE DEF Object
  <2>3. DOMAIN objects = 1 .. Len(objects) /\ Len(objects) \in Nat
    BY <2>2
  <2> QED
    BY <1>3, <2>1, <2>2, <2>3 DEF HeldInv
<1>7. whole \in BOOLEAN /\ (whole \/ g \in Strings)
  BY <1>2, <1>4 DEF Sizes, GoodEnough
\* Whose it is.
<1>8. /\ i \in 0 .. Len(objects) /\ (i = Nobody <=> call = "system")
      /\ call \notin {"system", "heaps"} => s.from \in DOMAIN held /\ i = held[s.from]
  <2>1. CASE s.from = "system"
    <3>1. s.way # "id"
      BY <1>4, <2>1
    <3>2. i = Nobody
      BY <1>2, <2>1, <3>1 DEF Source
    <3> QED
      BY <1>4, <1>6, <2>1, <3>2 DEF Nobody
  <2>2. CASE s.from # "system" /\ s.way = "id"
    <3>1. i = HolderOf(wanted.pid) /\ i # Nobody
      BY <1>2, <2>2 DEF Source, Target
    <3>2. i \in DOMAIN objects
      BY <1>6, <3>1, Holder
    <3> QED
      BY <1>4, <1>6, <2>2, <3>1, <3>2
  <2>3. CASE s.from # "system" /\ s.way # "id"
    <3>1. i = held[s.from]
      BY <1>2, <2>3 DEF Source
    <3>2. PICK j \in 1 .. stepNo - 1 : Opens(call, j, s.from)
      BY <1>4, <2>3
    <3>3. s.from \in Handles
      BY <1>3, <3>2, AllOpeningsAreSound DEF OpeningsAreSound, Opens, Handles
    <3>4. s.from \in DOMAIN held /\ s.from # "buffer"
      BY <1>4, <1>6, <2>3, <3>2, <3>3
    <3>5. i \in DOMAIN objects
      BY <1>6, <3>1, <3>4 DEF HeldInv
    <3> QED
      BY <1>4, <1>6, <2>3, <3>1, <3>4, <3>5 DEF Nobody
  <2> QED
    BY <2>1, <2>2, <2>3
<1> HIDE DEF s, g
<1>9. Fills(call, stepNo, g) /\ \A h : ~Opens(call, stepNo, h)
  BY <1>1, <1>3 DEF Opens, Fills, s, g
<1>10. KernelInv' /\ UniqueIds'
  <2>1. KernelInv'
    BY <1>1, <1>6 DEF KernelInv
  <2>2. UniqueIds'
    BY <1>1, <1>6 DEF UniqueIds, Exists, Kept
  <2> QED
    BY <2>1, <2>2
<1>11. CallInv'
  BY <1>1, <1>3, <1>6 DEF CallInv
<1>12. HeldInv'
  <2>1. \A x \in Handles :
          x \in DOMAIN held <=> \E j \in (1 .. stepNo - 1) \cup {stepNo} : Opens(call, j, x)
    BY <1>6, <1>9
  <2> QED
    BY <1>1, <1>3, <1>6, <2>1 DEF HeldInv, IsProcess, Opens
<1>13. FieldsInv'
  <2>1. ASSUME NEW f \in DOMAIN fields'
        PROVE  /\ fields'[f] \in [of : 0 .. Len(objects), whole : BOOLEAN]
               /\ fields'[f].whole \/ f \in Strings
               /\ fields'[f].of = Nobody <=> call = "system"
    <3>1. CASE f = g
      BY <1>5, <1>7, <1>8, <3>1
    <3>2. CASE f # g
      BY <1>5, <1>6, <3>2 DEF FieldsInv
    <3> QED
      BY <3>1, <3>2
  <2> QED
    BY <1>1, <1>4, <1>5, <1>6, <2>1 DEF FieldsInv, g
<1>14. ReadInv'
  <2>1. ASSUME NEW f \in DOMAIN fields'
        PROVE  \E k \in (1 .. stepNo - 1) \cup {stepNo} :
                 /\ Fills(call, k, f)
                 /\ call \notin {"system", "heaps"} =>
                      Plan[call][k].from \in DOMAIN held /\ fields'[f].of = held[Plan[call][k].from]
    <3>1. CASE f = g
      BY <1>3, <1>5, <1>8, <1>9, <3>1
    <3>2. CASE f # g
      <4>1. f \in DOMAIN fields /\ fields'[f] = fields[f]
        BY <1>5, <3>2
      <4>2. PICK k \in 1 .. stepNo - 1 :
              /\ Fills(call, k, f)
              /\ call \notin {"system", "heaps"} =>
                   Plan[call][k].from \in DOMAIN held /\ fields[f].of = held[Plan[call][k].from]
        BY <1>3, <1>6, <4>1 DEF ReadInv
      <4> QED
        BY <4>1, <4>2
    <3> QED
      BY <3>1, <3>2
  <2>2. \A k \in (1 .. stepNo - 1) \cup {stepNo} :
          Plan[call][k].must /\ Plan[call][k].way # "open" => Plan[call][k].field \in DOMAIN fields'
    BY <1>3, <1>5, <1>6 DEF ReadInv, s, g
  <2>3. 1 .. stepNo' - 1 = (1 .. stepNo - 1) \cup {stepNo}
    BY <1>1, <1>3
  <2>4. UNCHANGED <<call, held>>
    BY <1>1
  <2> QED
    BY <2>1, <2>2, <2>3, <2>4 DEF ReadInv, Fills
<1>15. ReportInv' /\ FailsForGoodReason'
  BY <1>1, <1>3 DEF ReportInv, FailsForGoodReason, Returned
<1> QED
  BY <1>10, <1>11, <1>12, <1>13, <1>14, <1>15 DEF CallsInv

LEMMA SkipKeeps == ASSUME CallsInv, SkipStep PROVE CallsInv'
<1>1. /\ Running /\ NextStep.way # "open" /\ ~NextStep.must /\ stepNo' = stepNo + 1
      /\ UNCHANGED <<objects, call, wanted, held, fields, verdict, leaked>>
  BY DEF SkipStep, GoesOnWithout
<1>2. /\ call \in DOMAIN Plan /\ stepNo \in DOMAIN Plan[call] /\ stepNo \in Nat
      /\ NextStep = Plan[call][stepNo] /\ verdict = "running"
      /\ stepNo + 1 \in 1 .. Len(Plan[call]) + 1
      /\ 1 .. (stepNo + 1) - 1 = (1 .. stepNo - 1) \cup {stepNo} /\ stepNo \notin 1 .. stepNo - 1
      /\ \A k \in 1 .. stepNo - 1 : k \in DOMAIN Plan[call]
  BY <1>1, NextIs
<1>3. /\ KernelInv /\ UniqueIds /\ CallInv /\ HeldInv /\ FieldsInv /\ ReadInv
      /\ \A x \in Handles : x \in DOMAIN held <=> \E j \in 1 .. stepNo - 1 : Opens(call, j, x)
  BY <1>2 DEF CallsInv, HeldInv
<1>4. \A h : ~Opens(call, stepNo, h)
  BY <1>1, <1>2 DEF Opens
<1>5. KernelInv' /\ UniqueIds'
  <2>1. KernelInv'
    BY <1>1, <1>3 DEF KernelInv
  <2>2. UniqueIds'
    BY <1>1, <1>3 DEF UniqueIds, Exists, Kept
  <2> QED
    BY <2>1, <2>2
<1>6. CallInv'
  BY <1>1, <1>2, <1>3 DEF CallInv
<1>7. HeldInv'
  <2>1. \A x \in Handles :
          x \in DOMAIN held <=> \E j \in (1 .. stepNo - 1) \cup {stepNo} : Opens(call, j, x)
    BY <1>3, <1>4
  <2> QED
    BY <1>1, <1>2, <1>3, <2>1 DEF HeldInv, IsProcess, Opens
<1>8. FieldsInv'
  BY <1>1, <1>3 DEF FieldsInv
<1>9. ReadInv'
  <2>1. \A f \in DOMAIN fields : \E k \in (1 .. stepNo - 1) \cup {stepNo} :
          /\ Fills(call, k, f)
          /\ call \notin {"system", "heaps"} =>
               Plan[call][k].from \in DOMAIN held /\ fields[f].of = held[Plan[call][k].from]
    BY <1>2, <1>3 DEF ReadInv
  <2>2. \A k \in (1 .. stepNo - 1) \cup {stepNo} :
          Plan[call][k].must /\ Plan[call][k].way # "open" => Plan[call][k].field \in DOMAIN fields
    BY <1>1, <1>2, <1>3 DEF ReadInv
  <2>3. 1 .. stepNo' - 1 = (1 .. stepNo - 1) \cup {stepNo}
    BY <1>1, <1>2
  <2>4. UNCHANGED <<call, held, fields>>
    BY <1>1
  <2> QED
    BY <2>1, <2>2, <2>3, <2>4 DEF ReadInv, Fills
<1>10. ReportInv' /\ FailsForGoodReason'
  BY <1>1, <1>2 DEF ReportInv, FailsForGoodReason, Returned
<1> QED
  BY <1>5, <1>6, <1>7, <1>8, <1>9, <1>10 DEF CallsInv

LEMMA AskKeeps ==
  ASSUME CallsInv, NEW c \in DOMAIN Plan, NEW pid, NEW tid, Ask(c, pid, tid)
  PROVE  CallsInv'
<1>1. /\ verdict # "running" /\ held = NoHandles /\ call' = c /\ stepNo' = 1 /\ fields' = NoFields
      /\ verdict' = "running" /\ UNCHANGED <<objects, held, leaked>>
  BY DEF Ask
<1>2. /\ KernelInv
      /\ UniqueIds
      /\ CallInv
      /\ held = NoHandles
      /\ DOMAIN held = {}
      /\ DOMAIN fields' = {}
  BY <1>1 DEF CallsInv, CallInv, NoHandles, NoFields
<1>3. KernelInv' /\ UniqueIds'
  <2>1. KernelInv'
    BY <1>1, <1>2 DEF KernelInv
  <2>2. UniqueIds'
    BY <1>1, <1>2 DEF UniqueIds, Exists, Kept
  <2> QED
    BY <2>1, <2>2
<1>4. c \in DOMAIN FieldsOf /\ 1 \in 1 .. Len(Plan[c]) + 1 /\ 1 .. 1 - 1 = {}
  BY Plans, PlanLengths
<1>5. CallInv'
  BY <1>1, <1>2, <1>4 DEF CallInv
<1>6. HeldInv'
  BY <1>1, <1>2, <1>4 DEF HeldInv
<1>7. FieldsInv' /\ ReadInv'
  BY <1>1, <1>2, <1>4 DEF FieldsInv, ReadInv
<1>8. ReportInv' /\ FailsForGoodReason'
  BY <1>1 DEF ReportInv, FailsForGoodReason, Returned
<1> QED
  BY <1>3, <1>5, <1>6, <1>7, <1>8 DEF CallsInv

\* Whatever was read so far is of one process, if the one asked for is.
LEMMA OneOwner == ASSUME CallsInv, verdict = "running", Asked PROVE SameOwner
<1> SUFFICES ASSUME NEW f \in DOMAIN fields, NEW g \in DOMAIN fields,
                    fields[f].of # Nobody, fields[g].of # Nobody
             PROVE  objects[fields[f].of].of = objects[fields[g].of].of
  BY DEF SameOwner
<1>1. KernelInv /\ CallInv /\ HeldInv /\ FieldsInv /\ ReadInv /\ call \in DOMAIN Plan
  BY DEF CallsInv, CallInv
<1>2. call # "system"
  BY <1>1 DEF FieldsInv
<1>3. \A k \in 1 .. stepNo - 1 : k \in DOMAIN Plan[call] /\ k \in Nat
  <2>1. stepNo \in 1 .. Len(Plan[call]) + 1
    BY <1>1 DEF CallInv
  <2>2. DOMAIN Plan[call] = 1 .. Len(Plan[call]) /\ Len(Plan[call]) \in Nat
    BY <1>1, PlanLengths
  <2> QED
    BY <2>1, <2>2
<1>4. ASSUME NEW x \in DOMAIN fields
      PROVE  \E k \in 1 .. stepNo - 1 :
               /\ Fills(call, k, x)
               /\ call # "heaps" =>
                    Plan[call][k].from \in DOMAIN held /\ fields[x].of = held[Plan[call][k].from]
  BY <1>1, <1>2 DEF ReadInv
<1>5. CASE call = "heaps"
  <2>1. \A x \in DOMAIN fields : x = "heaps"
    BY <1>1, <1>3, <1>4, <1>5, AllFillingsAreSound DEF FillingsAreSound, Fills
  <2> QED
    BY <2>1
<1>6. CASE call \notin {"heaps", "teb"}
  <2>1. PICK j \in 1 .. stepNo - 1 : Fills(call, j, f) /\ fields[f].of = held[Plan[call][j].from]
    BY <1>4, <1>6
  <2>2. PICK k \in 1 .. stepNo - 1 : Fills(call, k, g) /\ fields[g].of = held[Plan[call][k].from]
    BY <1>4, <1>6
  <2>3. Plan[call][j].from = Plan[call][k].from
    BY <1>1, <1>3, <1>6, <2>1, <2>2, AllOneSource DEF OneSource, Fills
  <2> QED
    BY <2>1, <2>2, <2>3
<1>7. CASE call = "teb"
  <2> DEFINE p == objects[held["thread"]].of
  <2>1. \A k \in 1 .. stepNo - 1 : Plan["teb"][k].way # "open" =>
          /\ k > 1 /\ (k = 2 <=> Plan["teb"][k].field = "basic")
          /\ Plan["teb"][k].from = IF k = 2 THEN "thread" ELSE "process"
    BY <1>3, <1>7, TebPlan DEF TebSources
  \* The thread was asked for its process before anything was read of that.
  <2>2. 2 \in 1 .. stepNo - 1 /\ Plan["teb"][2].must /\ Plan["teb"][2].way # "open"
        /\ Plan["teb"][2].field = "basic"
    <3>1. PICK k \in 1 .. stepNo - 1 : Fills("teb", k, f)
      BY <1>4, <1>7
    <3>2. k > 1
      BY <2>1, <3>1 DEF Fills
    <3>3. 2 \in 1 .. stepNo - 1
      BY <1>1, <1>3, <3>2 DEF CallInv
    <3> QED
      BY <1>3, <1>7, <3>3 DEF Plan, TebSteps, ThreadBasic, Needed, Step
  <2>3. "basic" \in DOMAIN fields
    BY <1>1, <1>7, <2>2 DEF ReadInv
  <2>4. "thread" \in DOMAIN held /\ fields["basic"].of = held["thread"]
    <3>1. PICK k \in 1 .. stepNo - 1 :
            /\ Fills("teb", k, "basic") /\ Plan["teb"][k].from \in DOMAIN held
            /\ fields["basic"].of = held[Plan["teb"][k].from]
      BY <1>4, <1>7, <2>3
    <3> QED
      BY <2>1, <3>1 DEF Fills
  <2>5. objects[p].id = wanted.pid
    BY <1>7, <2>3, <2>4 DEF Asked
  <2>6. ASSUME NEW x \in DOMAIN fields PROVE objects[fields[x].of].of = p
    <3>1. PICK k \in 1 .. stepNo - 1 :
            /\ Fills("teb", k, x) /\ Plan["teb"][k].from \in DOMAIN held
            /\ fields[x].of = held[Plan["teb"][k].from]
      BY <1>4, <1>7
    <3>2. CASE k = 2
      BY <2>1, <3>1, <3>2 DEF Fills
    <3>3. CASE k # 2
      <4>1. "process" \in DOMAIN held /\ fields[x].of = held["process"]
        BY <2>1, <3>1, <3>3 DEF Fills
      <4>2. held["process"] = p /\ IsProcess(held["process"])
        BY <1>1, <2>4, <2>5, <4>1 DEF HeldInv
      <4> QED
        BY <4>1, <4>2 DEF IsProcess
    <3> QED
      BY <3>2, <3>3
  <2> QED
    BY <2>6
<1> QED
  BY <1>5, <1>6, <1>7

\* What only a successful call has, as the property has it.
LEMMA UsefulFields ==
  ASSUME NEW c
  PROVE  LET S == {Plan[c][k] : k \in DOMAIN Plan[c]}
         IN  {s.field : s \in {x \in S : ~x.must}} \ {"pageSize", "pagefiles"} = Useful(c)
BY DEF Useful

\* Nothing moves when a call returns.
LEMMA ReturnKeeps ==
  ASSUME CallsInv, verdict = "running", NEW v \in {"ok", "error"}, Return(v),
         v = "ok" => \A k \in DOMAIN Plan[call] :
                       Plan[call][k].must /\ Plan[call][k].way # "open" => Plan[call][k].field \in DOMAIN fields,
         v = "error" => DOMAIN fields \cap Useful(call) = {}
  PROVE  CallsInv'
<1>1. verdict' = v /\ UNCHANGED <<objects, call, wanted, stepNo, held, fields, leaked>>
  BY DEF Return
<1>2. /\ KernelInv /\ UniqueIds /\ CallInv /\ HeldInv /\ FieldsInv
      /\ call \in DOMAIN Plan
  BY DEF CallsInv, CallInv
<1>3. KernelInv'
  BY <1>1, <1>2 DEF KernelInv
<1>4. UniqueIds'
  BY <1>1, <1>2 DEF UniqueIds, Exists, Kept
<1>5. CallInv'
  BY <1>1, <1>2 DEF CallInv
<1>6. HeldInv'
  BY <1>1, <1>2 DEF HeldInv, IsProcess
<1>7. FieldsInv' /\ ReadInv'
  BY <1>1, <1>2 DEF FieldsInv, ReadInv
<1>8. ReportInv'
  <2>1. Asked' = Asked /\ SameOwner' = SameOwner
    BY <1>1 DEF Asked, SameOwner
  <2> QED
    BY <2>1, OneOwner DEF ReportInv
<1>9. FailsForGoodReason'
  <2> DEFINE S == {Plan[call][k] : k \in DOMAIN Plan[call]}
             useful == {s.field : s \in {x \in S : ~x.must}} \ {"pageSize", "pagefiles"}
  <2>1. useful = Useful(call)
    BY UsefulFields
  <2>2. CASE v = "ok"
    <3>1. \A s \in S : s.must /\ s.way # "open" => s.field \in DOMAIN fields
      BY <2>2
    <3> QED
      BY <1>1, <2>2, <3>1 DEF FailsForGoodReason
  <2>3. CASE v = "error"
    <3>1. DOMAIN fields \cap useful = {}
      BY <2>1, <2>3
    <3> QED
      BY <1>1, <2>3, <3>1 DEF FailsForGoodReason
  <2> QED
    BY <2>2, <2>3
<1> QED
  BY <1>3, <1>4, <1>5, <1>6, <1>7, <1>8, <1>9 DEF CallsInv

LEMMA FailKeeps == ASSUME CallsInv, FailStep PROVE CallsInv'
<1>1. Running /\ NextStep.must /\ Return("error")
  BY DEF FailStep
<1>2. /\ call \in DOMAIN Plan /\ stepNo \in DOMAIN Plan[call] /\ NextStep = Plan[call][stepNo]
      /\ verdict = "running" /\ \A k \in 1 .. stepNo - 1 : k \in DOMAIN Plan[call]
  BY <1>1, NextIs
<1>3. ASSUME NEW f \in DOMAIN fields PROVE f \notin Useful(call)
  <2>1. PICK k \in 1 .. stepNo - 1 : Fills(call, k, f)
    BY <1>2 DEF CallsInv, ReadInv
  <2> QED
    BY <1>1, <1>2, <2>1, AllOrderIsSound DEF OrderIsSound, Fills
<1> QED
  BY <1>1, <1>2, <1>3, ReturnKeeps

LEMMA CompleteKeeps == ASSUME CallsInv, Complete PROVE CallsInv'
<1> DEFINE v == IF Unavailable THEN "error" ELSE "ok"
<1>1. verdict = "running" /\ stepNo > Len(Plan[call]) /\ Return(v)
  BY DEF Complete
<1>2. /\ call \in DOMAIN Plan /\ FieldsInv /\ ReadInv
      /\ DOMAIN Plan[call] = 1 .. stepNo - 1
  <2>1. call \in DOMAIN Plan /\ stepNo \in 1 .. Len(Plan[call]) + 1 /\ FieldsInv /\ ReadInv
    BY <1>1 DEF CallsInv, CallInv
  <2>2. DOMAIN Plan[call] = 1 .. Len(Plan[call]) /\ Len(Plan[call]) \in Nat
    BY <2>1, PlanLengths
  <2> QED
    BY <1>1, <2>1, <2>2
<1>3. \A k \in DOMAIN Plan[call] :
        Plan[call][k].must /\ Plan[call][k].way # "open" => Plan[call][k].field \in DOMAIN fields
  BY <1>1, <1>2 DEF ReadInv
<1>4. ASSUME Unavailable PROVE DOMAIN fields \cap Useful(call) = {}
  <2>1. call = "system" /\ DOMAIN fields \cap {"topology", "memory", "os"} = {}
    BY <1>4 DEF Unavailable
  <2>2. DOMAIN fields \subseteq SystemFields
    BY <1>2, <2>1 DEF FieldsInv, FieldsOf
  <2>3. DOMAIN fields \subseteq {"pageSize", "pagefiles"}
    BY <2>1, <2>2 DEF SystemFields
  <2> QED
    BY <2>3 DEF Useful
<1>5. CASE Unavailable
  BY <1>1, <1>4, <1>5, ReturnKeeps
<1>6. CASE ~Unavailable
  BY <1>1, <1>3, <1>6, ReturnKeeps
<1> QED
  BY <1>5, <1>6

\* What is closed keeps nothing from being reused, and was read before.
LEMMA CloseKeeps == ASSUME CallsInv, CloseYoungest PROVE CallsInv'
<1>1. /\ Returned /\ leaked' \in BOOLEAN /\ UNCHANGED <<objects, call, wanted, stepNo, fields, verdict>>
      /\ DOMAIN held' \subseteq DOMAIN held /\ \A x \in DOMAIN held' : held'[x] = held[x]
  <2>1. PICK k \in DOMAIN Plan[call] :
          LET h == Plan[call][k].field IN
          /\ held' = [x \in DOMAIN held \ {h} |-> held[x]]
          /\ leaked' = (leaked \/ (h = "buffer" /\ ~CanDestroy))
    BY DEF CloseYoungest
  <2>2. leaked' \in BOOLEAN
    BY <2>1, InspectionAssumption DEF CallsInv, CallInv
  <2>3. DOMAIN held' \subseteq DOMAIN held /\ \A x \in DOMAIN held' : held'[x] = held[x]
    BY <2>1
  <2> QED
    BY <2>2, <2>3 DEF CloseYoungest
<1>2. /\ KernelInv /\ UniqueIds /\ CallInv /\ HeldInv /\ FieldsInv /\ ReportInv /\ FailsForGoodReason
      /\ verdict # "running"
  BY <1>1 DEF CallsInv, Returned
<1>3. KernelInv' /\ CallInv'
  BY <1>1, <1>2 DEF KernelInv, CallInv
<1>4. UniqueIds'
  <2>1. \A i : i \in Kept' => i \in Kept
    BY <1>1 DEF Kept
  <2>2. \A i \in DOMAIN objects : Exists(i)' => Exists(i)
    BY <1>1, <2>1 DEF Exists
  <2> QED
    BY <1>1, <1>2, <2>2 DEF UniqueIds
<1>5. HeldInv'
  BY <1>1, <1>2 DEF HeldInv, IsProcess
<1>6. FieldsInv' /\ ReadInv'
  BY <1>1, <1>2 DEF FieldsInv, ReadInv
<1>7. ReportInv' /\ FailsForGoodReason'
  BY <1>1, <1>2 DEF ReportInv, FailsForGoodReason, Returned, Asked, SameOwner
<1> QED
  BY <1>3, <1>4, <1>5, <1>6, <1>7 DEF CallsInv

LEMMA CallsStart == InspectInit => CallsInv
<1> SUFFICES ASSUME InspectInit PROVE CallsInv
  OBVIOUS
<1>1. /\ objects = <<>> /\ call = "none" /\ stepNo = 1 /\ held = NoHandles /\ fields = NoFields
      /\ verdict = "idle" /\ leaked = FALSE /\ DOMAIN held = {} /\ DOMAIN fields = {}
      /\ DOMAIN objects = {} /\ Len(objects) = 0
  BY DEF InspectInit, NoHandles, NoFields
<1>2. KernelInv
  BY <1>1, InspectionAssumption DEF KernelInv
<1>3. UniqueIds
  BY <1>1 DEF UniqueIds
<1>4. CallInv
  BY <1>1, Plans DEF CallInv
<1>5. HeldInv /\ FieldsInv /\ ReadInv
  BY <1>1 DEF HeldInv, FieldsInv, ReadInv
<1>6. ReportInv /\ FailsForGoodReason
  BY <1>1 DEF ReportInv, FailsForGoodReason, Returned
<1> QED
  BY <1>2, <1>3, <1>4, <1>5, <1>6 DEF CallsInv

LEMMA CallsStand == ASSUME CallsInv, UNCHANGED callVars PROVE CallsInv'
<1>1. UNCHANGED <<objects, call, wanted, stepNo, held, fields, verdict, leaked>>
  BY DEF callVars
<1>2. KernelInv' /\ CallInv'
  BY <1>1 DEF CallsInv, KernelInv, CallInv
<1>5. UniqueIds'
  BY <1>1 DEF CallsInv, UniqueIds, Exists, Kept
<1>3. HeldInv' /\ FieldsInv' /\ ReadInv'
  BY <1>1 DEF CallsInv, HeldInv, FieldsInv, ReadInv, IsProcess, Opens, Fills
<1>4. ReportInv' /\ FailsForGoodReason'
  BY <1>1 DEF CallsInv, ReportInv, FailsForGoodReason, Returned, Asked, SameOwner
<1> QED
  BY <1>2, <1>3, <1>4, <1>5 DEF CallsInv

LEMMA InspectStep == ASSUME InspectInv, [InspectNext]_inspectVars PROVE InspectInv'
<1>0. ModulesInv /\ CallsInv
  BY DEF InspectInv
<1>1. ASSUME ModulesNext, ModulesMove PROVE InspectInv'
  <2>1. ModulesInv'
    BY <1>0, <1>1, ModulesStep
  <2>2. CallsInv'
    BY <1>0, <1>1, CallsStand DEF ModulesMove
  <2> QED
    BY <2>1, <2>2 DEF InspectInv
<1>2. ASSUME UNCHANGED moduleVars PROVE ModulesInv'
  BY <1>0, <1>2, ModulesStep
<1>3. ASSUME World PROVE CallsInv'
  <2>1. ASSUME NEW id \in ObjectIds, Create(id, Len(objects) + 1) PROVE CallsInv'
    BY <1>0, <2>1, CreateKeeps
  <2>2. ASSUME NEW id \in ObjectIds, NEW p \in DOMAIN objects, IsProcess(p), objects[p].alive, Create(id, p)
        PROVE  CallsInv'
    BY <1>0, <2>2, CreateKeeps
  <2>3. ASSUME NEW i \in DOMAIN objects, Exit(i) PROVE CallsInv'
    BY <1>0, <2>3, ExitKeeps
  <2> QED
    BY <1>3, <2>1, <2>2, <2>3 DEF World
<1>4. ASSUME NEW c \in DOMAIN Plan, NEW pid \in ObjectIds, NEW tid \in ObjectIds, Ask(c, pid, tid)
      PROVE  CallsInv'
  BY <1>0, <1>4, AskKeeps
<1>5. ASSUME OpenStep \/ FillStep \/ SkipStep \/ FailStep \/ Complete \/ CloseYoungest
      PROVE  CallsInv'
  BY <1>0, <1>5, OpenKeeps, FillKeeps, SkipKeeps, FailKeeps, CompleteKeeps, CloseKeeps
<1>6. ASSUME UNCHANGED inspectVars PROVE InspectInv'
  BY <1>0, <1>2, <1>6, CallsStand DEF inspectVars, InspectInv
<1> QED
  BY <1>1, <1>2, <1>3, <1>4, <1>5, <1>6 DEF InspectNext, CallsMove, InspectInv

LEMMA InspectInvariant == InspectSpec => []InspectInv
<1>1. InspectInit => InspectInv
  BY ModulesStart, CallsStart DEF InspectInit, InspectInv
<1> QED
  BY <1>1, InspectStep, PTL DEF InspectSpec

\* Inspection keeps its types, for every number of processes and ids.
THEOREM InspectTypesHold == InspectSpec => []InspectTypeOK
<1>1. ASSUME InspectInv PROVE InspectTypeOK
  <2>1. ModulesTypeOK /\ KernelInv /\ CallInv /\ HeldInv /\ FieldsInv
    BY <1>1 DEF InspectInv, ModulesInv, CallsInv
  <2>2. ASSUME NEW i \in DOMAIN objects
        PROVE  objects[i] \in [id : ObjectIds, of : 1 .. Len(objects), alive : BOOLEAN]
    <3>1. objects[i] \in Object /\ objects[i].of \in 1 .. Len(objects)
      BY <2>1 DEF KernelInv
    <3> QED
      BY <3>1 DEF Object
  <2> QED
    BY <2>1, <2>2 DEF InspectTypeOK, KernelInv, CallInv, HeldInv, FieldsInv, Handles
<1> QED
  BY <1>1, InspectInvariant, PTL

\* ModuleManager.cpp:26-68: a module that stays loaded for the whole snapshot is
\* listed once, and its path and size are its own or unknown, whatever else loads
\* or unloads and whichever query fails.
THEOREM StableModulesAreListedExactlyOnce == InspectSpec => []StableModulesAreListed
BY ListedOnce, InspectInvariant, PTL DEF InspectInv

\* PebTebReader.cpp:141-142: what a call reports is of one process and not cut short,
\* however ids are reused between its steps.
THEOREM ReportsAreOfOneProcess == InspectSpec => []ReportsAreOfOne
<1>1. ASSUME InspectInv PROVE ReportsAreOfOne
  <2> SUFFICES ASSUME Returned PROVE ReportsAreOfOne
    BY DEF ReportsAreOfOne
  <2> DEFINE owners == {objects[fields[f].of].of : f \in {g \in DOMAIN fields : fields[g].of # Nobody}}
             asked == call = "teb" => \A i \in DOMAIN objects :
                        "basic" \in DOMAIN fields /\ i = objects[fields["basic"].of].of
                          => objects[i].id = wanted.pid
  <2>1. KernelInv /\ FieldsInv /\ ReportInv
    BY <1>1 DEF InspectInv, CallsInv
  <2>2. ASSUME asked PROVE \A i, j \in owners : i = j
    <3>1. ASSUME call = "teb", "basic" \in DOMAIN fields
          PROVE  objects[fields["basic"].of].of \in DOMAIN objects
      <4>1. fields["basic"].of \in 1 .. Len(objects)
        BY <2>1, <3>1 DEF FieldsInv, Nobody
      <4> QED
        BY <2>1, <4>1 DEF KernelInv
    <3>2. Asked
      BY <2>2, <3>1 DEF Asked
    <3>3. SameOwner
      BY <2>1, <3>2 DEF ReportInv
    <3> QED
      BY <3>3 DEF SameOwner
  <2>3. \A f \in DOMAIN fields :
          fields[f].whole \/ f \in {"imagePathName", "commandLine", "currentDirectory"}
    BY <2>1 DEF FieldsInv, Strings
  <2> QED
    BY <2>2, <2>3 DEF ReportsAreOfOne
<1> QED
  BY <1>1, InspectInvariant, PTL

\* PebTebReader.cpp:128, SystemInfoProvider.cpp:246: a success has all that is needed,
\* a failure throws nothing useful away.
THEOREM CallsFailForGoodReason == InspectSpec => []FailsForGoodReason
<1>1. InspectInv => FailsForGoodReason
  BY DEF InspectInv, CallsInv
<1> QED
  BY <1>1, InspectInvariant, PTL

=============================================================================
