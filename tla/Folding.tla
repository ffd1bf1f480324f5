------------------------------ MODULE Folding ------------------------------
(***************************************************************************)
(* What a fold over a sequence keeps.  The battle is written with FoldLeft *)
(* wherever the code ranges over a slice, and a theorem about FoldLeft     *)
(* would take its step as a parameter, which a prover cannot instantiate.  *)
(* An INSTANCE of this module can: Step is what one element does to what   *)
(* has been folded so far, Keeps what is true of it after so many          *)
(* elements, and ctx what both depend on.                                  *)
(***************************************************************************)
EXTENDS Integers, Folds, WellFoundedInduction, TLAPS

CONSTANTS Step(_, _, _), Keeps(_, _, _)

Max(S) == CHOOSE x \in S : \A y \in S : x >= y

\* FoldLeft, as the libraries define it.
Fold(ctx, base, seq) ==
    MapThenFoldSet(LAMBDA x, acc : Step(ctx, acc, x), base, LAMBDA i : seq[i],
                   LAMBDA S : Max(S), DOMAIN seq)

-----------------------------------------------------------------------------
\* Of some natural numbers one is the least ...
LEMMA Least ==
    ASSUME NEW T \in SUBSET Nat, T # {}
    PROVE  \E x \in T : \A y \in T : x <= y
<1> DEFINE R == OpToRel(<, Nat)
<1>1. IsWellFoundedOn(R, Nat)
  BY NatLessThanWellFounded
<1>2. \A x, y \in Nat : y < x => <<y, x>> \in R
  BY DEF OpToRel
<1> HIDE DEF R
<1>3. PICK x \in T : \A y \in T : ~(<<y, x>> \in R)
  BY <1>1, WFMin
<1>4. ASSUME NEW y \in T PROVE x <= y
  <2>1. x \in Nat /\ y \in Nat
    OBVIOUS
  <2>2. ~(y < x)
    BY <1>2, <1>3, <2>1
  <2> QED BY <2>1, <2>2
<1> QED BY <1>3, <1>4

\* ... and of some positions one is the last, behind which the others are.
LEMMA Greatest ==
    ASSUME NEW k \in Nat, NEW s \in SUBSET (1..k), s # {}
    PROVE  /\ Max(s) \in s
           /\ \A y \in s : y <= Max(s)
           /\ k # 0 /\ s \ {Max(s)} \in SUBSET (1..k - 1)
<1> DEFINE T == {k - y : y \in s}
<1>1. \A y \in s : y \in Nat /\ y >= 1 /\ y <= k
  OBVIOUS
<1>2. T \in SUBSET Nat /\ T # {}
  <2>1. \A y \in s : k - y \in Nat
    BY <1>1
  <2> QED BY <2>1
<1>3. PICK x \in T : \A y \in T : x <= y
  BY <1>2, Least
<1>4. PICK m \in s : x = k - m
  BY <1>3
<1>5. ASSUME NEW y \in s PROVE m >= y
  <2>1. x <= k - y
    BY <1>3
  <2> QED BY <1>1, <1>4, <2>1
<1>6. Max(s) \in s /\ \A y \in s : Max(s) >= y
  BY <1>5 DEF Max
<1>7. Max(s) \in Nat /\ Max(s) >= 1 /\ Max(s) <= k
  BY <1>1, <1>6
<1>8. ASSUME NEW y \in s, y # Max(s) PROVE y \in 1..k - 1
  BY <1>1, <1>6, <1>7, <1>8
<1>9. s \ {Max(s)} \in SUBSET (1..k - 1)
  BY <1>8
<1>10. \A y \in s : y <= Max(s)
  BY <1>1, <1>6, <1>7
<1> QED BY <1>6, <1>7, <1>9, <1>10

LEMMA GreatestOfAll ==
    ASSUME NEW k \in Nat, k # 0
    PROVE  Max(1..k) = k /\ (1..k) \ {k} = 1..k - 1
<1>1. 1..k \in SUBSET (1..k) /\ 1..k # {} /\ k \in 1..k
  OBVIOUS
<1>2. Max(1..k) \in 1..k /\ k <= Max(1..k)
  BY <1>1, Greatest
<1> QED BY <1>2

-----------------------------------------------------------------------------
\* What holds before the first element, and after each if it did before it, holds
\* when all have been folded.
THEOREM FoldKeeps ==
    ASSUME NEW ctx, NEW base, NEW seq, NEW n \in Nat, DOMAIN seq = 1..n, Keeps(ctx, 0, base),
           \A k \in 1..n : \A acc : Keeps(ctx, k - 1, acc) => Keeps(ctx, k, Step(ctx, acc, seq[k]))
    PROVE  Keeps(ctx, n, Fold(ctx, base, seq))
<1> DEFINE Next(g, s) == IF s = {} THEN base ELSE Step(ctx, g[s \ {Max(s)}], seq[Max(s)])
           Runs(g, k) == g = [s \in SUBSET (1..k) |-> Next(g, s)]
           run == CHOOSE g : Runs(g, n)
<1>1. ASSUME NEW k \in Nat, NEW g, Runs(g, k)
      PROVE \E h : Runs(h, k + 1)
  <2> DEFINE h == [s \in SUBSET (1..k + 1) |-> Next(g, s)]
  <2>1. \A s \in SUBSET (1..k) : h[s] = g[s]
    <3>1. SUBSET (1..k) \subseteq SUBSET (1..k + 1)
      OBVIOUS
    <3>2. \A s \in SUBSET (1..k) : g[s] = Next(g, s)
      BY <1>1
    <3> HIDE DEF Next
    <3> QED BY <3>1, <3>2
  <2>2. ASSUME NEW s \in SUBSET (1..k + 1)
        PROVE h[s] = Next(h, s)
    <3>1. h[s] = Next(g, s)
      OBVIOUS
    <3>2. CASE s = {}
      BY <3>1, <3>2
    <3>3. CASE s # {}
      <4>1. s \ {Max(s)} \in SUBSET (1..k)
        <5>1. k + 1 \in Nat /\ (k + 1) - 1 = k
          OBVIOUS
        <5> QED BY ONLY <3>3, <5>1, Greatest, s \in SUBSET (1..k + 1)
      <4>2. h[s \ {Max(s)}] = g[s \ {Max(s)}]
        BY <2>1, <4>1
      <4> HIDE DEF h
      <4> QED BY <3>1, <3>3, <4>2
    <3> QED BY <3>2, <3>3
  <2> HIDE DEF Next
  <2>3. Runs(h, k + 1)
    BY <2>2
  <2> QED BY <2>3
<1>2. \E g : Runs(g, 0)
  <2>1. SUBSET (1..0) = {{}}
    OBVIOUS
  <2>2. Runs([s \in SUBSET (1..0) |-> base], 0)
    BY <2>1
  <2> QED BY <2>2
<1>3. \E g : Runs(g, n)
  <2> DEFINE T == {k \in Nat : ~\E g : Runs(g, k)}
  <2> SUFFICES ASSUME ~\E g : Runs(g, n) PROVE FALSE
    OBVIOUS
  <2> HIDE DEF Runs
  <2>1. T \in SUBSET Nat /\ T # {}
    OBVIOUS
  <2>2. PICK k \in T : \A y \in T : k <= y
    BY <2>1, Least
  <2>3. k # 0
    BY <1>2
  <2>4. k - 1 \in Nat /\ k - 1 \notin T
    BY <2>2, <2>3
  <2>5. PICK g : Runs(g, k - 1)
    BY <2>4
  <2>6. \E h : Runs(h, (k - 1) + 1)
    BY <1>1, <2>4, <2>5
  <2>7. (k - 1) + 1 = k
    BY <2>3
  <2> QED BY <2>6, <2>7
<1>4. Runs(run, n)
  BY <1>3
<1>5. Fold(ctx, base, seq) = run[1..n]
  BY DEF Fold, MapThenFoldSet
<1>6. ASSUME NEW k \in 0..n
      PROVE run[1..k] = IF k = 0 THEN base ELSE Step(ctx, run[1..k - 1], seq[k])
  <2>1. 1..k \in SUBSET (1..n)
    OBVIOUS
  <2>2. run[1..k] = Next(run, 1..k)
    BY <1>4, <2>1
  <2>3. CASE k = 0
    BY <2>2, <2>3
  <2>4. CASE k # 0
    <3>1. Max(1..k) = k /\ (1..k) \ {k} = 1..k - 1 /\ 1..k # {}
      BY <2>4, GreatestOfAll
    <3> HIDE DEF run
    <3> QED BY <2>2, <2>4, <3>1
  <2> QED BY <2>3, <2>4
<1>7. Keeps(ctx, n, run[1..n])
  <2> HIDE DEF run
  <2> DEFINE T == {k \in 0..n : ~Keeps(ctx, k, run[1..k])}
  <2> SUFFICES ASSUME ~Keeps(ctx, n, run[1..n]) PROVE FALSE
    OBVIOUS
  <2>1. T \in SUBSET Nat /\ T # {}
    OBVIOUS
  <2>2. PICK k \in T : \A y \in T : k <= y
    BY <2>1, Least
  <2>3. k # 0
    BY <1>6
  <2>4. k - 1 \in 0..n /\ k - 1 \notin T /\ k \in 1..n
    BY <2>2, <2>3
  <2>5. Keeps(ctx, k - 1, run[1..k - 1])
    BY <2>4
  <2>6. Keeps(ctx, k, Step(ctx, run[1..k - 1], seq[k]))
    BY <2>4, <2>5
  <2> QED BY <1>6, <2>3, <2>6
<1> QED BY <1>5, <1>7
=============================================================================
