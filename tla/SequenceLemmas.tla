--------------------------- MODULE SequenceLemmas ---------------------------
(***************************************************************************)
(* What the proofs of several modules need about numbers, about functions  *)
(* that are defined recursively, and about sequences that are flattened.   *)
(*                                                                         *)
(* Induction is used through sets: a set of numbers that contains 0 and,   *)
(* with each number, the next one contains them all.                       *)
(***************************************************************************)
EXTENDS Integers, SequencesExt, FiniteSetTheorems, SequenceTheorems, WellFoundedInduction,
        TLAPS

-----------------------------------------------------------------------------
(* Induction.                                                              *)

LEMMA Least ==
    ASSUME NEW S \in SUBSET Nat, S # {}
    PROVE  \E m \in S : \A k \in S : m <= k
<1>1. PICK m \in S : \A k \in S : ~(<<k, m>> \in OpToRel(<, Nat))
    BY NatLessThanWellFounded, WFMin
<1>2. ASSUME NEW k \in S PROVE m <= k
    <2>1. ~(k < m)
        BY <1>1 DEF OpToRel
    <2> QED
        BY <2>1
<1> QED
    BY <1>2

\* what holds at 0 and is passed on up to n holds up to n
LEMMA InductionUpTo ==
    ASSUME NEW n \in Nat, NEW S, 0 \in S, \A k \in 0 .. n - 1 : k \in S => k + 1 \in S
    PROVE  \A k \in 0 .. n : k \in S
<1> DEFINE Outside == {k \in 0 .. n : k \notin S}
<1> SUFFICES ASSUME Outside # {} PROVE FALSE
    OBVIOUS
<1>1. Outside \in SUBSET Nat
    OBVIOUS
<1>2. PICK m \in Outside : \A k \in Outside : m <= k
    <2> HIDE DEF Outside
    <2> QED
        BY <1>1, Least
<1>3. m \in 0 .. n /\ m \notin S /\ m # 0
    OBVIOUS
<1>4. m - 1 \in 0 .. n - 1 /\ (m - 1) + 1 = m /\ ~(m <= m - 1)
    BY <1>3
<1>5. m - 1 \notin Outside
    BY <1>2, <1>4
<1>6. m - 1 \in S
    BY <1>4, <1>5
<1> QED
    BY <1>3, <1>4, <1>6

\* the same without an end
LEMMA Induction ==
    ASSUME NEW S, 0 \in S, \A k \in Nat : k \in S => k + 1 \in S
    PROVE  Nat \subseteq S
<1> SUFFICES ASSUME NEW n \in Nat PROVE n \in S
    OBVIOUS
<1>1. \A k \in 0 .. n - 1 : k \in S => k + 1 \in S
    OBVIOUS
<1>2. n \in 0 .. n
    OBVIOUS
<1> QED
    BY <1>1, <1>2, InductionUpTo

-----------------------------------------------------------------------------
(* Maxima and minima.                                                      *)

\* a finite set of numbers has a greatest one
LEMMA FiniteHasMax ==
    ASSUME NEW S \in SUBSET Nat, IsFiniteSet(S), S # {}
    PROVE  \E x \in S : \A y \in S : x >= y
<1> DEFINE HasMax(X) == \E x \in X : \A y \in X : x >= y
           Good == {k \in Nat : \A X \in SUBSET Nat :
                        IsFiniteSet(X) /\ X # {} /\ Cardinality(X) = k => HasMax(X)}
<1>1. 0 \in Good
    <2>1. \A X \in SUBSET Nat : IsFiniteSet(X) /\ X # {} => Cardinality(X) # 0
        BY FS_EmptySet
    <2> QED
        BY <2>1
<1>2. ASSUME NEW k \in Nat, k \in Good PROVE k + 1 \in Good
    <2> SUFFICES ASSUME NEW X \in SUBSET Nat, IsFiniteSet(X), X # {}, Cardinality(X) = k + 1
                 PROVE  HasMax(X)
        OBVIOUS
    <2>1. PICK x \in X : TRUE
        OBVIOUS
    <2> DEFINE Y == X \ {x}
    <2>2. IsFiniteSet(Y) /\ Cardinality(Y) = k
        <3>1. IsFiniteSet(Y) /\ Cardinality(Y) = Cardinality(X) - 1
            BY <2>1, FS_RemoveElement
        <3> QED
            BY <3>1
    <2>3. CASE Y = {}
        <3>1. \A y \in X : x >= y
            BY <2>1, <2>3
        <3> QED
            BY <2>1, <3>1
    <2>4. CASE Y # {}
        <3>1. PICK m \in Y : \A y \in Y : m >= y
            BY <1>2, <2>2, <2>4
        <3>2. CASE m >= x
            BY <3>1, <3>2
        <3>3. CASE ~(m >= x)
            <4>1. \A y \in X : x >= y
                BY <2>1, <3>1, <3>3
            <4> QED
                BY <2>1, <4>1
        <3> QED
            BY <3>2, <3>3
    <2> QED
        BY <2>3, <2>4
<1>3. Nat \subseteq Good
    <2> HIDE DEF Good
    <2> QED
        BY <1>1, <1>2, Induction
<1>4. Cardinality(S) \in Nat
    BY FS_CardinalityType
<1>5. Cardinality(S) \in Good
    <2> HIDE DEF Good
    <2> QED
        BY <1>3, <1>4
<1>6. HasMax(S)
    <2> HIDE DEF HasMax
    <2> QED
        BY <1>5
<1> QED
    BY <1>6

\* and Max is it
LEMMA MaxIs ==
    ASSUME NEW S \in SUBSET Nat, IsFiniteSet(S), S # {}
    PROVE  Max(S) \in S /\ \A y \in S : y <= Max(S)
<1>1. PICK x \in S : \A y \in S : x >= y
    BY FiniteHasMax
<1>2. Max(S) \in S /\ \A y \in S : Max(S) >= y
    BY <1>1 DEF Max
<1> QED
    BY <1>2

\* of a set that has an upper bound
LEMMA MaxUpTo ==
    ASSUME NEW n \in Nat, NEW S \in SUBSET (0 .. n), S # {}
    PROVE  Max(S) \in S /\ \A y \in S : y <= Max(S)
<1>1. IsFiniteSet(0 .. n)
    <2>1. 0 \in Int /\ n \in Int
        OBVIOUS
    <2> QED
        BY <2>1, FS_Interval
<1>2. IsFiniteSet(S)
    BY <1>1, FS_Subset
<1>3. S \in SUBSET Nat
    OBVIOUS
<1> QED
    BY <1>2, <1>3, MaxIs

\* Max of the first numbers
LEMMA MaxOfFirst ==
    ASSUME NEW n \in Nat \ {0}
    PROVE  Max(1 .. n) = n
<1>1. n \in 1 .. n /\ \A y \in 1 .. n : n >= y
    OBVIOUS
<1>2. Max(1 .. n) \in 1 .. n /\ \A y \in 1 .. n : Max(1 .. n) >= y
    BY <1>1 DEF Max
<1>3. Max(1 .. n) >= n
    BY <1>1, <1>2
<1> QED
    BY <1>2, <1>3

\* the greater one of two, and the smaller one
LEMMA MaxOfTwo ==
    ASSUME NEW a \in Int, NEW b \in Int
    PROVE  Max({a, b}) \in {a, b} /\ a <= Max({a, b}) /\ b <= Max({a, b})
<1>1. \E x \in {a, b} : \A y \in {a, b} : x >= y
    OBVIOUS
<1>2. Max({a, b}) \in {a, b} /\ \A y \in {a, b} : Max({a, b}) >= y
    BY <1>1 DEF Max
<1> QED
    BY <1>2

LEMMA MinOfTwo ==
    ASSUME NEW a \in Int, NEW b \in Int
    PROVE  Min({a, b}) \in {a, b} /\ Min({a, b}) <= a /\ Min({a, b}) <= b
<1>1. \E x \in {a, b} : \A y \in {a, b} : x =< y
    OBVIOUS
<1>2. Min({a, b}) \in {a, b} /\ \A y \in {a, b} : Min({a, b}) =< y
    BY <1>1 DEF Min
<1> QED
    BY <1>2

\* the least of a set of numbers
LEMMA MinIs ==
    ASSUME NEW S \in SUBSET Nat, S # {}
    PROVE  Min(S) \in S /\ \A y \in S : Min(S) <= y
<1>1. \E x \in S : \A y \in S : x =< y
    BY Least
<1> QED
    BY <1>1 DEF Min

-----------------------------------------------------------------------------
(* Functions that are defined by recursion.                                *)

Computed(f, n, base, step) == f[0] = base /\ \A i \in 1 .. n : f[i] = step[i][f[i - 1]]

\* what a step computes from the value before it, from 0 up to n
LEMMA Recursion ==
    ASSUME NEW n \in Nat, NEW T, NEW base \in T, NEW step \in [1 .. n -> [T -> T]]
    PROVE  \E f \in [0 .. n -> T] : Computed(f, n, base, step)
<1> DEFINE Good == {m \in 0 .. n : \E f \in [0 .. m -> T] : Computed(f, m, base, step)}
<1>1. 0 \in Good
    <2> DEFINE f == [i \in 0 .. 0 |-> base]
    <2>1. f \in [0 .. 0 -> T] /\ Computed(f, 0, base, step)
        BY DEF Computed
    <2>2. 0 \in 0 .. n
        OBVIOUS
    <2> HIDE DEF f
    <2> QED
        BY <2>1, <2>2
<1>2. ASSUME NEW m \in 0 .. n - 1, m \in Good PROVE m + 1 \in Good
    <2>1. PICK f \in [0 .. m -> T] : Computed(f, m, base, step)
        BY <1>2
    <2> DEFINE g == [i \in 0 .. m + 1 |-> IF i = m + 1 THEN step[i][f[m]] ELSE f[i]]
    <2>2. m \in 0 .. m /\ m + 1 \in 1 .. n /\ m + 1 \in 0 .. n
        OBVIOUS
    <2>3. step[m + 1][f[m]] \in T
        BY <2>2
    <2>4. ASSUME NEW i \in 0 .. m + 1 PROVE g[i] \in T
        <3>1. CASE i = m + 1
            BY <2>3, <3>1
        <3>2. CASE i # m + 1
            BY <3>2
        <3> QED
            BY <3>1, <3>2
    <2>5. g \in [0 .. m + 1 -> T]
        BY <2>4
    <2>6. g[0] = base
        BY <2>1 DEF Computed
    <2>7. ASSUME NEW i \in 1 .. m + 1 PROVE g[i] = step[i][g[i - 1]]
        <3>1. CASE i = m + 1
            BY <3>1
        <3>2. CASE i # m + 1
            <4>1. i \in 1 .. m /\ g[i] = f[i] /\ g[i - 1] = f[i - 1]
                BY <3>2
            <4> QED
                BY <2>1, <4>1 DEF Computed
        <3> QED
            BY <3>1, <3>2
    <2>8. Computed(g, m + 1, base, step)
        BY <2>6, <2>7 DEF Computed
    <2> HIDE DEF g
    <2> QED
        BY <2>2, <2>5, <2>8
<1>3. n \in Good
    <2> HIDE DEF Good
    <2>1. \A k \in 0 .. n : k \in Good
        BY <1>1, <1>2, InductionUpTo
    <2> QED
        BY <2>1
<1> QED
    BY <1>3

-----------------------------------------------------------------------------
(* FlattenSeq.                                                             *)

Flattening(f, ss) ==
    f[0] = <<>> /\ \A i \in 1 .. Len(ss) : f[i] = f[i - 1] \o ss[i]

LEMMA FlatteningExists ==
    ASSUME NEW S, NEW ss \in Seq(Seq(S))
    PROVE  \E f \in [0 .. Len(ss) -> Seq(S)] : Flattening(f, ss)
<1> DEFINE n == Len(ss)
           step == [i \in 1 .. n |-> [x \in Seq(S) |-> x \o ss[i]]]
<1>1. n \in Nat /\ <<>> \in Seq(S)
    OBVIOUS
<1>2. step \in [1 .. n -> [Seq(S) -> Seq(S)]]
    <2>1. ASSUME NEW i \in 1 .. n, NEW x \in Seq(S) PROVE x \o ss[i] \in Seq(S)
        <3>1. ss[i] \in Seq(S)
            OBVIOUS
        <3> QED
            BY <3>1, ConcatProperties
    <2> QED
        BY <2>1
<1>3. PICK f \in [0 .. n -> Seq(S)] : Computed(f, n, <<>>, step)
    <2> HIDE DEF n, step
    <2> QED
        BY <1>1, <1>2, Recursion
<1>4. \A i \in 1 .. n : f[i] = f[i - 1] \o ss[i]
    <2> SUFFICES ASSUME NEW i \in 1 .. n PROVE f[i] = f[i - 1] \o ss[i]
        OBVIOUS
    <2>1. i - 1 \in 0 .. n
        BY <1>1
    <2>2. f[i - 1] \in Seq(S)
        BY <2>1
    <2>3. f[i] = step[i][f[i - 1]]
        BY <1>3 DEF Computed
    <2> QED
        BY <2>2, <2>3
<1> QED
    BY <1>3, <1>4 DEF Flattening, Computed

LEMMA FlatteningIs ==
    ASSUME NEW S, NEW ss \in Seq(Seq(S)), NEW f \in [0 .. Len(ss) -> Seq(S)], Flattening(f, ss)
    PROVE  FlattenSeq(ss) = f[Len(ss)]
<1> DEFINE n == Len(ss)
           Step(g) == [i \in 1 .. n |-> IF i = 1 THEN ss[i] ELSE g[i - 1] \o ss[i]]
           chosen == CHOOSE g : g = Step(g)
<1>1. n \in Nat /\ n = Len(ss)
    OBVIOUS
<1>4. f[0] = <<>> /\ \A i \in 1 .. n : f[i] = f[i - 1] \o ss[i] /\ ss[i] \in Seq(S)
    BY DEF Flattening
<1> HIDE DEF n
<1>2. CASE n = 0
    <2>1. ss = <<>>
        BY <1>1, <1>2, EmptySeq
    <2> QED
        BY <1>1, <1>2, <1>4, <2>1 DEF FlattenSeq
<1>3. CASE n # 0
    <2>1. FlattenSeq(ss) = chosen[n]
        BY <1>1, <1>3, Zenon DEF FlattenSeq, n
    <2>2. \E g : g = Step(g)
        <3> DEFINE g == [i \in 1 .. n |-> f[i]]
        <3>1. ASSUME NEW i \in 1 .. n
              PROVE  g[i] = IF i = 1 THEN ss[i] ELSE g[i - 1] \o ss[i]
            <4>1. f[i] = f[i - 1] \o ss[i] /\ ss[i] \in Seq(S)
                BY <1>4
            <4>2. CASE i = 1
                <5>3. i - 1 = 0
                    BY <4>2
                <5>1. f[i] = <<>> \o ss[i]
                    BY <1>4, <4>1, <5>3
                <5>2. <<>> \o ss[i] = ss[i]
                    BY <4>1, ConcatEmptySeq
                <5> QED
                    BY <4>2, <5>1, <5>2
            <4>3. CASE i # 1
                <5>1. g[i] = f[i] /\ g[i - 1] = f[i - 1]
                    BY <1>1, <4>3
                <5> HIDE DEF g
                <5> QED
                    BY <4>1, <4>3, <5>1
            <4> QED
                BY <4>2, <4>3
        <3>2. g = Step(g)
            BY <3>1
        <3> HIDE DEF g
        <3> QED
            BY <3>2
    <2>3. chosen = Step(chosen)
        <3> HIDE DEF Step
        <3> QED
            BY <2>2
    <2> HIDE DEF chosen
    <2>4. \A i \in 1 .. n : chosen[i] = IF i = 1 THEN ss[i] ELSE chosen[i - 1] \o ss[i]
        BY <2>3
    <2> DEFINE Alike == {k \in 0 .. n : k = 0 \/ chosen[k] = f[k]}
    <2>5. 0 \in Alike
        BY <1>1
    <2>6. ASSUME NEW k \in 0 .. n - 1, k \in Alike PROVE k + 1 \in Alike
        <3>1. k + 1 \in 1 .. n /\ (k + 1) - 1 = k
            BY <1>1
        <3>2. /\ f[k + 1] = f[(k + 1) - 1] \o ss[k + 1] /\ ss[k + 1] \in Seq(S)
              /\ chosen[k + 1] = IF k + 1 = 1 THEN ss[k + 1]
                                 ELSE chosen[(k + 1) - 1] \o ss[k + 1]
            BY <1>4, <2>4, <3>1
        <3>3. CASE k = 0
            <4>3. f[(k + 1) - 1] = <<>> /\ k + 1 = 1
                BY <1>4, <3>1, <3>3
            <4>1. f[k + 1] = <<>> \o ss[k + 1] /\ chosen[k + 1] = ss[k + 1]
                BY <3>2, <4>3
            <4>2. <<>> \o ss[k + 1] = ss[k + 1]
                BY <3>2, ConcatEmptySeq
            <4> QED
                BY <3>1, <4>1, <4>2
        <3>4. CASE k # 0
            <4>1. chosen[k] = f[k]
                BY <2>6, <3>4
            <4>2. chosen[k + 1] = chosen[k] \o ss[k + 1]
                <5>1. k + 1 # 1
                    BY <3>4
                <5> QED
                    BY <3>1, <3>2, <5>1
            <4>3. f[k + 1] = f[k] \o ss[k + 1]
                BY <3>1, <3>2
            <4>4. chosen[k + 1] = f[k + 1]
                BY <4>1, <4>2, <4>3
            <4> QED
                BY <3>1, <4>4
        <3> QED
            BY <3>3, <3>4
    <2>7. n \in Alike
        <3> HIDE DEF Alike
        <3>1. \A k \in 0 .. n : k \in Alike
            BY <1>1, <2>5, <2>6, InductionUpTo
        <3> QED
            BY <1>1, <3>1
    <2> QED
        BY <1>1, <1>3, <2>1, <2>7
<1> QED
    BY <1>2, <1>3

\* a sequence of sequences becomes a sequence
LEMMA FlattenType ==
    ASSUME NEW S, NEW ss \in Seq(Seq(S))
    PROVE  FlattenSeq(ss) \in Seq(S)
<1>1. PICK f \in [0 .. Len(ss) -> Seq(S)] : Flattening(f, ss)
    BY FlatteningExists
<1>2. FlattenSeq(ss) = f[Len(ss)]
    BY <1>1, FlatteningIs
<1>3. Len(ss) \in 0 .. Len(ss)
    OBVIOUS
<1> QED
    BY <1>2, <1>3

LEMMA FlattenEmpty == FlattenSeq(<<>>) = <<>>
BY DEF FlattenSeq

\* what is appended comes last
LEMMA FlattenAppend ==
    ASSUME NEW S, NEW ss \in Seq(Seq(S)), NEW s \in Seq(S)
    PROVE  FlattenSeq(Append(ss, s)) = FlattenSeq(ss) \o s
<1> DEFINE n == Len(ss)
           all == Append(ss, s)
<1>1. /\ n \in Nat /\ all \in Seq(Seq(S)) /\ Len(all) = n + 1 /\ all[n + 1] = s
      /\ \A i \in 1 .. n : all[i] = ss[i]
    OBVIOUS
<1> HIDE DEF all
<1>2. PICK f \in [0 .. Len(all) -> Seq(S)] : Flattening(f, all)
    BY <1>1, FlatteningExists
<1>3. FlattenSeq(all) = f[n + 1]
    BY <1>1, <1>2, FlatteningIs
<1>4. f[n + 1] = f[n] \o s
    <2>1. n + 1 \in 1 .. Len(all) /\ (n + 1) - 1 = n
        BY <1>1
    <2> QED
        BY <1>1, <1>2, <2>1 DEF Flattening
<1> DEFINE g == [i \in 0 .. n |-> f[i]]
<1>5. g \in [0 .. Len(ss) -> Seq(S)] /\ g[n] = f[n]
    BY <1>1
<1>6. Flattening(g, ss)
    <2>1. g[0] = <<>>
        BY <1>1, <1>2 DEF Flattening
    <2>2. ASSUME NEW i \in 1 .. n PROVE g[i] = g[i - 1] \o ss[i]
        <3>1. i \in 1 .. Len(all) /\ i \in 0 .. n /\ i - 1 \in 0 .. n
            BY <1>1
        <3>2. f[i] = f[i - 1] \o all[i]
            BY <1>2, <3>1 DEF Flattening
        <3>3. g[i] = f[i] /\ g[i - 1] = f[i - 1] /\ all[i] = ss[i]
            BY <1>1, <3>1
        <3> QED
            BY <3>2, <3>3
    <2> HIDE DEF g
    <2> QED
        BY <2>1, <2>2 DEF Flattening
<1>7. FlattenSeq(ss) = f[n]
    <2>1. FlattenSeq(ss) = g[Len(ss)]
        <3> HIDE DEF g
        <3> QED
            BY <1>5, <1>6, FlatteningIs
    <2> QED
        BY <1>5, <2>1
<1> QED
    BY <1>3, <1>4, <1>7 DEF all

\* one sequence is itself
LEMMA FlattenSingle ==
    ASSUME NEW S, NEW s \in Seq(S)
    PROVE  FlattenSeq(<<s>>) = s
<1>1. <<>> \in Seq(Seq(S)) /\ Append(<<>>, s) = <<s>>
    OBVIOUS
<1>2. FlattenSeq(<<s>>) = FlattenSeq(<<>>) \o s
    BY <1>1, FlattenAppend
<1>3. <<>> \o s = s
    BY ConcatEmptySeq
<1> QED
    BY <1>2, <1>3, FlattenEmpty

LEMMA Associative ==
    ASSUME NEW S
    PROVE  \A s, t, u \in Seq(S) : (s \o t) \o u = s \o (t \o u)
OBVIOUS

\* two parts are flattened one after the other
LEMMA FlattenConcat ==
    ASSUME NEW S, NEW ss \in Seq(Seq(S)), NEW tt \in Seq(Seq(S))
    PROVE  FlattenSeq(ss \o tt) = FlattenSeq(ss) \o FlattenSeq(tt)
<1>4. \A s, t, u \in Seq(S) : (s \o t) \o u = s \o (t \o u)
    BY Associative
<1> DEFINE Good == {k \in Nat : \A uu \in Seq(Seq(S)) :
                        Len(uu) = k => FlattenSeq(ss \o uu) = FlattenSeq(ss) \o FlattenSeq(uu)}
<1>1. 0 \in Good
    <2> SUFFICES ASSUME NEW uu \in Seq(Seq(S)), Len(uu) = 0
                 PROVE  FlattenSeq(ss \o uu) = FlattenSeq(ss) \o FlattenSeq(uu)
        OBVIOUS
    <2>1. uu = <<>>
        BY EmptySeq
    <2>2. ss \o <<>> = ss
        BY ConcatEmptySeq
    <2>3. FlattenSeq(ss) \o <<>> = FlattenSeq(ss)
        BY FlattenType, ConcatEmptySeq
    <2> QED
        BY <2>1, <2>2, <2>3, FlattenEmpty
<1>2. ASSUME NEW k \in Nat, k \in Good PROVE k + 1 \in Good
    <2> SUFFICES ASSUME NEW uu \in Seq(Seq(S)), Len(uu) = k + 1
                 PROVE  FlattenSeq(ss \o uu) = FlattenSeq(ss) \o FlattenSeq(uu)
        OBVIOUS
    <2>1. uu # <<>>
        <3>1. Len(<<>>) = 0
            OBVIOUS
        <3> QED
            BY <3>1
    <2>2. PICK vv \in Seq(Seq(S)), v \in Seq(S) : uu = Append(vv, v)
        BY <2>1, SequenceEmptyOrAppend
    <2>3. Len(vv) = k
        BY <2>2, AppendProperties
    <2>4. FlattenSeq(ss \o vv) = FlattenSeq(ss) \o FlattenSeq(vv)
        BY <1>2, <2>3
    <2>5. FlattenSeq(uu) = FlattenSeq(vv) \o v
        BY <2>2, FlattenAppend
    <2>6. ss \o uu = Append(ss \o vv, v) /\ ss \o vv \in Seq(Seq(S))
        <3> DEFINE T == Seq(S)
        <3>1. ss \in Seq(T) /\ vv \in Seq(T) /\ v \in T
            BY <2>2
        <3> HIDE DEF T
        <3>2. ss \o vv \in Seq(T)
            BY <3>1, ConcatProperties
        <3>3. ss \o Append(vv, v) = Append(ss \o vv, v)
            BY <3>1
        <3> QED
            BY <2>2, <3>2, <3>3 DEF T
    <2>7. FlattenSeq(ss \o uu) = FlattenSeq(ss \o vv) \o v
        BY <2>6, FlattenAppend
    <2>8. FlattenSeq(ss) \in Seq(S) /\ FlattenSeq(vv) \in Seq(S)
        BY FlattenType
    <2>9. (FlattenSeq(ss) \o FlattenSeq(vv)) \o v = FlattenSeq(ss) \o (FlattenSeq(vv) \o v)
        <3> HIDE DEF Good
        <3> QED
            BY <1>4, <2>8
    <2> QED
        BY <2>4, <2>5, <2>7, <2>9
<1>3. Len(tt) \in Good
    <2> HIDE DEF Good
    <2>1. Nat \subseteq Good
        BY <1>1, <1>2, Induction
    <2> QED
        BY <2>1
<1> QED
    BY <1>3

\* a sequence is its first elements and the others
LEMMA CutInTwo ==
    ASSUME NEW S, NEW s \in Seq(S), NEW k \in 0 .. Len(s)
    PROVE  /\ SubSeq(s, 1, k) \in Seq(S) /\ SubSeq(s, k + 1, Len(s)) \in Seq(S)
           /\ Len(SubSeq(s, 1, k)) = k /\ Len(SubSeq(s, k + 1, Len(s))) = Len(s) - k
           /\ \A i \in 1 .. k : SubSeq(s, 1, k)[i] = s[i]
           /\ \A i \in 1 .. Len(s) - k : SubSeq(s, k + 1, Len(s))[i] = s[k + i]
           /\ s = SubSeq(s, 1, k) \o SubSeq(s, k + 1, Len(s))
<1> DEFINE n == Len(s)
<1>1. n \in Nat /\ k \in Int /\ k <= n
    OBVIOUS
<1>2. /\ SubSeq(s, 1, k) \in Seq(S) /\ Len(SubSeq(s, 1, k)) = k
      /\ \A i \in 1 .. k : SubSeq(s, 1, k)[i] = s[i]
    <2>1. \A i \in 1 .. k : s[i] \in S
        OBVIOUS
    <2>2. /\ SubSeq(s, 1, k) \in Seq(S)
          /\ Len(SubSeq(s, 1, k)) = IF 1 <= k THEN k - 1 + 1 ELSE 0
          /\ \A i \in 1 .. k - 1 + 1 : SubSeq(s, 1, k)[i] = s[1 + i - 1]
        BY <2>1, SubSeqProperties
    <2>3. (IF 1 <= k THEN k - 1 + 1 ELSE 0) = k /\ k - 1 + 1 = k
        BY <1>1
    <2>4. \A i \in 1 .. k : 1 + i - 1 = i
        OBVIOUS
    <2> QED
        BY <2>2, <2>3, <2>4
<1>3. /\ SubSeq(s, k + 1, n) \in Seq(S) /\ Len(SubSeq(s, k + 1, n)) = n - k
      /\ \A i \in 1 .. n - k : SubSeq(s, k + 1, n)[i] = s[k + i]
    <2>1. k + 1 \in Int /\ \A i \in k + 1 .. n : s[i] \in S
        OBVIOUS
    <2> HIDE DEF n
    <2>2. /\ SubSeq(s, k + 1, n) \in Seq(S)
          /\ Len(SubSeq(s, k + 1, n)) = IF k + 1 <= n THEN n - (k + 1) + 1 ELSE 0
          /\ \A i \in 1 .. n - (k + 1) + 1 : SubSeq(s, k + 1, n)[i] = s[k + 1 + i - 1]
        BY <1>1, <2>1, SubSeqProperties
    <2>3. (IF k + 1 <= n THEN n - (k + 1) + 1 ELSE 0) = n - k /\ n - (k + 1) + 1 = n - k
        BY <1>1
    <2>4. \A i \in 1 .. n - k : k + 1 + i - 1 = k + i
        BY <1>1
    <2> QED
        BY <2>2, <2>3, <2>4
<1>4. SubSeq(s, 1, k) \o SubSeq(s, k + 1, n) = SubSeq(s, 1, n)
    <2>1. 1 \in 1 .. n + 1 /\ k \in 1 - 1 .. n /\ n \in k .. n
        OBVIOUS
    <2> QED
        BY <2>1, ConcatAdjacentSubSeq
<1>5. SubSeq(s, 1, n) = s
    BY SubSeqFull
<1> QED
    BY <1>2, <1>3, <1>4, <1>5

\* so is what is flattened
LEMMA FlattenCut ==
    ASSUME NEW S, NEW ss \in Seq(Seq(S)), NEW k \in 0 .. Len(ss)
    PROVE  FlattenSeq(ss) =
                FlattenSeq(SubSeq(ss, 1, k)) \o FlattenSeq(SubSeq(ss, k + 1, Len(ss)))
<1>1. /\ SubSeq(ss, 1, k) \in Seq(Seq(S)) /\ SubSeq(ss, k + 1, Len(ss)) \in Seq(Seq(S))
      /\ ss = SubSeq(ss, 1, k) \o SubSeq(ss, k + 1, Len(ss))
    BY CutInTwo
<1> QED
    BY <1>1, FlattenConcat

\* what is left when the first elements of a concatenation are taken off
LEMMA CutConcat ==
    ASSUME NEW S, NEW s \in Seq(S), NEW t \in Seq(S), NEW k \in 0 .. Len(s)
    PROVE  SubSeq(s \o t, k + 1, Len(s \o t)) = SubSeq(s, k + 1, Len(s)) \o t
<1> DEFINE all == s \o t
           left == SubSeq(s, k + 1, Len(s))
<1>1. /\ all \in Seq(S) /\ Len(all) = Len(s) + Len(t)
      /\ \A i \in 1 .. Len(s) + Len(t) : all[i] = IF i <= Len(s) THEN s[i] ELSE t[i - Len(s)]
    BY ConcatProperties
<1>2. /\ left \in Seq(S) /\ Len(left) = Len(s) - k
      /\ \A i \in 1 .. Len(s) - k : left[i] = s[k + i]
    BY CutInTwo
<1>3. /\ left \o t \in Seq(S) /\ Len(left \o t) = Len(left) + Len(t)
      /\ \A i \in 1 .. Len(left) + Len(t) :
            (left \o t)[i] = IF i <= Len(left) THEN left[i] ELSE t[i - Len(left)]
    BY <1>2, ConcatProperties
<1>4. /\ Len(s) \in Nat /\ Len(t) \in Nat /\ k \in 0 .. Len(all)
    BY <1>1
<1> HIDE DEF all, left
<1>5. /\ SubSeq(all, k + 1, Len(all)) \in Seq(S)
      /\ Len(SubSeq(all, k + 1, Len(all))) = Len(all) - k
      /\ \A i \in 1 .. Len(all) - k : SubSeq(all, k + 1, Len(all))[i] = all[k + i]
    BY <1>1, <1>4, CutInTwo
<1>6. ASSUME NEW i \in 1 .. Len(all) - k
      PROVE  SubSeq(all, k + 1, Len(all))[i] = (left \o t)[i]
    <2>1. SubSeq(all, k + 1, Len(all))[i] = all[k + i]
        BY <1>5
    <2>2. /\ k + i \in 1 .. Len(s) + Len(t) /\ i \in 1 .. Len(left) + Len(t)
          /\ k + i <= Len(s) <=> i <= Len(left) /\ (k + i) - Len(s) = i - Len(left)
        BY <1>1, <1>2, <1>4
    <2>3. all[k + i] = IF k + i <= Len(s) THEN s[k + i] ELSE t[(k + i) - Len(s)]
        BY <1>1, <2>2
    <2>4. (left \o t)[i] = IF i <= Len(left) THEN left[i] ELSE t[i - Len(left)]
        BY <1>3, <2>2
    <2>5. CASE i <= Len(left)
        <3>1. i \in 1 .. Len(s) - k /\ k + i <= Len(s)
            BY <1>2, <1>4, <2>5
        <3> QED
            BY <1>2, <2>1, <2>3, <2>4, <2>5, <3>1
    <2>6. CASE ~(i <= Len(left))
        <3>1. ~(k + i <= Len(s)) /\ (k + i) - Len(s) = i - Len(left)
            BY <1>2, <1>4, <2>6
        <3> QED
            BY <2>1, <2>3, <2>4, <2>6, <3>1
    <2> QED
        BY <2>5, <2>6
<1>7. Len(left \o t) = Len(all) - k
    BY <1>1, <1>2, <1>3, <1>4
<1>8. SubSeq(all, k + 1, Len(all)) = left \o t
    BY <1>3, <1>5, <1>6, <1>7, SeqEqual
<1> QED
    BY <1>8 DEF all, left

\* and when more are taken off than the first part has
LEMMA CutBeyond ==
    ASSUME NEW S, NEW s \in Seq(S), NEW t \in Seq(S), NEW k \in 0 .. Len(t)
    PROVE  SubSeq(s \o t, Len(s) + k + 1, Len(s \o t)) = SubSeq(t, k + 1, Len(t))
<1> DEFINE all == s \o t
           m == Len(s) + k
<1>1. /\ all \in Seq(S) /\ Len(all) = Len(s) + Len(t)
      /\ \A i \in 1 .. Len(s) + Len(t) : all[i] = IF i <= Len(s) THEN s[i] ELSE t[i - Len(s)]
    BY ConcatProperties
<1>2. Len(s) \in Nat /\ Len(t) \in Nat /\ m \in 0 .. Len(all) /\ m = Len(s) + k
    BY <1>1
<1>3. /\ SubSeq(t, k + 1, Len(t)) \in Seq(S) /\ Len(SubSeq(t, k + 1, Len(t))) = Len(t) - k
      /\ \A i \in 1 .. Len(t) - k : SubSeq(t, k + 1, Len(t))[i] = t[k + i]
    BY CutInTwo
<1> HIDE DEF all, m
<1>4. /\ SubSeq(all, m + 1, Len(all)) \in Seq(S)
      /\ Len(SubSeq(all, m + 1, Len(all))) = Len(all) - m
      /\ \A i \in 1 .. Len(all) - m : SubSeq(all, m + 1, Len(all))[i] = all[m + i]
    BY <1>1, <1>2, CutInTwo
<1>5. Len(all) - m = Len(t) - k
    BY <1>1, <1>2
<1>6. ASSUME NEW i \in 1 .. Len(t) - k
      PROVE  SubSeq(all, m + 1, Len(all))[i] = SubSeq(t, k + 1, Len(t))[i]
    <2>1. m + i \in 1 .. Len(s) + Len(t) /\ ~(m + i <= Len(s)) /\ (m + i) - Len(s) = k + i
        BY <1>2
    <2>2. all[m + i] = t[k + i]
        BY <1>1, <2>1
    <2> QED
        BY <1>3, <1>4, <1>5, <2>2
<1>7. SubSeq(all, m + 1, Len(all)) = SubSeq(t, k + 1, Len(t))
    BY <1>3, <1>4, <1>5, <1>6, SeqEqual
<1> QED
    BY <1>7 DEF all, m

-----------------------------------------------------------------------------
(* What is in a sequence, once.                                            *)

LEMMA ToSetConcat ==
    ASSUME NEW S, NEW s \in Seq(S), NEW t \in Seq(S)
    PROVE  ToSet(s \o t) = ToSet(s) \cup ToSet(t)
<1> DEFINE all == s \o t
           m == Len(s)
           n == Len(t)
<1>1. /\ all \in Seq(S) /\ Len(all) = m + n
      /\ \A i \in 1 .. m + n : all[i] = IF i <= m THEN s[i] ELSE t[i - m]
    BY ConcatProperties
<1>2. /\ m \in Nat /\ n \in Nat
      /\ DOMAIN s = 1 .. m /\ DOMAIN t = 1 .. n /\ DOMAIN all = 1 .. m + n
    <2>1. DOMAIN all = 1 .. Len(all)
        BY <1>1
    <2> QED
        BY <1>1, <2>1
<1> HIDE DEF all, m, n
<1>3. \A i \in 1 .. m : i \in 1 .. m + n /\ all[i] = s[i]
    BY <1>1, <1>2
<1>4. \A i \in 1 .. n : m + i \in 1 .. m + n /\ all[m + i] = t[i]
    <2> SUFFICES ASSUME NEW i \in 1 .. n PROVE m + i \in 1 .. m + n /\ all[m + i] = t[i]
        OBVIOUS
    <2>1. m + i \in 1 .. m + n /\ ~(m + i <= m) /\ (m + i) - m = i
        BY <1>2
    <2> QED
        BY <1>1, <2>1
<1>5. ASSUME NEW i \in 1 .. m + n
      PROVE  all[i] \in {s[j] : j \in 1 .. m} \cup {t[j] : j \in 1 .. n}
    <2>1. CASE i <= m
        <3>1. i \in 1 .. m
            BY <1>2, <2>1
        <3> QED
            BY <1>3, <3>1
    <2>2. CASE ~(i <= m)
        <3>1. i - m \in 1 .. n
            BY <1>2, <2>2
        <3> QED
            BY <1>1, <2>2, <3>1
    <2> QED
        BY <2>1, <2>2
<1>6. /\ ToSet(all) = {all[i] : i \in 1 .. m + n}
      /\ ToSet(s) = {s[i] : i \in 1 .. m} /\ ToSet(t) = {t[i] : i \in 1 .. n}
    BY <1>2 DEF ToSet
<1>7. ToSet(all) \subseteq ToSet(s) \cup ToSet(t)
    BY <1>5, <1>6
<1>8. ToSet(s) \subseteq ToSet(all)
    BY <1>3, <1>6
<1>9. ToSet(t) \subseteq ToSet(all)
    BY <1>4, <1>6
<1> QED
    BY <1>7, <1>8, <1>9 DEF all

\* no element occurs twice
LEMMA InjectiveIs ==
    ASSUME NEW S, NEW s \in Seq(S)
    PROVE  IsInjective(s) <=> \A i, j \in 1 .. Len(s) : s[i] = s[j] => i = j
<1>1. DOMAIN s = 1 .. Len(s)
    OBVIOUS
<1> QED
    BY <1>1 DEF IsInjective

LEMMA InjectiveConcat ==
    ASSUME NEW S, NEW s \in Seq(S), NEW t \in Seq(S)
    PROVE  IsInjective(s \o t) <=>
                IsInjective(s) /\ IsInjective(t) /\ ToSet(s) \cap ToSet(t) = {}
<1> DEFINE all == s \o t
           m == Len(s)
           n == Len(t)
<1>1. /\ all \in Seq(S) /\ Len(all) = m + n /\ m \in Nat /\ n \in Nat
      /\ \A i \in 1 .. m + n : all[i] = IF i <= m THEN s[i] ELSE t[i - m]
    BY ConcatProperties
<1>2. DOMAIN s = 1 .. m /\ DOMAIN t = 1 .. n
    OBVIOUS
<1> HIDE DEF all, m, n
<1>3. \A i \in 1 .. m : i \in 1 .. m + n /\ all[i] = s[i]
    BY <1>1
<1>4. \A i \in 1 .. n : m + i \in 1 .. m + n /\ all[m + i] = t[i]
    <2> SUFFICES ASSUME NEW i \in 1 .. n PROVE m + i \in 1 .. m + n /\ all[m + i] = t[i]
        OBVIOUS
    <2>1. m + i \in 1 .. m + n /\ ~(m + i <= m) /\ (m + i) - m = i
        BY <1>1
    <2> QED
        BY <1>1, <2>1
<1>5. ASSUME IsInjective(all)
      PROVE  IsInjective(s) /\ IsInjective(t) /\ ToSet(s) \cap ToSet(t) = {}
    <2>1. \A i, j \in 1 .. m + n : all[i] = all[j] => i = j
        BY <1>1, <1>5, InjectiveIs
    <2>2. IsInjective(s)
        <3>1. ASSUME NEW i \in 1 .. m, NEW j \in 1 .. m, s[i] = s[j] PROVE i = j
            BY <1>3, <2>1, <3>1
        <3> QED
            BY <1>2, <3>1 DEF IsInjective
    <2>3. IsInjective(t)
        <3>1. ASSUME NEW i \in 1 .. n, NEW j \in 1 .. n, t[i] = t[j] PROVE i = j
            <4>1. m + i = m + j
                BY <1>4, <2>1, <3>1
            <4> QED
                BY <1>1, <4>1
        <3> QED
            BY <1>2, <3>1 DEF IsInjective
    <2>4. ASSUME NEW x \in ToSet(s), x \in ToSet(t) PROVE FALSE
        <3>1. PICK i \in 1 .. m : s[i] = x
            BY <1>2 DEF ToSet
        <3>2. PICK j \in 1 .. n : t[j] = x
            BY <1>2, <2>4 DEF ToSet
        <3>3. i = m + j
            BY <1>3, <1>4, <2>1, <3>1, <3>2
        <3> QED
            BY <1>1, <3>3
    <2> QED
        BY <2>2, <2>3, <2>4
<1>6. ASSUME IsInjective(s), IsInjective(t), ToSet(s) \cap ToSet(t) = {}
      PROVE  IsInjective(all)
    <2>1. /\ \A i, j \in 1 .. m : s[i] = s[j] => i = j
          /\ \A i, j \in 1 .. n : t[i] = t[j] => i = j
        BY <1>2, <1>6 DEF IsInjective
    <2>2. \A i \in 1 .. m, j \in 1 .. n : s[i] # t[j]
        BY <1>2, <1>6 DEF ToSet
    <2>3. \A i \in 1 .. m + n : i \in 1 .. m \/ i - m \in 1 .. n
        BY <1>1
    <2>4. ASSUME NEW i \in 1 .. m + n, NEW j \in 1 .. m + n, all[i] = all[j] PROVE i = j
        <3>1. all[i] = IF i <= m THEN s[i] ELSE t[i - m]
            BY <1>1
        <3>2. all[j] = IF j <= m THEN s[j] ELSE t[j - m]
            BY <1>1
        <3>3. CASE i <= m /\ j <= m
            <4>3. i \in 1 .. m /\ j \in 1 .. m
                BY <1>1, <3>3
            <4>1. i \in 1 .. m /\ j \in 1 .. m /\ s[i] = s[j]
                BY <2>4, <3>1, <3>2, <3>3, <4>3
            <4> QED
                BY <2>1, <4>1
        <3>4. CASE ~(i <= m) /\ ~(j <= m)
            <4>3. i - m \in 1 .. n /\ j - m \in 1 .. n
                BY <1>1, <3>4
            <4>1. i - m \in 1 .. n /\ j - m \in 1 .. n /\ t[i - m] = t[j - m]
                BY <2>4, <3>1, <3>2, <3>4, <4>3
            <4>2. i - m = j - m
                BY <2>1, <4>1
            <4> QED
                BY <1>1, <4>2
        <3>5. CASE i <= m /\ ~(j <= m)
            <4>3. i \in 1 .. m /\ j - m \in 1 .. n
                BY <1>1, <3>5
            <4>1. i \in 1 .. m /\ j - m \in 1 .. n /\ s[i] = t[j - m]
                BY <2>4, <3>1, <3>2, <3>5, <4>3
            <4> QED
                BY <2>2, <4>1
        <3>6. CASE ~(i <= m) /\ j <= m
            <4>3. j \in 1 .. m /\ i - m \in 1 .. n
                BY <1>1, <3>6
            <4>1. j \in 1 .. m /\ i - m \in 1 .. n /\ s[j] = t[i - m]
                BY <2>4, <3>1, <3>2, <3>6, <4>3
            <4> QED
                BY <2>2, <4>1
        <3> QED
            BY <3>3, <3>4, <3>5, <3>6
    <2> QED
        BY <1>1, <2>4, InjectiveIs
<1> QED
    BY <1>5, <1>6 DEF all

\* as many are in it as it is long
LEMMA InjectiveCardinality ==
    ASSUME NEW S, NEW s \in Seq(S), IsInjective(s)
    PROVE  IsFiniteSet(ToSet(s)) /\ Cardinality(ToSet(s)) = Len(s)
<1> DEFINE n == Len(s)
           first(k) == {s[i] : i \in 1 .. k}
           Good == {k \in 0 .. n : IsFiniteSet(first(k)) /\ Cardinality(first(k)) = k}
<1>1. n \in Nat /\ DOMAIN s = 1 .. n /\ \A i, j \in 1 .. n : s[i] = s[j] => i = j
    BY InjectiveIs
<1>2. 0 \in Good
    <2>1. first(0) = {}
        OBVIOUS
    <2>2. 0 \in 0 .. n
        BY <1>1
    <2> HIDE DEF first, n
    <2>3. IsFiniteSet(first(0)) /\ Cardinality(first(0)) = 0
        BY <2>1, FS_EmptySet
    <2> QED
        BY <2>2, <2>3
<1>3. ASSUME NEW k \in 0 .. n - 1, k \in Good PROVE k + 1 \in Good
    <2>1. k + 1 \in 1 .. n /\ k + 1 \in 0 .. n /\ k + 1 \notin 1 .. k /\ 1 .. k \subseteq 1 .. n
        BY <1>1
    <2>2. first(k + 1) = first(k) \cup {s[k + 1]}
        <3>1. 1 .. k + 1 = (1 .. k) \cup {k + 1}
            OBVIOUS
        <3> QED
            BY <3>1
    <2>3. s[k + 1] \notin first(k)
        BY <1>1, <2>1
    <2>4. IsFiniteSet(first(k)) /\ Cardinality(first(k)) = k
        BY <1>3
    <2> HIDE DEF first
    <2>5. IsFiniteSet(first(k + 1)) /\ Cardinality(first(k + 1)) = k + 1
        BY <2>2, <2>3, <2>4, FS_AddElement
    <2> QED
        BY <2>1, <2>5
<1>4. n \in Good
    <2> HIDE DEF Good
    <2>1. \A k \in 0 .. n : k \in Good
        BY <1>1, <1>2, <1>3, InductionUpTo
    <2> QED
        BY <1>1, <2>1
<1>5. ToSet(s) = first(n)
    BY <1>1 DEF ToSet
<1> QED
    BY <1>4, <1>5

=============================================================================
