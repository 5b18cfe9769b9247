---------------------------- MODULE SequenceFacts ----------------------------
(***************************************************************************)
(* Facts about natural numbers, recursive functions and sequences that the *)
(* proofs of several components need.  The library's induction theorems    *)
(* take an operator as a parameter; here a property is a set of numbers    *)
(* and a step of a recursion is a function.                                *)
(***************************************************************************)
EXTENDS Integers, Sequences, SequencesExt, WellFoundedInduction, TLAPS

\* Every set of natural numbers that is not empty has a least element.
LEMMA Least ==
    ASSUME NEW T \in SUBSET Nat, T # {}
    PROVE  \E m \in T : \A k \in T : m <= k
<1> DEFINE R == {ss \in Nat \X Nat : ss[1] < ss[2]}
<1>0. R = OpToRel(<, Nat)
  BY Zenon DEF OpToRel
<1>1. IsWellFoundedOn(R, Nat)
  BY <1>0, NatLessThanWellFounded
<1>2. \E m \in T : \A k \in T : ~(<<k, m>> \in R)
  <2> HIDE DEF R
  <2> QED BY <1>1, WFMin
<1>3. PICK m \in T : \A k \in T : ~(<<k, m>> \in R)
  BY <1>2
<1>4. ASSUME NEW k \in T
      PROVE  m <= k
  <2>1. <<k, m>> \in Nat \X Nat /\ <<k, m>>[1] = k /\ <<k, m>>[2] = m
    BY Zenon
  <2>2. ~(k < m)
    BY <1>3, <2>1, Zenon
  <2> QED
    BY <2>2
<1> QED
  BY <1>4

\* Induction: a set that has 0 and, with a number, the next one, has all numbers.
LEMMA Induction ==
    ASSUME NEW T \in SUBSET Nat, 0 \in T, \A k \in T : k + 1 \in T
    PROVE  T = Nat
<1> SUFFICES ASSUME T # Nat
             PROVE  FALSE
  OBVIOUS
<1> DEFINE U == Nat \ T
<1>1. U \in SUBSET Nat /\ U # {}
  OBVIOUS
<1>2. PICK m \in U : \A k \in U : m <= k
  <2> HIDE DEF U
  <2> QED
    BY <1>1, Least
<1>3. m # 0 /\ m - 1 \in Nat /\ m - 1 \notin U
  BY <1>2
<1> QED
  BY <1>2, <1>3

\* A function on 1..n is a sequence.
LEMMA FunctionIsSeq ==
    ASSUME NEW S, NEW n \in Nat, NEW f \in [1..n -> S]
    PROVE  f \in Seq(S) /\ Len(f) = n
OBVIOUS

LEMMA AppendIs ==
    ASSUME NEW S, NEW f \in Seq(S), NEW x \in S, NEW g \in [1..Len(f) + 1 -> S],
           g[Len(f) + 1] = x, \A k \in 1..Len(f) : g[k] = f[k]
    PROVE  g = Append(f, x)
<1>1. g \in Seq(S) /\ Len(g) = Len(f) + 1
  <2>1. Len(f) + 1 \in Nat
    OBVIOUS
  <2> QED
    BY <2>1, FunctionIsSeq
<1> QED
  BY <1>1

\* D[k] is the k-th of n steps of a recursion in S, and f what it computes from b.
Steps(D, n, S) == n \in Nat /\ D \in [1..n -> [S -> S]]
Computes(f, b, D, n, S) == f \in [0..n -> S] /\ f[0] = b /\ \A k \in 1..n : f[k] = D[k][f[k - 1]]

LEMMA Recursion ==
    ASSUME NEW S, NEW b \in S, NEW n, NEW D, Steps(D, n, S)
    PROVE  \E f : Computes(f, b, D, n, S)
<1> n \in Nat /\ D \in [1..n -> [S -> S]]
  BY DEF Steps
<1> DEFINE Good(f, m) == f \in [0..m -> S] /\ f[0] = b /\ \A k \in 1..m : f[k] = D[k][f[k - 1]]
           T == {m \in Nat : m <= n => \E f : Good(f, m)}
<1>1. 0 \in T
  <2>1. Good([k \in 0..0 |-> b], 0)
    OBVIOUS
  <2> QED
    BY <2>1
<1>2. ASSUME NEW m \in T
      PROVE  m + 1 \in T
  <2>0. m \in Nat /\ m + 1 \in Nat
    OBVIOUS
  <2>1. ASSUME m + 1 <= n
        PROVE  \E f : Good(f, m + 1)
    <3>1. PICK f : Good(f, m)
      BY <2>0, <2>1
    <3> DEFINE g == [k \in 0..m + 1 |-> IF k = m + 1 THEN D[m + 1][f[m]] ELSE f[k]]
    <3>2. m + 1 \in 1..n /\ f[m] \in S
      BY <2>0, <2>1, <3>1
    <3>3. D[m + 1][f[m]] \in S
      BY <3>2
    <3>4. g \in [0..m + 1 -> S] /\ g[0] = b
      BY <2>0, <3>1, <3>3
    <3>5. \A k \in 1..m + 1 : g[k] = D[k][g[k - 1]]
      BY <2>0, <3>1
    <3>6. Good(g, m + 1)
      BY <3>4, <3>5
    <3> QED
      BY <3>6
  <2> HIDE DEF Good
  <2> QED
    BY <2>0, <2>1
<1>3. T = Nat
  <2> HIDE DEF T
  <2>1. T \in SUBSET Nat
    BY DEF T
  <2> QED
    BY <1>1, <1>2, <2>1, Induction
<1>4. PICK f : Good(f, n)
  <2>1. n \in T /\ n <= n
    <3> HIDE DEF T
    <3> QED
      BY <1>3
  <2> HIDE DEF Good
  <2> QED
    BY <2>1
<1> QED
  BY <1>4, Zenon DEF Computes

-----------------------------------------------------------------------------
(***************************************************************************)
(* FlattenSeq.                                                             *)
(***************************************************************************)
\* c[k] is what the first k sequences come to, one after the other.
Joins(c, seqs, S) ==
    /\ c \in [0..Len(seqs) -> Seq(S)]
    /\ c[0] = <<>>
    /\ \A k \in 1..Len(seqs) : c[k] = c[k - 1] \o seqs[k]

LEMMA JoinsExist ==
    ASSUME NEW S, NEW seqs \in Seq(Seq(S))
    PROVE  \E c : Joins(c, seqs, S)
<1> DEFINE n == Len(seqs)
           D == [k \in 1..n |-> [s \in Seq(S) |-> s \o seqs[k]]]
<1>1. <<>> \in Seq(S)
  OBVIOUS
<1>2. Steps(D, n, Seq(S))
  BY DEF Steps
<1>3. PICK c : Computes(c, <<>>, D, n, Seq(S))
  <2> HIDE DEF D, n
  <2> QED
    BY <1>1, <1>2, Recursion, Zenon
<1>c. c \in [0..n -> Seq(S)] /\ c[0] = <<>> /\ \A k \in 1..n : c[k] = D[k][c[k - 1]]
  <2> HIDE DEF D, n
  <2> QED
    BY <1>3, Zenon DEF Computes
<1>4. \A k \in 1..n : k - 1 \in 0..n /\ c[k - 1] \in Seq(S)
  <2>1. n \in Nat
    OBVIOUS
  <2> HIDE DEF n, D
  <2>2. \A k \in 1..n : k - 1 \in 0..n
    BY <2>1
  <2>3. c \in [0..n -> Seq(S)]
    BY <1>c
  <2> QED
    BY <2>2, <2>3
<1>5. \A k \in 1..n : c[k] = c[k - 1] \o seqs[k]
  BY <1>4, <1>c, Zenon
<1> QED
  BY <1>c, <1>5, Zenon DEF Joins

LEMMA FlattenIs ==
    ASSUME NEW S, NEW seqs \in Seq(Seq(S)), NEW c, Joins(c, seqs, S)
    PROVE  FlattenSeq(seqs) = c[Len(seqs)]
<1> DEFINE n == Len(seqs)
           F(f) == f = [i \in 1..n |-> IF i = 1 THEN seqs[i] ELSE f[i - 1] \o seqs[i]]
<1>0. n \in Nat
  OBVIOUS
<1>t. c \in [0..n -> Seq(S)] /\ \A k \in 1..n : seqs[k] \in Seq(S)
  <2>1. c \in [0..n -> Seq(S)]
    BY Zenon DEF Joins
  <2> QED
    BY <2>1
<1>j. c[0] = <<>> /\ \A k \in 1..n : c[k] = c[k - 1] \o seqs[k]
  BY Zenon DEF Joins
<1>f. n # 0 => 1 \in 1..n /\ c[1] = seqs[1]
  <2> SUFFICES ASSUME n # 0
               PROVE  1 \in 1..n /\ c[1] = seqs[1]
    OBVIOUS
  <2>1. 1 \in 1..n /\ 1 - 1 = 0
    BY <1>0
  <2> HIDE DEF n
  <2>2. c[1] = c[1 - 1] \o seqs[1]
    BY <1>j, <2>1, Zenon
  <2>3. c[1] = <<>> \o seqs[1]
    BY <1>j, <2>1, <2>2, Zenon
  <2> QED
    BY <1>t, <2>1, <2>3
<1>1. CASE n = 0
  <2>1. FlattenSeq(seqs) = seqs /\ seqs = <<>>
    BY <1>1 DEF FlattenSeq
  <2> QED
    BY <1>j, <1>1, <2>1, Zenon
<1>2. CASE n # 0
  <2>1. FlattenSeq(seqs) = (CHOOSE f : F(f))[n]
    BY <1>2, Zenon DEF FlattenSeq
  <2> HIDE DEF n
  <2>2. F([i \in 1..n |-> c[i]])
    <3>1. \A i \in 1..n : i # 1 => i - 1 \in 1..n
      BY <1>0
    <3>2. \A i \in 1..n : c[i] = IF i = 1 THEN seqs[i] ELSE [k \in 1..n |-> c[k]][i - 1] \o seqs[i]
      BY <1>f, <1>j, <1>2, <3>1, Zenon
    <3> QED
      BY <3>2, Zenon
  <2>3. PICK f : F(f) /\ FlattenSeq(seqs) = f[n]
    <3> HIDE DEF F
    <3> QED
      BY <2>1, <2>2, Zenon
  <2>4. \A i \in 1..n : f[i] = IF i = 1 THEN seqs[i] ELSE f[i - 1] \o seqs[i]
    BY <2>3, Zenon
  <2> DEFINE T == {k \in Nat : k + 1 \in 1..n => f[k + 1] = c[k + 1]}
  <2>5. 0 \in T
    <3>1. f[1] = seqs[1]
      BY <1>f, <1>2, <2>4, Zenon
    <3> QED
      BY <1>f, <1>2, <3>1
  <2>6. ASSUME NEW k \in T
        PROVE  k + 1 \in T
    <3>0. k \in Nat /\ k + 1 \in Nat
      OBVIOUS
    <3>1. ASSUME k + 2 \in 1..n
          PROVE  f[k + 2] = c[k + 2]
      <4>1. k + 1 \in 1..n /\ (k + 2) - 1 = k + 1 /\ k + 2 # 1
        BY <1>0, <3>0, <3>1
      <4>2. f[k + 1] = c[k + 1]
        BY <4>1
      <4> HIDE DEF T
      <4>3. f[k + 2] = f[k + 1] \o seqs[k + 2]
        BY <2>4, <3>1, <4>1, Zenon
      <4>4. c[k + 2] = c[k + 1] \o seqs[k + 2]
        BY <1>j, <3>1, <4>1, Zenon
      <4> QED
        BY <4>2, <4>3, <4>4, Zenon
    <3>2. (k + 1) + 1 = k + 2
      BY <3>0
    <3> QED
      BY <3>0, <3>1, <3>2
  <2>7. T = Nat
    <3>1. T \in SUBSET Nat
      OBVIOUS
    <3> HIDE DEF T
    <3> QED
      BY <2>5, <2>6, <3>1, Induction
  <2>8. n - 1 \in Nat /\ (n - 1) + 1 = n /\ n \in 1..n
    BY <1>0, <1>2
  <2>9. f[n] = c[n]
    BY <2>7, <2>8
  <2> QED
    BY <2>3, <2>9 DEF n
<1> QED
  BY <1>1, <1>2

LEMMA FlattenEmpty == FlattenSeq(<<>>) = <<>>
BY DEF FlattenSeq

LEMMA FlattenTyped ==
    ASSUME NEW S, NEW seqs \in Seq(Seq(S))
    PROVE  FlattenSeq(seqs) \in Seq(S)
<1>1. PICK c : Joins(c, seqs, S)
  BY JoinsExist
<1>2. FlattenSeq(seqs) = c[Len(seqs)]
  BY <1>1, FlattenIs
<1> QED
  BY <1>1, <1>2 DEF Joins

LEMMA FlattenAppend ==
    ASSUME NEW S, NEW seqs \in Seq(Seq(S)), NEW s \in Seq(S)
    PROVE  FlattenSeq(Append(seqs, s)) = FlattenSeq(seqs) \o s
<1> DEFINE n == Len(seqs)
           more == Append(seqs, s)
<1>1. /\ more \in Seq(Seq(S)) /\ Len(more) = n + 1 /\ more[n + 1] = s /\ n \in Nat
      /\ \A k \in 1..n : more[k] = seqs[k]
  OBVIOUS
<1>2. PICK c : Joins(c, more, S)
  <2> HIDE DEF more
  <2> QED
    BY <1>1, JoinsExist
<1>3. FlattenSeq(more) = c[n + 1]
  <2> HIDE DEF more
  <2> QED
    BY <1>1, <1>2, FlattenIs
<1>t. c \in [0..n + 1 -> Seq(S)]
  <2> HIDE DEF more
  <2> QED
    BY <1>1, <1>2, Zenon DEF Joins
<1>j. c[0] = <<>> /\ \A k \in 1..n + 1 : c[k] = c[k - 1] \o more[k]
  <2> HIDE DEF more
  <2> QED
    BY <1>1, <1>2, Zenon DEF Joins
<1>a. n \in Nat
  OBVIOUS
<1>b. 0 \in 0..n /\ n \in 0..n /\ n + 1 \in 1..n + 1 /\ (n + 1) - 1 = n
      /\ \A k \in 1..n : k \in 1..n + 1 /\ k \in 0..n /\ k - 1 \in 0..n
  <2> HIDE DEF n
  <2> QED
    BY <1>a
<1>e. \A k \in 1..n : more[k] = seqs[k]
  OBVIOUS
<1> HIDE DEF more
<1>5. Joins([k \in 0..n |-> c[k]], seqs, S)
  <2> DEFINE d == [k \in 0..n |-> c[k]]
  <2>1. \A k \in 0..n : d[k] = c[k]
    BY Zenon
  <2>2. d \in [0..n -> Seq(S)]
    <3> HIDE DEF n
    <3> QED
      BY <1>a, <1>t
  <2> HIDE DEF d
  <2>3. \A k \in 1..n : d[k] = d[k - 1] \o seqs[k]
    BY <1>b, <1>e, <1>j, <2>1, Zenon
  <2>4. d[0] = <<>>
    BY <1>b, <1>j, <2>1, Zenon
  <2>5. Joins(d, seqs, S)
    BY <2>2, <2>3, <2>4, Zenon DEF Joins
  <2> QED
    BY <2>5 DEF d
<1>6. FlattenSeq(seqs) = c[n]
  <2>1. FlattenSeq(seqs) = [k \in 0..n |-> c[k]][n]
    BY <1>5, FlattenIs
  <2> QED
    BY <1>b, <2>1, Zenon
<1>7. c[n + 1] = c[n] \o s
  <2>1. more[n + 1] = s
    BY DEF more
  <2> QED
    BY <1>b, <1>j, <2>1, Zenon
<1> QED
  BY <1>3, <1>6, <1>7, Zenon DEF more

LEMMA FlattenOne ==
    ASSUME NEW S, NEW s \in Seq(S)
    PROVE  FlattenSeq(<<s>>) = s
<1>1. Append(<<>>, s) = <<s>> /\ <<>> \in Seq(Seq(S)) /\ <<>> \o s = s
  OBVIOUS
<1> QED
  BY <1>1, FlattenAppend, FlattenEmpty

LEMMA FlattenConcat ==
    ASSUME NEW S, NEW a \in Seq(Seq(S)), NEW b \in Seq(Seq(S))
    PROVE  FlattenSeq(a \o b) = FlattenSeq(a) \o FlattenSeq(b)
<1> DEFINE T == {n \in Nat : \A s \in Seq(Seq(S)) : Len(s) = n =>
                                FlattenSeq(a \o s) = FlattenSeq(a) \o FlattenSeq(s)}
<1>1. 0 \in T
  <2>1. ASSUME NEW s \in Seq(Seq(S)), Len(s) = 0
        PROVE  FlattenSeq(a \o s) = FlattenSeq(a) \o FlattenSeq(s)
    <3>1. s = <<>> /\ a \o s = a
      BY <2>1
    <3>2. FlattenSeq(a) \o <<>> = FlattenSeq(a)
      BY FlattenTyped
    <3> QED
      BY <3>1, <3>2, FlattenEmpty
  <2> QED
    BY <2>1
<1>2. ASSUME NEW n \in T
      PROVE  n + 1 \in T
  <2>0. n \in Nat /\ n + 1 \in Nat
    OBVIOUS
  <2>1. ASSUME NEW s \in Seq(Seq(S)), Len(s) = n + 1
        PROVE  FlattenSeq(a \o s) = FlattenSeq(a) \o FlattenSeq(s)
    <3> DEFINE f == SubSeq(s, 1, n)
               l == s[n + 1]
    <3>1. f \in Seq(Seq(S)) /\ Len(f) = n /\ l \in Seq(S) /\ s = Append(f, l)
      BY <2>0, <2>1
    <3>2. FlattenSeq(a \o f) = FlattenSeq(a) \o FlattenSeq(f)
      BY <3>1
    <3> HIDE DEF T, f, l
    <3>3. a \o s = Append(a \o f, l) /\ a \o f \in Seq(Seq(S))
      BY <3>1
    <3>4. FlattenSeq(a \o s) = FlattenSeq(a \o f) \o l
      BY <3>1, <3>3, FlattenAppend
    <3>5. FlattenSeq(s) = FlattenSeq(f) \o l
      BY <3>1, FlattenAppend
    <3>6. FlattenSeq(a) \in Seq(S) /\ FlattenSeq(f) \in Seq(S)
      BY <3>1, FlattenTyped
    <3>7. (FlattenSeq(a) \o FlattenSeq(f)) \o l = FlattenSeq(a) \o (FlattenSeq(f) \o l)
      BY <3>1, <3>6
    <3> QED
      BY <3>2, <3>4, <3>5, <3>7
  <2> QED
    BY <2>0, <2>1
<1>3. T = Nat
  <2>1. T \in SUBSET Nat
    OBVIOUS
  <2> HIDE DEF T
  <2> QED
    BY <1>1, <1>2, <2>1, Induction
<1>4. Len(b) \in T
  BY <1>3
<1> QED
  BY <1>4
=============================================================================
