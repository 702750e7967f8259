------------------------ MODULE TextNormalizerProofs ------------------------
(***************************************************************************)
(* Proofs about the text normalizer, for every text and any number of      *)
(* passes: what a pass returns is clean, a second pass changes nothing,    *)
(* and every number is spoken so that a listener hears it.                 *)
(*                                                                         *)
(* Texts are sequences of any length and numbers have no bound, so the     *)
(* proofs are inductions over data.  They go by the least position, or the *)
(* least number, where the claim would fail.                               *)
(***************************************************************************)
EXTENDS TextNormalizer, SequenceTheorems, WellFoundedInduction, TLAPS

-----------------------------------------------------------------------------
(***************************************************************************)
(* Induction.  The library states it with an operator for a parameter;     *)
(* the least of the numbers where a claim fails does as well.              *)
(***************************************************************************)

\* A set of numbers that is not empty has a least one.
LEMMA LeastNumber ==
    ASSUME NEW T \in SUBSET Nat, T # {}
    PROVE  \E n \in T : \A m \in T : n <= m
<1> DEFINE R == OpToRel(<, Nat)
<1>1. IsWellFoundedOn(R, Nat)
  BY NatLessThanWellFounded
<1>2. \A m, n \in Nat : m < n => <<m, n>> \in R
  BY DEF OpToRel
<1> HIDE DEF R
<1>3. PICK n \in T : \A m \in T : ~(<<m, n>> \in R)
  BY <1>1, WFMin
<1>4. ASSUME NEW m \in T
      PROVE  n <= m
  <2>1. m \in Nat /\ n \in Nat
    OBVIOUS
  <2>2. ~(m < n)
    BY <1>2, <1>3, <2>1
  <2> QED
    BY <2>1, <2>2
<1> QED
  BY <1>4

\* From each number to the next, up to n.
LEMMA AllUpTo ==
    ASSUME NEW n \in Nat, NEW T, 0 \in T, \A i \in 1..n : i - 1 \in T => i \in T
    PROVE  \A i \in 0..n : i \in T
<1> DEFINE B == {i \in 0..n : i \notin T}
<1>1. CASE B = {}
  BY <1>1
<1>2. CASE B # {}
  <2>1. B \in SUBSET Nat
    OBVIOUS
  <2>2. PICK m \in B : \A k \in B : m <= k
    BY <1>2, <2>1, LeastNumber
  <2>3. m \in 1..n /\ m - 1 \in 0..n
    OBVIOUS
  <2>4. m - 1 \notin B
    BY <2>2, <2>3
  <2> QED
    BY <2>3, <2>4
<1> QED
  BY <1>1, <1>2

\* Every number but zero leads back to a smaller one.
GoesBack(back) == \A n \in Nat \ {0} : back[n] < n

\* f is defined by recursion along back.
Follows(f, first, back, step) ==
    f[0] = first /\ \A n \in Nat \ {0} : f[n] = step[n][f[back[n]]]

\* A function may be defined by recursion to any smaller number.
LEMMA Recursion ==
    ASSUME NEW S, NEW first \in S,
           NEW back \in [Nat -> Nat], GoesBack(back),
           NEW step \in [Nat -> [S -> S]]
    PROVE  \E f \in [Nat -> S] : Follows(f, first, back, step)
<1> USE DEF GoesBack
<1> DEFINE Good(m, f) == /\ f \in [0..m -> S]
                         /\ f[0] = first
                         /\ \A i \in 1..m : f[i] = step[i][f[back[i]]]
           T == {m \in Nat : \E f \in [0..m -> S] : Good(m, f)}
<1>1. ASSUME NEW m \in Nat
      PROVE  \E f : Good(m, f)
  <2>1. 0 \in T
    <3>1. Good(0, [i \in 0..0 |-> first])
      OBVIOUS
    <3> HIDE DEF Good
    <3>2. [i \in 0..0 |-> first] \in [0..0 -> S]
      OBVIOUS
    <3> QED
      BY <3>1, <3>2
  <2>2. ASSUME NEW k \in 1..m, k - 1 \in T
        PROVE  k \in T
    <3>1. PICK f \in [0..(k - 1) -> S] : Good(k - 1, f)
      BY <2>2
    <3> DEFINE g == [i \in 0..k |-> IF i = k THEN step[k][f[back[k]]] ELSE f[i]]
    <3>2. back[k] \in 0..(k - 1)
      OBVIOUS
    <3>3. g \in [0..k -> S]
      BY <3>2
    <3>4. g[0] = first
      BY <3>1
    <3>5. ASSUME NEW i \in 1..k
          PROVE  g[i] = step[i][g[back[i]]]
      <4>1. back[i] \in 0..(i - 1)
        OBVIOUS
      <4>2. back[i] \in 0..k /\ back[i] # k
        BY <4>1
      <4>3. g[back[i]] = f[back[i]]
        BY <4>2
      <4>4. CASE i = k
        <5>1. i \in 0..k
          OBVIOUS
        <5>2. g[i] = step[k][f[back[k]]]
          BY <4>4, <5>1
        <5> QED
          BY <4>3, <4>4, <5>2
      <4>5. CASE i # k
        <5>1. i \in 1..(k - 1) /\ i \in 0..k
          BY <4>5
        <5>2. f[i] = step[i][f[back[i]]]
          BY <3>1, <5>1
        <5>3. g[i] = f[i]
          BY <4>5, <5>1
        <5> QED
          BY <4>3, <5>2, <5>3
      <4> QED
        BY <4>4, <4>5
    <3> HIDE DEF g
    <3>6. Good(k, g)
      BY <3>3, <3>4, <3>5
    <3> HIDE DEF Good
    <3> QED
      BY <3>3, <3>6
  <2> HIDE DEF T
  <2>3. \A i \in 0..m : i \in T
    BY <2>1, <2>2, AllUpTo
  <2>4. m \in T
    BY <2>3
  <2> QED
    BY <2>4 DEF T
<1>2. ASSUME NEW m \in Nat, NEW k \in 0..m, NEW f, NEW g, Good(m, f), Good(k, g)
      PROVE  f[k] = g[k]
  <2> DEFINE B == {i \in 0..k : f[i] # g[i]}
  <2>1. SUFFICES ASSUME B # {}
                 PROVE  FALSE
    OBVIOUS
  <2>2. PICK i \in B : \A j \in B : i <= j
    <3>1. B \in SUBSET Nat
      OBVIOUS
    <3> HIDE DEF B
    <3> QED
      BY <2>1, <3>1, LeastNumber
  <2>3. i # 0
    BY <1>2
  <2>4. back[i] \in 0..(i - 1) /\ i \in 1..k
    BY <2>3
  <2>5. f[back[i]] = g[back[i]]
    BY <2>2, <2>4
  <2>6. i \in 1..m /\ f[i] # g[i]
    BY <2>4
  <2>7. f[i] = step[i][f[back[i]]] /\ g[i] = step[i][g[back[i]]]
    BY <1>2, <2>4, <2>6
  <2> QED
    BY <2>5, <2>6, <2>7
<1> DEFINE F == [m \in Nat |-> CHOOSE f : Good(m, f)]
           h == [m \in Nat |-> F[m][m]]
<1>3. ASSUME NEW m \in Nat
      PROVE  Good(m, F[m])
  BY <1>1
<1> HIDE DEF F
<1>4. h[0] = first /\ h \in [Nat -> S]
  BY <1>3
<1>5. ASSUME NEW n \in Nat \ {0}
      PROVE  h[n] = step[n][h[back[n]]]
  <2>1. back[n] \in 0..(n - 1)
    OBVIOUS
  <2>2. Good(n, F[n]) /\ Good(back[n], F[back[n]])
    BY <1>3
  <2>3. F[n][back[n]] = F[back[n]][back[n]]
    <3> HIDE DEF Good
    <3> QED
      BY <1>2, <2>1, <2>2
  <2>4. h[n] = F[n][n] /\ h[back[n]] = F[back[n]][back[n]]
    BY <2>1
  <2>5. F[n][n] = step[n][F[n][back[n]]]
    <3>1. n \in 1..n
      OBVIOUS
    <3> QED
      BY <2>2, <3>1
  <2> QED
    BY <2>3, <2>4, <2>5
<1> HIDE DEF h
<1> QED
  BY <1>4, <1>5 DEF Follows

\* f is defined by recursion up to n.
FollowsUpTo(n, f, first, step) ==
    f[0] = first /\ \A i \in 1..n : f[i] = step[i][f[i - 1]]

\* A function on 0..n may be defined from each number to the next.
LEMMA RecursionUpTo ==
    ASSUME NEW n \in Nat, NEW S, NEW first \in S, NEW step \in [1..n -> [S -> S]]
    PROVE  \E f \in [0..n -> S] : FollowsUpTo(n, f, first, step)
<1> DEFINE back == [i \in Nat |-> IF i = 0 THEN 0 ELSE i - 1]
           all == [i \in Nat |-> [x \in S |-> IF i \in 1..n THEN step[i][x] ELSE first]]
<1>1. back \in [Nat -> Nat] /\ GoesBack(back)
  BY DEF GoesBack
<1>2. all \in [Nat -> [S -> S]]
  OBVIOUS
<1> HIDE DEF back, all
<1>3. PICK g \in [Nat -> S] : Follows(g, first, back, all)
  BY <1>1, <1>2, Recursion
<1> DEFINE f == [i \in 0..n |-> g[i]]
<1>4. f \in [0..n -> S] /\ f[0] = first
  BY <1>3 DEF Follows
<1>5. ASSUME NEW i \in 1..n
      PROVE  f[i] = step[i][f[i - 1]]
  <2>1. back[i] = i - 1 /\ i \in Nat \ {0} /\ i - 1 \in 0..n
    BY DEF back
  <2>2. g[i] = all[i][g[i - 1]]
    BY <1>3, <2>1 DEF Follows
  <2>3. i \in Nat /\ g[i - 1] \in S
    BY <2>1
  <2>4. all[i][g[i - 1]] = step[i][g[i - 1]]
    BY <2>3 DEF all
  <2> QED
    BY <2>1, <2>2, <2>4
<1> HIDE DEF f
<1> QED
  BY <1>4, <1>5 DEF FollowsUpTo

\* FlattenSeq concatenates from the left: its prefixes are these.
LEMMA FlattenPrefixes ==
    ASSUME NEW S, NEW p \in Seq(Seq(S))
    PROVE  \E f \in [0..Len(p) -> Seq(S)] :
              /\ f[0] = <<>>
              /\ \A i \in 1..Len(p) : f[i] = f[i - 1] \o p[i]
              /\ FlattenSeq(p) = f[Len(p)]
<1> DEFINE step == [i \in 1..Len(p) |-> [s \in Seq(S) |-> s \o p[i]]]
<1>1. step \in [1..Len(p) -> [Seq(S) -> Seq(S)]]
  OBVIOUS
<1>2. PICK f \in [0..Len(p) -> Seq(S)] : FollowsUpTo(Len(p), f, <<>>, step)
  <2>1. <<>> \in Seq(S) /\ Len(p) \in Nat
    OBVIOUS
  <2> HIDE DEF step
  <2> QED
    BY <1>1, <2>1, RecursionUpTo
<1>3. ASSUME NEW i \in 1..Len(p)
      PROVE  f[i] = f[i - 1] \o p[i]
  <2>1. f[i - 1] \in Seq(S)
    OBVIOUS
  <2> QED
    BY <1>2, <2>1 DEF FollowsUpTo
<1>a. f[0] = <<>>
  BY <1>2 DEF FollowsUpTo
<1>4. CASE Len(p) = 0
  <2>1. p = <<>>
    BY <1>4
  <2>2. FlattenSeq(p) = <<>>
    BY <2>1 DEF FlattenSeq
  <2> QED
    BY <1>a, <1>3, <1>4, <2>2
<1>5. CASE Len(p) # 0
  <2> DEFINE Equation(g) ==
          g = [i \in 1..Len(p) |-> IF i = 1 THEN p[i] ELSE g[i - 1] \o p[i]]
             h == [i \in 1..Len(p) |-> f[i]]
             c == CHOOSE g : Equation(g)
  <2>1. Equation(h)
    <3>1. ASSUME NEW i \in 1..Len(p)
          PROVE  h[i] = IF i = 1 THEN p[i] ELSE h[i - 1] \o p[i]
      <4>1. CASE i = 1
        <5>0. f[i] = f[i - 1] \o p[i]
          BY <1>3
        <5>3. i - 1 = 0
          BY <4>1
        <5>1. f[1] = <<>> \o p[1]
          BY <1>a, <4>1, <5>0, <5>3
        <5>2. p[1] \in Seq(S)
          BY <4>1
        <5> QED
          BY <4>1, <5>1, <5>2
      <4>2. CASE i # 1
        <5>1. i - 1 \in 1..Len(p)
          BY <4>2
        <5> QED
          BY <1>3, <4>2, <5>1
      <4> QED
        BY <4>1, <4>2
    <3> QED
      BY <3>1
  <2>2. Equation(c)
    <3> HIDE DEF Equation, h
    <3> QED
      BY <2>1
  <2>3. FlattenSeq(p) = c[Len(p)]
    BY <1>5 DEF FlattenSeq
  <2> HIDE DEF c
  <2>4. \A i \in 0..Len(p) : i = 0 \/ c[i] = f[i]
    <3> DEFINE T == {i \in 0..Len(p) : i = 0 \/ c[i] = f[i]}
    <3>1. ASSUME NEW i \in 1..Len(p), i - 1 \in T
          PROVE  i \in T
      <4>1. c[i] = IF i = 1 THEN p[i] ELSE c[i - 1] \o p[i]
        BY <2>2
      <4>2. h[i] = IF i = 1 THEN p[i] ELSE h[i - 1] \o p[i]
        BY <2>1
      <4>5. f[i] = f[i - 1] \o p[i]
        BY <1>3
      <4>3. CASE i = 1
        BY <4>1, <4>2, <4>3
      <4>4. CASE i # 1
        <5>1. c[i - 1] = f[i - 1]
          BY <3>1, <4>4
        <5>2. c[i] = c[i - 1] \o p[i]
          BY <4>1, <4>4
        <5>3. c[i] = f[i]
          BY <5>1, <5>2, <4>5
        <5> QED
          BY <5>3
      <4> QED
        BY <4>3, <4>4
    <3>2. 0 \in T
      OBVIOUS
    <3>3. \A i \in 0..Len(p) : i \in T
      <4>1. Len(p) \in Nat
        OBVIOUS
      <4> HIDE DEF T
      <4> QED
        BY <3>1, <3>2, <4>1, AllUpTo
    <3> QED
      BY <3>3
  <2>5. FlattenSeq(p) = f[Len(p)]
    BY <1>5, <2>3, <2>4
  <2> QED
    BY <1>a, <1>3, <2>5
<1> QED
  BY <1>4, <1>5

-----------------------------------------------------------------------------
(***************************************************************************)
(* Concatenations of a sequence of sequences.                              *)
(***************************************************************************)

\* Concatenation, as a name that the provers need not open.
Cat(s, t) == s \o t

\* Concatenation of sequences over S.
LEMMA CatType ==
    ASSUME NEW S, NEW s \in Seq(S), NEW t \in Seq(S)
    PROVE  Cat(s, t) \in Seq(S) /\ Cat(s, <<>>) = s /\ Cat(<<>>, s) = s
  BY ConcatProperties, ConcatEmptySeq DEF Cat

\* Concatenation is associative.
LEMMA CatAssociative ==
    ASSUME NEW S, NEW s \in Seq(S), NEW t \in Seq(S), NEW u \in Seq(S)
    PROVE  Cat(Cat(s, t), u) = Cat(s, Cat(t, u))
  BY ConcatAssociative DEF Cat

\* Cited as a function: the lemmas below name the prefixes of a concatenation.
PrefixesOf(p, S, f) ==
    /\ f[0] = <<>>
    /\ \A i \in 0..Len(p) : f[i] \in Seq(S)
    /\ \A i \in 1..Len(p) : f[i] = Cat(f[i - 1], p[i])
    /\ FlattenSeq(p) = f[Len(p)]

\* Every sequence of sequences has its prefixes.
LEMMA FlattenSteps ==
    ASSUME NEW S, NEW p \in Seq(Seq(S))
    PROVE  \E f : PrefixesOf(p, S, f)
<1>1. PICK f \in [0..Len(p) -> Seq(S)] :
              /\ f[0] = <<>>
              /\ \A i \in 1..Len(p) : f[i] = f[i - 1] \o p[i]
              /\ FlattenSeq(p) = f[Len(p)]
  BY FlattenPrefixes
<1>2. PrefixesOf(p, S, f)
  BY <1>1 DEF PrefixesOf, Cat
<1> QED
  BY <1>2

\* Each prefix is the one before and the next part.
LEMMA PrefixGrows ==
    ASSUME NEW S, NEW p \in Seq(Seq(S)), NEW f, PrefixesOf(p, S, f), NEW i \in 1..Len(p)
    PROVE  /\ f[i - 1] \in Seq(S) /\ p[i] \in Seq(S) /\ f[i] \in Seq(S)
           /\ f[i] = Cat(f[i - 1], p[i])
<1>1. i - 1 \in 0..Len(p) /\ i \in 0..Len(p)
  OBVIOUS
<1>2. f[i - 1] \in Seq(S) /\ f[i] \in Seq(S)
  BY <1>1 DEF PrefixesOf
<1>3. f[i] = Cat(f[i - 1], p[i])
  BY DEF PrefixesOf
<1> QED
  BY <1>2, <1>3

\* A concatenation of sequences over S is one.
LEMMA FlattenType ==
    ASSUME NEW S, NEW p \in Seq(Seq(S))
    PROVE  FlattenSeq(p) \in Seq(S)
<1>1. PICK f : PrefixesOf(p, S, f)
  BY FlattenSteps
<1>2. Len(p) \in 0..Len(p)
  OBVIOUS
<1> QED
  BY <1>1, <1>2 DEF PrefixesOf

\* Nothing concatenated is nothing.
LEMMA FlattenEmpty == FlattenSeq(<<>>) = <<>>
  BY DEF FlattenSeq

\* A sequence is the concatenation of its elements.
LEMMA FlattenSingletons ==
    ASSUME NEW S, NEW s \in Seq(S)
    PROVE  FlattenSeq([i \in 1..Len(s) |-> <<s[i]>>]) = s
<1> DEFINE p == [i \in 1..Len(s) |-> <<s[i]>>]
<1>1. p \in Seq(Seq(S)) /\ Len(p) = Len(s) /\ \A i \in 1..Len(s) : p[i] = <<s[i]>>
  OBVIOUS
<1> HIDE DEF p
<1>2. PICK f : PrefixesOf(p, S, f)
  BY <1>1, FlattenSteps
<1> DEFINE T == {i \in 0..Len(s) : Len(f[i]) = i /\ \A k \in 1..i : f[i][k] = s[k]}
<1>3. 0 \in T
  BY <1>2 DEF PrefixesOf
<1>4. ASSUME NEW i \in 1..Len(s), i - 1 \in T
      PROVE  i \in T
  <2>1. f[i] = f[i - 1] \o <<s[i]>>
    BY <1>1, <1>2 DEF PrefixesOf, Cat
  <2>2. f[i - 1] \in Seq(S) /\ s[i] \in S
    <3>1. i \in 1..Len(p)
      BY <1>1
    <3>2. f[i - 1] \in Seq(S)
      BY <1>1, <1>2, <3>1, PrefixGrows
    <3>3. s[i] \in S
      OBVIOUS
    <3> QED
      BY <3>2, <3>3
  <2>3. Len(f[i - 1]) = i - 1
    BY <1>4
  <2>4. Len(f[i]) = i
    BY <2>1, <2>2, <2>3
  <2>5. ASSUME NEW k \in 1..i
        PROVE  f[i][k] = s[k]
    <3>1. CASE k = i
      BY <2>1, <2>2, <2>3, <3>1
    <3>2. CASE k # i
      <4>1. k \in 1..(i - 1)
        BY <3>2
      <4>2. f[i][k] = f[i - 1][k]
        BY <2>1, <2>2, <2>3, <4>1
      <4> QED
        BY <1>4, <4>1, <4>2
    <3> QED
      BY <3>1, <3>2
  <2> QED
    BY <2>4, <2>5
<1>5. \A i \in 0..Len(s) : i \in T
  <2>1. Len(s) \in Nat
    OBVIOUS
  <2> HIDE DEF T
  <2> QED
    BY <1>3, <1>4, <2>1, AllUpTo
<1>6. Len(f[Len(s)]) = Len(s) /\ \A k \in 1..Len(s) : f[Len(s)][k] = s[k]
  BY <1>5
<1>7. f[Len(s)] \in Seq(S)
  BY <1>1, <1>2 DEF PrefixesOf
<1>8. f[Len(s)] = s
  BY <1>6, <1>7
<1> QED
  BY <1>1, <1>2, <1>8 DEF PrefixesOf, p

\* Parts may be concatenated in two heaps.
LEMMA FlattenConcat ==
    ASSUME NEW S, NEW p \in Seq(Seq(S)), NEW q \in Seq(Seq(S))
    PROVE  FlattenSeq(Cat(p, q)) = Cat(FlattenSeq(p), FlattenSeq(q))
<1> DEFINE r == Cat(p, q)
<1>1. /\ r \in Seq(Seq(S)) /\ Len(r) = Len(p) + Len(q)
      /\ \A i \in 1..Len(p) : r[i] = p[i]
      /\ \A i \in 1..Len(q) : r[Len(p) + i] = q[i]
      /\ Len(p) \in Nat /\ Len(q) \in Nat
  BY DEF Cat
<1> HIDE DEF r
<1>2. PICK f : PrefixesOf(r, S, f)
  BY <1>1, FlattenSteps
<1>3. PICK g : PrefixesOf(p, S, g)
  BY FlattenSteps
<1>4. PICK h : PrefixesOf(q, S, h)
  BY FlattenSteps
<1>5. f[Len(p)] = g[Len(p)]
  <2> DEFINE T == {i \in 0..Len(p) : f[i] = g[i]}
  <2>1. 0 \in T
    BY <1>2, <1>3 DEF PrefixesOf
  <2>2. ASSUME NEW i \in 1..Len(p), i - 1 \in T
        PROVE  i \in T
    <3>0. i \in 1..Len(r) /\ r[i] = p[i]
      BY <1>1
    <3>a. f[i] = Cat(f[i - 1], r[i])
      BY <1>1, <1>2, <3>0, PrefixGrows
    <3>1. f[i] = Cat(f[i - 1], p[i])
      BY <3>0, <3>a
    <3>2. g[i] = Cat(g[i - 1], p[i])
      BY <1>3 DEF PrefixesOf
    <3>3. f[i - 1] = g[i - 1]
      BY <2>2
    <3>4. f[i] = g[i]
      BY <3>1, <3>2, <3>3
    <3> QED
      BY <3>4
  <2>3. \A i \in 0..Len(p) : i \in T
    <3> HIDE DEF T
    <3> QED
      BY <1>1, <2>1, <2>2, AllUpTo
  <2> QED
    BY <1>1, <2>3
<1> DEFINE k == [i \in 0..Len(q) |-> f[Len(p) + i]]
<1>6. k[0] = g[Len(p)] /\ k[Len(q)] = f[Len(r)]
  BY <1>1, <1>5
<1>7. ASSUME NEW i \in 1..Len(q)
      PROVE  k[i] = Cat(k[i - 1], q[i])
  <2>1. /\ Len(p) + i \in 1..Len(r) /\ (Len(p) + i) - 1 = Len(p) + (i - 1)
        /\ i \in 0..Len(q) /\ i - 1 \in 0..Len(q)
    <3>1. Len(p) \in Nat /\ Len(q) \in Nat /\ Len(r) = Len(p) + Len(q) /\ i \in 1..Len(q)
      BY <1>1
    <3> QED
      BY <3>1
  <2>2. f[Len(p) + i] = Cat(f[(Len(p) + i) - 1], r[Len(p) + i])
    BY <1>1, <1>2, <2>1, PrefixGrows
  <2>3. k[i] = f[Len(p) + i] /\ k[i - 1] = f[(Len(p) + i) - 1]
    BY <2>1
  <2> HIDE DEF k
  <2> QED
    BY <1>1, <2>2, <2>3
<1> HIDE DEF k
<1> DEFINE m == [i \in 0..Len(q) |-> Cat(g[Len(p)], h[i])]
<1>8. k[Len(q)] = m[Len(q)]
  <2> DEFINE T == {i \in 0..Len(q) : k[i] = m[i]}
  <2>1. g[Len(p)] \in Seq(S)
    <3>1. Len(p) \in 0..Len(p)
      BY <1>1
    <3> QED
      BY <1>3, <3>1 DEF PrefixesOf
  <2>2. k[0] = m[0]
    <3>1. h[0] = <<>>
      BY <1>4 DEF PrefixesOf
    <3>2. 0 \in 0..Len(q)
      BY <1>1
    <3>3. m[0] = Cat(g[Len(p)], <<>>)
      BY <3>1, <3>2, Zenon
    <3> QED
      BY <1>6, <2>1, <3>3, CatType
  <2>3. ASSUME NEW i \in 1..Len(q), k[i - 1] = m[i - 1]
        PROVE  k[i] = m[i]
    <3>1. h[i] = Cat(h[i - 1], q[i]) /\ h[i - 1] \in Seq(S) /\ q[i] \in Seq(S)
      BY <1>4, PrefixGrows
    <3>2. Cat(Cat(g[Len(p)], h[i - 1]), q[i]) = Cat(g[Len(p)], Cat(h[i - 1], q[i]))
      BY <2>1, <3>1, CatAssociative
    <3>3. m[i - 1] = Cat(g[Len(p)], h[i - 1]) /\ m[i] = Cat(g[Len(p)], h[i])
      <4>1. i - 1 \in 0..Len(q) /\ i \in 0..Len(q)
        BY <1>1
      <4> QED
        BY <4>1
    <3>4. k[i] = Cat(k[i - 1], q[i])
      BY <1>7
    <3> HIDE DEF m
    <3> QED
      BY <2>3, <3>1, <3>2, <3>3, <3>4
  <2> HIDE DEF m
  <2>4. 0 \in T /\ \A i \in 1..Len(q) : i - 1 \in T => i \in T
    BY <1>1, <2>2, <2>3
  <2>5. \A i \in 0..Len(q) : i \in T
    <3> HIDE DEF T
    <3> QED
      BY <1>1, <2>4, AllUpTo
  <2> QED
    BY <1>1, <2>5
<1>a. m[Len(q)] = Cat(g[Len(p)], h[Len(q)])
  <2>1. Len(q) \in 0..Len(q)
    BY <1>1
  <2> QED
    BY <2>1, Zenon
<1> HIDE DEF m
<1>9. FlattenSeq(r) = Cat(FlattenSeq(p), FlattenSeq(q))
  BY <1>2, <1>3, <1>4, <1>6, <1>8, <1>a DEF PrefixesOf
<1> QED
  BY <1>9 DEF r

-----------------------------------------------------------------------------
(***************************************************************************)
(* Replacing each element of a sequence by a sequence.                     *)
(***************************************************************************)

\* One part is its own concatenation.
LEMMA FlattenOne ==
    ASSUME NEW S, NEW s \in Seq(S)
    PROVE  FlattenSeq(<<s>>) = s
<1> DEFINE p == <<s>>
<1>1. p \in Seq(Seq(S)) /\ Len(p) = 1 /\ p[1] = s
  OBVIOUS
<1> HIDE DEF p
<1>2. PICK f : PrefixesOf(p, S, f)
  BY <1>1, FlattenSteps
<1>3. \A i \in 1..Len(p) : f[i] = Cat(f[i - 1], p[i])
  BY <1>1, <1>2 DEF PrefixesOf
<1>4. f[0] = <<>> /\ FlattenSeq(p) = f[1]
  BY <1>1, <1>2 DEF PrefixesOf
<1>5. ASSUME NEW i \in 1..Len(p)
      PROVE  f[i] = Cat(<<>>, s)
  <2>1. i = 1 /\ i - 1 = 0
    BY <1>1
  <2>2. f[i] = Cat(f[i - 1], p[i])
    BY <1>3
  <2> QED
    BY <1>1, <1>4, <2>1, <2>2
<1>6. Cat(<<>>, s) = s
  BY CatType
<1> QED
  BY <1>1, <1>4, <1>5, <1>6 DEF p

\* Each element of t replaced by what e has for it.
Spread(e, t) == FlattenSeq([i \in 1..Len(t) |-> e[t[i]]])

\* What replaces the elements is over R, and so is the result.
LEMMA SpreadParts ==
    ASSUME NEW S, NEW R, NEW e \in [S -> Seq(R)], NEW t \in Seq(S)
    PROVE  /\ [i \in 1..Len(t) |-> e[t[i]]] \in Seq(Seq(R))
           /\ Spread(e, t) \in Seq(R)
<1>1. [i \in 1..Len(t) |-> e[t[i]]] \in Seq(Seq(R))
  OBVIOUS
<1> QED
  BY <1>1, FlattenType DEF Spread

\* Nothing to replace.
LEMMA SpreadEmpty == ASSUME NEW e PROVE Spread(e, <<>>) = <<>>
<1>1. [i \in 1..Len(<<>>) |-> e[<<>>[i]]] = <<>>
  OBVIOUS
<1> QED
  BY <1>1, FlattenEmpty DEF Spread

\* One element to replace.
LEMMA SpreadOne ==
    ASSUME NEW S, NEW R, NEW e \in [S -> Seq(R)], NEW c \in S
    PROVE  Spread(e, <<c>>) = e[c]
<1>1. [i \in 1..Len(<<c>>) |-> e[<<c>>[i]]] = <<e[c]>>
  OBVIOUS
<1>2. FlattenSeq(<<e[c]>>) = e[c]
  BY FlattenOne
<1> QED
  BY <1>1, <1>2 DEF Spread

\* Replacing before or after a concatenation is the same.
LEMMA SpreadConcat ==
    ASSUME NEW S, NEW R, NEW e \in [S -> Seq(R)], NEW s \in Seq(S), NEW t \in Seq(S)
    PROVE  Spread(e, Cat(s, t)) = Cat(Spread(e, s), Spread(e, t))
<1> DEFINE u == s \o t
           p == [i \in 1..Len(s) |-> e[s[i]]]
           q == [i \in 1..Len(t) |-> e[t[i]]]
           r == [i \in 1..Len(u) |-> e[u[i]]]
<1>1. p \in Seq(Seq(R)) /\ q \in Seq(Seq(R))
  BY SpreadParts
<1>2. /\ u \in Seq(S) /\ Len(u) = Len(s) + Len(t)
      /\ \A i \in 1..Len(u) : u[i] = IF i <= Len(s) THEN s[i] ELSE t[i - Len(s)]
  BY ConcatProperties
<1> HIDE DEF u
<1>3. r \in Seq(Seq(R)) /\ Len(r) = Len(u)
  BY <1>2
<1>4. /\ p \o q \in Seq(Seq(R)) /\ Len(p \o q) = Len(p) + Len(q)
      /\ \A i \in 1..Len(p) + Len(q) :
            (p \o q)[i] = IF i <= Len(p) THEN p[i] ELSE q[i - Len(p)]
  <2> HIDE DEF p, q
  <2> QED
    BY <1>1, ConcatProperties
<1>5. Len(p) = Len(s) /\ Len(q) = Len(t) /\ Len(s) \in Nat /\ Len(t) \in Nat
  OBVIOUS
<1>6. ASSUME NEW i \in 1..Len(u)
      PROVE  r[i] = (p \o q)[i]
  <2>1. r[i] = e[u[i]]
    OBVIOUS
  <2>2. (p \o q)[i] = IF i <= Len(s) THEN p[i] ELSE q[i - Len(s)]
    BY <1>2, <1>4, <1>5
  <2>3. CASE i <= Len(s)
    <3>1. i \in 1..Len(s)
      BY <1>5, <2>3
    <3>2. u[i] = s[i] /\ p[i] = e[s[i]]
      BY <1>2, <2>3, <3>1
    <3> QED
      BY <2>1, <2>2, <2>3, <3>2
  <2>4. CASE ~(i <= Len(s))
    <3>1. i - Len(s) \in 1..Len(t)
      BY <1>2, <1>5, <2>4
    <3>2. u[i] = t[i - Len(s)]
      BY <1>2, <2>4
    <3>3. q[i - Len(s)] = e[t[i - Len(s)]]
      BY <3>1
    <3> QED
      BY <2>1, <2>2, <2>4, <3>2, <3>3
  <2> QED
    BY <2>3, <2>4
<1>7. r = p \o q
  <2> HIDE DEF p, q, r
  <2>1. Len(r) = Len(p \o q)
    BY <1>2, <1>3, <1>4, <1>5
  <2> QED
    BY <1>3, <1>4, <1>6, <2>1, SeqEqual
<1>8. FlattenSeq(r) = Cat(FlattenSeq(p), FlattenSeq(q))
  <2> HIDE DEF p, q, r
  <2>1. r = Cat(p, q)
    BY <1>7 DEF Cat
  <2> QED
    BY <1>1, <2>1, FlattenConcat
<1>9. u = Cat(s, t)
  BY DEF u, Cat
<1> QED
  BY <1>8, <1>9 DEF Spread

\* e has a sequence over R for every element of S.
Spreads(e, S, R) == e \in [S -> Seq(R)]

\* The same, with the function's type in an operator.
LEMMA SpreadJoined ==
    ASSUME NEW S, NEW R, NEW e, Spreads(e, S, R), NEW s \in Seq(S), NEW t \in Seq(S)
    PROVE  Spread(e, Cat(s, t)) = Cat(Spread(e, s), Spread(e, t))
  BY SpreadConcat DEF Spreads

\* Replacing before or after the concatenation of many is the same.
LEMMA SpreadFlatten ==
    ASSUME NEW S, NEW R, NEW e \in [S -> Seq(R)], NEW p \in Seq(Seq(S))
    PROVE  Spread(e, FlattenSeq(p)) = FlattenSeq([i \in 1..Len(p) |-> Spread(e, p[i])])
<1> DEFINE q == [i \in 1..Len(p) |-> Spread(e, p[i])]
<1>0. Len(p) \in Nat
  OBVIOUS
<1>9. Spreads(e, S, R)
  BY DEF Spreads
<1>1. q \in Seq(Seq(R)) /\ Len(q) = Len(p)
  <2>1. \A i \in 1..Len(p) : Spread(e, p[i]) \in Seq(R)
    BY SpreadParts
  <2> QED
    BY <2>1
<1>2. PICK f : PrefixesOf(p, S, f)
  BY FlattenSteps
<1>3. PICK g : PrefixesOf(q, R, g)
  <2> HIDE DEF q
  <2> QED
    BY <1>1, FlattenSteps
<1> DEFINE m == [i \in 0..Len(p) |-> Spread(e, f[i])]
<1>4. m[0] = g[0]
  <2>1. m[0] = Spread(e, f[0])
    BY <1>0
  <2>2. f[0] = <<>> /\ g[0] = <<>>
    BY <1>2, <1>3 DEF PrefixesOf
  <2> QED
    BY <2>1, <2>2, SpreadEmpty
<1>5. ASSUME NEW i \in 1..Len(p), m[i - 1] = g[i - 1]
      PROVE  m[i] = g[i]
  <2>1. f[i] = Cat(f[i - 1], p[i]) /\ f[i - 1] \in Seq(S) /\ p[i] \in Seq(S)
    BY <1>2, PrefixGrows
  <2>2. Spread(e, Cat(f[i - 1], p[i])) = Cat(Spread(e, f[i - 1]), Spread(e, p[i]))
    BY <2>1, <1>9, SpreadJoined
  <2>3. i \in 1..Len(q)
    BY <1>1
  <2>4. g[i] = Cat(g[i - 1], q[i])
    BY <1>1, <1>3, <2>3, PrefixGrows
  <2>5. q[i] = Spread(e, p[i])
    OBVIOUS
  <2>6. m[i] = Spread(e, f[i]) /\ m[i - 1] = Spread(e, f[i - 1])
    <3>1. i \in 0..Len(p) /\ i - 1 \in 0..Len(p)
      BY <1>0
    <3> QED
      BY <3>1
  <2> HIDE DEF m, q
  <2> QED
    BY <1>5, <2>1, <2>2, <2>4, <2>5, <2>6
<1>6. m[Len(p)] = g[Len(p)]
  <2> HIDE DEF m
  <2> DEFINE T == {i \in 0..Len(p) : m[i] = g[i]}
  <2>1. 0 \in T /\ \A i \in 1..Len(p) : i - 1 \in T => i \in T
    BY <1>0, <1>4, <1>5
  <2>2. \A i \in 0..Len(p) : i \in T
    <3> HIDE DEF T
    <3> QED
      BY <1>0, <2>1, AllUpTo
  <2> QED
    BY <1>0, <2>2
<1>7. m[Len(p)] = Spread(e, FlattenSeq(p))
  <2>1. Len(p) \in 0..Len(p) /\ FlattenSeq(p) = f[Len(p)]
    BY <1>0, <1>2 DEF PrefixesOf
  <2> QED
    BY <2>1
<1>8. g[Len(p)] = FlattenSeq(q)
  BY <1>1, <1>3 DEF PrefixesOf
<1> QED
  BY <1>6, <1>7, <1>8

-----------------------------------------------------------------------------
(***************************************************************************)
(* Spelling: the words of a number (NumberToWords).                        *)
(***************************************************************************)

\* The units are the numbers below a hundred.
LEMMA Units == \A n \in Nat : n \in Unit <=> n <= 99
  BY DEF Unit

\* The four groups of a number below a crore.
LEMMA Digits ==
    ASSUME NEW n \in Nat, n < Crore
    PROVE  /\ n \div Lakh \in Unit
           /\ (n % Lakh) \div Thousand \in Unit
           /\ (n % Thousand) \div Hundred \in Unit
           /\ n % Hundred \in Unit
           /\ n = (n \div Lakh) * Lakh + ((n % Lakh) \div Thousand) * Thousand
                     + ((n % Thousand) \div Hundred) * Hundred + (n % Hundred)
<1>1. n \div Lakh \in Nat /\ n \div Lakh <= 99
  BY SMT DEF Crore, Lakh
<1>2. (n % Lakh) \div Thousand \in Nat /\ (n % Lakh) \div Thousand <= 99
  BY SMT DEF Lakh, Thousand
<1>3. (n % Thousand) \div Hundred \in Nat /\ (n % Thousand) \div Hundred <= 99
  BY SMT DEF Thousand, Hundred
<1>4. n % Hundred \in Nat /\ n % Hundred <= 99
  BY SMT DEF Hundred
<1>5. n = (n \div Lakh) * Lakh + ((n % Lakh) \div Thousand) * Thousand
            + ((n % Thousand) \div Hundred) * Hundred + (n % Hundred)
  BY SMT DEF Lakh, Thousand, Hundred
<1> QED
  BY <1>1, <1>2, <1>3, <1>4, <1>5, Units

\* The crores of a number are fewer than the number.
LEMMA Crores ==
    ASSUME NEW n \in Nat
    PROVE  /\ n \div Crore \in Nat /\ n % Crore \in Nat /\ n % Crore < Crore
           /\ n # 0 => n \div Crore < n
           /\ n = (n \div Crore) * Crore + (n % Crore)
<1>1. n \div Crore \in Nat /\ n % Crore \in Nat /\ n % Crore < Crore
  BY SMT DEF Crore
<1>2. n # 0 => n \div Crore < n
  BY SMT DEF Crore
<1>3. n = (n \div Crore) * Crore + (n % Crore)
  BY SMT DEF Crore
<1> QED
  BY <1>1, <1>2, <1>3

\* The scales are numbers, each above the one before.
LEMMA ScaleNumbers ==
    /\ Hundred \in Nat /\ Thousand \in Nat /\ Lakh \in Nat /\ Crore \in Nat
    /\ 99 < Hundred /\ Hundred < Thousand /\ Thousand < Lakh /\ Lakh < Crore
  BY SMT DEF Hundred, Thousand, Lakh, Crore

\* Each group of a number is spelled in words of the tables.
LEMMA PartWords ==
    /\ \A c \in Unit, s \in Scale : Part(c, s) \in Seq(Word)
    /\ \A c \in Unit : Rest(c) \in Seq(Word)
    /\ Lakh \in Scale /\ Thousand \in Scale /\ Hundred \in Scale
<1>1. ASSUME NEW c \in Unit, NEW s \in Scale
      PROVE  Part(c, s) \in Seq(Word)
  <2>1. c \in Word /\ s \in Word
    BY DEF Word
  <2> QED
    BY <2>1 DEF Part
<1>2. ASSUME NEW c \in Unit
      PROVE  Rest(c) \in Seq(Word)
  <2>1. c \in Word
    BY DEF Word
  <2> QED
    BY <2>1 DEF Rest
<1>3. Lakh \in Scale /\ Thousand \in Scale /\ Hundred \in Scale
  BY DEF Scale
<1> QED
  BY <1>1, <1>2, <1>3

\* A number below a crore is spelled in words of the tables.
LEMMA BelowCroreWords ==
    ASSUME NEW n \in Nat, n < Crore
    PROVE  BelowCrore(n) \in Seq(Word)
<1>1. /\ Part(n \div Lakh, Lakh) \in Seq(Word)
      /\ Part((n % Lakh) \div Thousand, Thousand) \in Seq(Word)
      /\ Part((n % Thousand) \div Hundred, Hundred) \in Seq(Word)
      /\ Rest(n % Hundred) \in Seq(Word)
  BY PartWords, Digits
<1> QED
  BY <1>1 DEF BelowCrore

\* The recursive function has a value at every number.
LEMMA WordsDefined ==
    /\ Words \in [Nat -> Seq(Word)]
    /\ Words[0] = <<0>>
    /\ \A n \in Nat \ {0} :
          Words[n] = (IF n \div Crore > 0 THEN Words[n \div Crore] \o <<Crore>> ELSE <<>>)
                        \o BelowCrore(n % Crore)
<1> DEFINE Spelled(n, w) == (IF n \div Crore > 0 THEN w \o <<Crore>> ELSE <<>>)
                               \o BelowCrore(n % Crore)
           back == [n \in Nat |-> n \div Crore]
           step == [n \in Nat |-> [w \in Seq(Word) |-> Spelled(n, w)]]
<1>1. back \in [Nat -> Nat] /\ GoesBack(back)
  BY Crores DEF GoesBack
<1>2. ASSUME NEW n \in Nat, NEW w \in Seq(Word)
      PROVE  Spelled(n, w) \in Seq(Word)
  <2>1. n % Crore \in Nat /\ n % Crore < Crore
    BY Crores
  <2>2. BelowCrore(n % Crore) \in Seq(Word)
    BY <2>1, BelowCroreWords
  <2>3. Crore \in Word
    BY DEF Word, Scale
  <2> QED
    BY <2>2, <2>3
<1>3. step \in [Nat -> [Seq(Word) -> Seq(Word)]]
  <2> HIDE DEF Spelled
  <2> QED
    BY <1>2
<1>4. <<0>> \in Seq(Word)
  BY DEF Word, Unit
<1>5. PICK f \in [Nat -> Seq(Word)] : Follows(f, <<0>>, back, step)
  <2> HIDE DEF back, step
  <2> QED
    BY <1>1, <1>3, <1>4, Recursion
<1> DEFINE Equation(g) == g = [n \in Nat |-> IF n = 0 THEN <<0>> ELSE Spelled(n, g[n \div Crore])]
<1>6. ASSUME NEW n \in Nat \ {0}
      PROVE  f[n] = Spelled(n, f[n \div Crore])
  <2>1. n \div Crore \in Nat /\ back[n] = n \div Crore
    BY Crores
  <2>2. f[n] = step[n][f[back[n]]]
    BY <1>5 DEF Follows
  <2>3. f[n \div Crore] \in Seq(Word)
    BY <2>1
  <2> HIDE DEF Spelled
  <2> QED
    BY <2>1, <2>2, <2>3
<1>7. Equation(f)
  <2>1. f[0] = <<0>>
    BY <1>5 DEF Follows
  <2> HIDE DEF Spelled
  <2> QED
    BY <1>6, <2>1
<1>8. Words = CHOOSE g : Equation(g)
  BY DEF Words
<1>9. Equation(Words)
  <2> HIDE DEF Equation
  <2> QED
    BY <1>7, <1>8
<1>10. /\ Words[0] = <<0>>
       /\ \A n \in Nat \ {0} : Words[n] = Spelled(n, Words[n \div Crore])
  <2> HIDE DEF Spelled
  <2> QED
    BY <1>9
<1>11. Words \in [Nat -> Seq(Word)]
  <2> DEFINE B == {n \in Nat : Words[n] \notin Seq(Word)}
  <2>1. ASSUME B # {}
        PROVE  FALSE
    <3>1. PICK n \in B : \A m \in B : n <= m
      <4>1. B \in SUBSET Nat
        OBVIOUS
      <4> HIDE DEF B
      <4> QED
        BY <2>1, <4>1, LeastNumber
    <3>2. n # 0
      BY <1>4, <1>10
    <3>3. n \div Crore \in Nat /\ n \div Crore < n
      BY <3>2, Crores
    <3>4. Words[n \div Crore] \in Seq(Word)
      BY <3>1, <3>3
    <3>5. Words[n] \in Seq(Word)
      <4> HIDE DEF Spelled
      <4> QED
        BY <1>2, <1>10, <3>2, <3>4
    <3> QED
      BY <3>5
  <2>2. Words = [n \in Nat |-> Words[n]]
    BY <1>9
  <2> QED
    BY <2>1, <2>2
<1> QED
  BY <1>10, <1>11

-----------------------------------------------------------------------------
(***************************************************************************)
(* Listening: the number that words say.                                   *)
(***************************************************************************)

\* What a listener has: the closed groups, and the open one.
Heard == [total : Nat, group : Nat]

\* A unit is added to its group.
LEMMA ListenUnit ==
    ASSUME NEW s \in Heard, NEW w \in Unit
    PROVE  Listen(s, w) = [total |-> s.total, group |-> s.group + w]
<1>1. w # Hundred /\ w # Crore
  <2>1. w \in Nat /\ w <= 99
    BY DEF Unit
  <2> QED
    BY <2>1, ScaleNumbers
<1>2. Listen(s, w) = [s EXCEPT !.group = s.group + w]
  BY <1>1, Zenon DEF Listen
<1> QED
  BY <1>2 DEF Heard

\* A hundred multiplies its group, the other scales close it.
LEMMA ListenScale ==
    ASSUME NEW s \in Heard
    PROVE  /\ Listen(s, Hundred) = [total |-> s.total, group |-> s.group * Hundred]
           /\ Listen(s, Crore) = [total |-> (s.total + s.group) * Crore, group |-> 0]
           /\ \A w \in {Thousand, Lakh} :
                 Listen(s, w) = [total |-> s.total + s.group * w, group |-> 0]
<1>1. /\ Hundred \notin Unit /\ Thousand \notin Unit /\ Lakh \notin Unit /\ Crore \notin Unit
      /\ Hundred # Crore /\ Thousand # Crore /\ Lakh # Crore
      /\ Thousand # Hundred /\ Lakh # Hundred
  BY ScaleNumbers, Units
<1>2. Listen(s, Hundred) = [total |-> s.total, group |-> s.group * Hundred]
  <2>1. Listen(s, Hundred) = [s EXCEPT !.group = s.group * Hundred]
    BY <1>1, Zenon DEF Listen
  <2> QED
    BY <2>1 DEF Heard
<1>3. Listen(s, Crore) = [total |-> (s.total + s.group) * Crore, group |-> 0]
  BY <1>1, Zenon DEF Listen
<1>4. ASSUME NEW w \in {Thousand, Lakh}
      PROVE  Listen(s, w) = [total |-> s.total + s.group * w, group |-> 0]
  <2>1. w \notin Unit /\ w # Hundred /\ w # Crore
    BY <1>1
  <2> QED
    BY <2>1, Zenon DEF Listen
<1> QED
  BY <1>2, <1>3, <1>4

\* What was heard stays a pair of numbers.
LEMMA ListenType ==
    ASSUME NEW s \in Heard, NEW w \in Word
    PROVE  Listen(s, w) \in Heard
<1>1. s.total \in Nat /\ s.group \in Nat
  BY DEF Heard
<1>2. CASE w \in Unit
  <2>1. w \in Nat
    BY <1>2 DEF Unit
  <2> QED
    BY <1>1, <1>2, <2>1, ListenUnit DEF Heard
<1>3. CASE w = Hundred
  <2>1. s.group * Hundred \in Nat
    BY <1>1, SMT DEF Hundred
  <2> QED
    BY <1>1, <1>3, <2>1, ListenScale DEF Heard
<1>4. CASE w = Crore
  <2>1. (s.total + s.group) * Crore \in Nat
    BY <1>1, SMT DEF Crore
  <2> QED
    BY <1>1, <1>4, <2>1, ListenScale DEF Heard
<1>5. CASE w \in {Thousand, Lakh}
  <2>1. s.total + s.group * Thousand \in Nat /\ s.total + s.group * Lakh \in Nat
    BY <1>1, SMT DEF Thousand, Lakh
  <2> QED
    BY <1>1, <1>5, <2>1, ListenScale DEF Heard
<1> QED
  BY <1>2, <1>3, <1>4, <1>5 DEF Word, Scale

\* h is what is heard after each word, from s on.
HearsFrom(words, s, h) ==
    /\ h[0] = s
    /\ \A i \in 0..Len(words) : h[i] \in Heard
    /\ \A i \in 1..Len(words) : h[i] = Listen(h[i - 1], words[i])
    /\ After(s, words) = h[Len(words)]

\* Listening goes word by word.
LEMMA AfterSteps ==
    ASSUME NEW s \in Heard, NEW words \in Seq(Word)
    PROVE  \E h : HearsFrom(words, s, h)
<1> DEFINE n == Len(words)
           step == [i \in 1..n |-> [x \in Heard |-> Listen(x, words[i])]]
<1>0. n \in Nat
  OBVIOUS
<1>1. step \in [1..n -> [Heard -> Heard]]
  BY ListenType
<1>2. PICK h \in [0..n -> Heard] : FollowsUpTo(n, h, s, step)
  <2> HIDE DEF step, n
  <2> QED
    BY <1>0, <1>1, RecursionUpTo
<1>3. h[0] = s
  BY <1>2 DEF FollowsUpTo
<1>4. ASSUME NEW i \in 1..n
      PROVE  h[i] = Listen(h[i - 1], words[i])
  <2>1. h[i] = step[i][h[i - 1]]
    BY <1>2 DEF FollowsUpTo
  <2>2. i - 1 \in 0..n
    OBVIOUS
  <2>3. h[i - 1] \in Heard
    BY <1>2, <2>2
  <2> QED
    BY <2>1, <2>3
<1> DEFINE Equation(g) == g = [i \in 0..n |-> IF i = 0 THEN s ELSE Listen(g[i - 1], words[i])]
<1>5. Equation(h)
  <2>1. ASSUME NEW i \in 0..n
        PROVE  h[i] = IF i = 0 THEN s ELSE Listen(h[i - 1], words[i])
    <3>1. CASE i = 0
      BY <1>3, <3>1
    <3>2. CASE i # 0
      <4>1. i \in 1..n
        BY <3>2
      <4> QED
        BY <1>4, <3>2, <4>1
    <3> QED
      BY <3>1, <3>2
  <2> QED
    BY <2>1
<1> DEFINE c == CHOOSE g : Equation(g)
<1>6. After(s, words) = c[n]
  BY DEF After
<1>7. Equation(c)
  <2> HIDE DEF Equation
  <2> QED
    BY <1>5
<1>8. c[n] = h[n]
  <2> DEFINE T == {i \in 0..n : c[i] = h[i]}
  <2>1. \A i \in 0..n : c[i] = IF i = 0 THEN s ELSE Listen(c[i - 1], words[i])
    <3> HIDE DEF c
    <3> QED
      BY <1>7
  <2> HIDE DEF c
  <2>2. 0 \in T
    BY <1>0, <1>3, <2>1
  <2>3. ASSUME NEW i \in 1..n, i - 1 \in T
        PROVE  i \in T
    <3>1. c[i] = Listen(c[i - 1], words[i])
      BY <2>1
    <3>2. c[i - 1] = h[i - 1]
      BY <2>3
    <3>3. c[i] = h[i]
      BY <1>4, <3>1, <3>2
    <3> QED
      BY <3>3
  <2>4. \A i \in 0..n : i \in T
    <3> HIDE DEF T, n
    <3> QED
      BY <1>0, <2>2, <2>3, AllUpTo
  <2> QED
    BY <1>0, <2>4
<1>9. HearsFrom(words, s, h)
  BY <1>2, <1>3, <1>4, <1>6, <1>8 DEF HearsFrom
<1> QED
  BY <1>9

\* Listening leaves a pair of numbers.
LEMMA AfterType ==
    ASSUME NEW s \in Heard, NEW words \in Seq(Word)
    PROVE  After(s, words) \in Heard
<1>1. PICK h : HearsFrom(words, s, h)
  BY AfterSteps
<1>2. Len(words) \in 0..Len(words)
  OBVIOUS
<1> QED
  BY <1>1, <1>2 DEF HearsFrom

\* Silence changes nothing.
LEMMA AfterNothing ==
    ASSUME NEW s \in Heard
    PROVE  After(s, <<>>) = s
<1>1. <<>> \in Seq(Word) /\ Len(<<>>) = 0
  OBVIOUS
<1>2. PICK h : HearsFrom(<<>>, s, h)
  BY <1>1, AfterSteps
<1> QED
  BY <1>1, <1>2 DEF HearsFrom

\* A phrase may be heard in two halves.
LEMMA AfterConcat ==
    ASSUME NEW s \in Heard, NEW a \in Seq(Word), NEW b \in Seq(Word)
    PROVE  After(s, Cat(a, b)) = After(After(s, a), b)
<1> DEFINE r == Cat(a, b)
<1>1. /\ r \in Seq(Word) /\ Len(r) = Len(a) + Len(b)
      /\ \A i \in 1..Len(a) : r[i] = a[i]
      /\ \A i \in 1..Len(b) : r[Len(a) + i] = b[i]
      /\ Len(a) \in Nat /\ Len(b) \in Nat
  BY DEF Cat
<1> HIDE DEF r
<1>2. PICK f : HearsFrom(r, s, f)
  BY <1>1, AfterSteps
<1>3. PICK g : HearsFrom(a, s, g)
  BY AfterSteps
<1>4. PICK h : HearsFrom(b, After(s, a), h)
  BY AfterType, AfterSteps
<1>5. f[Len(a)] = g[Len(a)]
  <2> DEFINE T == {i \in 0..Len(a) : f[i] = g[i]}
  <2>1. 0 \in T
    BY <1>1, <1>2, <1>3 DEF HearsFrom
  <2>2. ASSUME NEW i \in 1..Len(a), i - 1 \in T
        PROVE  i \in T
    <3>1. i \in 1..Len(r) /\ r[i] = a[i]
      BY <1>1
    <3>2. f[i] = Listen(f[i - 1], r[i])
      BY <1>2, <3>1 DEF HearsFrom
    <3>3. g[i] = Listen(g[i - 1], a[i])
      BY <1>3 DEF HearsFrom
    <3>4. f[i] = g[i]
      BY <2>2, <3>1, <3>2, <3>3
    <3> QED
      BY <3>4
  <2>3. \A i \in 0..Len(a) : i \in T
    <3> HIDE DEF T
    <3> QED
      BY <1>1, <2>1, <2>2, AllUpTo
  <2> QED
    BY <1>1, <2>3
<1> DEFINE k == [i \in 0..Len(b) |-> f[Len(a) + i]]
<1>6. k[0] = After(s, a) /\ k[Len(b)] = f[Len(r)]
  <2>1. After(s, a) = g[Len(a)]
    BY <1>3 DEF HearsFrom
  <2> QED
    BY <1>1, <1>5, <2>1
<1>7. ASSUME NEW i \in 1..Len(b)
      PROVE  k[i] = Listen(k[i - 1], b[i])
  <2>1. /\ Len(a) + i \in 1..Len(r) /\ (Len(a) + i) - 1 = Len(a) + (i - 1)
        /\ i \in 0..Len(b) /\ i - 1 \in 0..Len(b)
    <3>1. Len(a) \in Nat /\ Len(b) \in Nat /\ Len(r) = Len(a) + Len(b) /\ i \in 1..Len(b)
      BY <1>1
    <3> QED
      BY <3>1
  <2>2. f[Len(a) + i] = Listen(f[(Len(a) + i) - 1], r[Len(a) + i])
    BY <1>2, <2>1 DEF HearsFrom
  <2>3. k[i] = f[Len(a) + i] /\ k[i - 1] = f[(Len(a) + i) - 1]
    BY <2>1
  <2> HIDE DEF k
  <2> QED
    BY <1>1, <2>2, <2>3
<1> HIDE DEF k
<1>8. k[Len(b)] = h[Len(b)]
  <2> DEFINE T == {i \in 0..Len(b) : k[i] = h[i]}
  <2>1. 0 \in T
    BY <1>1, <1>4, <1>6 DEF HearsFrom
  <2>2. ASSUME NEW i \in 1..Len(b), i - 1 \in T
        PROVE  i \in T
    <3>1. h[i] = Listen(h[i - 1], b[i])
      BY <1>4 DEF HearsFrom
    <3>2. k[i] = Listen(k[i - 1], b[i])
      BY <1>7
    <3>3. k[i] = h[i]
      BY <2>2, <3>1, <3>2
    <3> QED
      BY <3>3
  <2>3. \A i \in 0..Len(b) : i \in T
    <3> HIDE DEF T
    <3> QED
      BY <1>1, <2>1, <2>2, AllUpTo
  <2> QED
    BY <1>1, <2>3
<1>9. After(s, r) = After(After(s, a), b)
  BY <1>2, <1>4, <1>6, <1>8 DEF HearsFrom
<1> QED
  BY <1>9 DEF r

\* One word.
LEMMA AfterOne ==
    ASSUME NEW s \in Heard, NEW w \in Word
    PROVE  After(s, <<w>>) = Listen(s, w)
<1> DEFINE p == <<w>>
<1>1. p \in Seq(Word) /\ Len(p) = 1 /\ p[1] = w
  OBVIOUS
<1> HIDE DEF p
<1>2. PICK h : HearsFrom(p, s, h)
  BY <1>1, AfterSteps
<1>3. ASSUME NEW i \in 1..Len(p)
      PROVE  h[i] = Listen(s, w)
  <2>1. i = 1 /\ i - 1 = 0
    BY <1>1
  <2>2. h[i] = Listen(h[i - 1], p[i]) /\ h[0] = s
    BY <1>2 DEF HearsFrom
  <2> QED
    BY <1>1, <2>1, <2>2
<1>4. After(s, p) = h[Len(p)] /\ Len(p) \in 1..Len(p)
  BY <1>1, <1>2 DEF HearsFrom
<1> QED
  BY <1>3, <1>4 DEF p

\* A group with its scale.
LEMMA AfterPart ==
    ASSUME NEW s \in Heard, s.group = 0, NEW c \in Unit
    PROVE  /\ \A w \in {Thousand, Lakh} :
                 After(s, Part(c, w)) = [total |-> s.total + c * w, group |-> 0]
           /\ After(s, Part(c, Hundred)) = [total |-> s.total, group |-> c * Hundred]
<1>1. c \in Nat /\ c \in Word /\ {Thousand, Lakh, Hundred} \subseteq Word
  BY DEF Unit, Word, Scale
<1>2. CASE c = 0
  <2>1. \A w : Part(c, w) = <<>>
    BY <1>2 DEF Part
  <2>2. s = [total |-> s.total, group |-> 0] /\ s.total \in Nat
    BY DEF Heard
  <2>3. \A w \in {Thousand, Lakh} : s.total + c * w = s.total
    BY <1>2, <2>2, ScaleNumbers
  <2>4. c * Hundred = 0
    BY <1>2, ScaleNumbers
  <2> QED
    BY <2>1, <2>2, <2>3, <2>4, AfterNothing
<1>3. CASE c # 0
  <2> DEFINE t == [total |-> s.total, group |-> c]
  <2>1. t \in Heard /\ t.total = s.total /\ t.group = c
    BY <1>1 DEF Heard
  <2>2. After(s, <<c>>) = t
    <3>1. Listen(s, c) = [total |-> s.total, group |-> s.group + c]
      BY ListenUnit
    <3>2. s.group + c = c
      BY <1>1
    <3> QED
      BY <1>1, <3>1, <3>2, AfterOne
  <2> HIDE DEF t
  <2>3. ASSUME NEW w \in {Thousand, Lakh, Hundred}
        PROVE  After(s, Part(c, w)) = Listen(t, w)
    <3>1. Part(c, w) = Cat(<<c>>, <<w>>)
      BY <1>1, <1>3 DEF Part, Cat
    <3>2. <<c>> \in Seq(Word) /\ <<w>> \in Seq(Word)
      BY <1>1
    <3>3. After(s, Cat(<<c>>, <<w>>)) = After(t, <<w>>)
      BY <2>2, <3>2, AfterConcat
    <3>4. After(t, <<w>>) = Listen(t, w)
      BY <1>1, <2>1, AfterOne
    <3> QED
      BY <3>1, <3>3, <3>4
  <2>4. /\ Listen(t, Hundred) = [total |-> s.total, group |-> c * Hundred]
        /\ \A w \in {Thousand, Lakh} :
              Listen(t, w) = [total |-> s.total + c * w, group |-> 0]
    BY <2>1, ListenScale
  <2> QED
    BY <2>3, <2>4
<1> QED
  BY <1>2, <1>3

\* What is left below a hundred.
LEMMA AfterRest ==
    ASSUME NEW s \in Heard, NEW c \in Unit
    PROVE  After(s, Rest(c)) = [total |-> s.total, group |-> s.group + c]
<1>1. c \in Nat /\ c \in Word
  BY DEF Unit, Word
<1>2. s = [total |-> s.total, group |-> s.group] /\ s.group \in Nat
  BY DEF Heard
<1>3. CASE c = 0
  BY <1>2, <1>3, AfterNothing DEF Rest
<1>4. CASE c # 0
  <2>1. Rest(c) = <<c>>
    BY <1>1, <1>4 DEF Rest
  <2> QED
    BY <1>1, <2>1, AfterOne, ListenUnit
<1> QED
  BY <1>3, <1>4

\* The words of a number below a crore add that number.
LEMMA AfterBelowCrore ==
    ASSUME NEW s \in Heard, s.group = 0, NEW n \in Nat, n < Crore
    PROVE  After(s, BelowCrore(n)).total + After(s, BelowCrore(n)).group = s.total + n
<1> DEFINE lakhs == n \div Lakh
           thousands == (n % Lakh) \div Thousand
           hundreds == (n % Thousand) \div Hundred
           rest == n % Hundred
           p == Part(lakhs, Lakh)
           q == Part(thousands, Thousand)
           r == Part(hundreds, Hundred)
           u == Rest(rest)
<1>1. /\ lakhs \in Unit /\ thousands \in Unit /\ hundreds \in Unit /\ rest \in Unit
      /\ n = lakhs * Lakh + thousands * Thousand + hundreds * Hundred + rest
  BY Digits
<1>2. BelowCrore(n) = ((p \o q) \o r) \o u
  BY DEF BelowCrore
<1> HIDE DEF lakhs, thousands, hundreds, rest
<1>3. p \in Seq(Word) /\ q \in Seq(Word) /\ r \in Seq(Word) /\ u \in Seq(Word)
  BY <1>1, PartWords
<1>4. BelowCrore(n) = Cat(Cat(Cat(p, q), r), u)
  BY <1>2 DEF Cat
<1> HIDE DEF p, q, r, u
<1>5. Cat(p, q) \in Seq(Word) /\ Cat(Cat(p, q), r) \in Seq(Word)
  BY <1>3, CatType
<1>6. After(s, BelowCrore(n)) = After(After(After(After(s, p), q), r), u)
  BY <1>3, <1>4, <1>5, AfterConcat, AfterType
<1> DEFINE s1 == [total |-> s.total + lakhs * Lakh, group |-> 0]
           s2 == [total |-> s1.total + thousands * Thousand, group |-> 0]
           s3 == [total |-> s2.total, group |-> hundreds * Hundred]
           s4 == [total |-> s3.total, group |-> s3.group + rest]
<1>7. After(s, p) = s1 /\ s1 \in Heard
  <2>1. After(s, p) = s1
    BY <1>1, AfterPart DEF p
  <2> QED
    BY <1>3, <2>1, AfterType
<1>8. After(s1, q) = s2 /\ s2 \in Heard
  <2>1. After(s1, q) = s2
    BY <1>1, <1>7, AfterPart DEF q
  <2> QED
    BY <1>3, <1>7, <2>1, AfterType
<1>9. After(s2, r) = s3 /\ s3 \in Heard
  <2>1. After(s2, r) = s3
    BY <1>1, <1>8, AfterPart DEF r
  <2> QED
    BY <1>3, <1>8, <2>1, AfterType
<1>10. After(s3, u) = s4
  BY <1>1, <1>9, AfterRest DEF u
<1>11. After(s, BelowCrore(n)) = s4
  BY <1>6, <1>7, <1>8, <1>9, <1>10
<1>12. s4.total + s4.group
          = ((s.total + lakhs * Lakh) + thousands * Thousand) + (hundreds * Hundred + rest)
  OBVIOUS
<1>13. ((s.total + lakhs * Lakh) + thousands * Thousand) + (hundreds * Hundred + rest)
          = s.total + n
  <2>1. /\ lakhs \in Nat /\ thousands \in Nat /\ hundreds \in Nat /\ rest \in Nat
        /\ s.total \in Nat
    BY <1>1 DEF Unit, Heard
  <2> QED
    BY <1>1, <2>1, SMT DEF Lakh, Thousand, Hundred
<1> HIDE DEF s4
<1> QED
  BY <1>11, <1>12, <1>13

\* Every number is heard as it was written, whatever its size: words_from_number
\* loses no group, no crore and no zero (normalizer.py, expand_digits).
THEOREM NumbersHeard == \A n \in Nat : Hear(Words[n]) = n
<1> DEFINE silence == [total |-> 0, group |-> 0]
           B == {n \in Nat : Hear(Words[n]) # n}
<1>1. silence \in Heard /\ silence.group = 0 /\ silence.total = 0
  BY DEF Heard
<1>2. ASSUME NEW w
      PROVE  Hear(w) = After(silence, w).total + After(silence, w).group
  BY DEF Hear
<1> HIDE DEF silence
<1>3. ASSUME B # {}
      PROVE  FALSE
  <2>1. PICK n \in B : \A m \in B : n <= m
    <3>1. B \in SUBSET Nat
      OBVIOUS
    <3> HIDE DEF B
    <3> QED
      BY <1>3, <3>1, LeastNumber
  <2>2. n \in Nat /\ Hear(Words[n]) # n
    OBVIOUS
  <2>3. n = 0 => Hear(Words[n]) = n
    <3>1. 0 \in Unit /\ 0 \in Word
      BY DEF Unit, Word
    <3>2. After(silence, <<0>>) = [total |-> 0, group |-> 0]
      BY <1>1, <3>1, AfterOne, ListenUnit
    <3>3. Hear(<<0>>) = 0
      BY <1>2, <3>2
    <3> QED
      BY <3>3, WordsDefined
  <2> DEFINE c == n \div Crore
             r == n % Crore
  <2>4. c \in Nat /\ r \in Nat /\ r < Crore /\ c < n /\ n = c * Crore + r
    BY <2>2, <2>3, Crores
  <2>5. Words[n] = (IF c > 0 THEN Words[c] \o <<Crore>> ELSE <<>>) \o BelowCrore(r)
    BY <2>2, <2>3, WordsDefined
  <2> HIDE DEF c, r
  <2>6. BelowCrore(r) \in Seq(Word) /\ Words[c] \in Seq(Word)
    BY <2>4, BelowCroreWords, WordsDefined
  <2>7. Hear(Words[c]) = c
    BY <2>1, <2>4
  <2>8. CASE c > 0
    <3> DEFINE p == Words[c]
               t == After(silence, p)
               s == [total |-> c * Crore, group |-> 0]
    <3>1. t \in Heard /\ t.total + t.group = c
      BY <1>1, <1>2, <2>6, <2>7, AfterType
    <3>2. Crore \in Word
      BY DEF Word, Scale
    <3>3. Words[n] = Cat(Cat(p, <<Crore>>), BelowCrore(r))
      BY <2>5, <2>8 DEF Cat
    <3> HIDE DEF p
    <3>4. p \in Seq(Word) /\ <<Crore>> \in Seq(Word)
      BY <2>6, <3>2 DEF p
    <3>5. Cat(p, <<Crore>>) \in Seq(Word)
      BY <3>4, CatType
    <3>6. After(silence, Words[n]) = After(After(t, <<Crore>>), BelowCrore(r))
      <4>1. After(silence, Cat(p, <<Crore>>)) = After(t, <<Crore>>)
        BY <1>1, <3>4, AfterConcat
      <4> HIDE DEF t
      <4>2. After(silence, Words[n]) = After(After(silence, Cat(p, <<Crore>>)), BelowCrore(r))
        BY <1>1, <2>6, <3>3, <3>5, AfterConcat
      <4> QED
        BY <4>1, <4>2
    <3> HIDE DEF t
    <3>7. After(t, <<Crore>>) = s
      BY <3>1, <3>2, AfterOne, ListenScale
    <3>8. s \in Heard /\ s.group = 0 /\ s.total = c * Crore
      <4>1. s \in Heard
        BY <3>1, <3>4, <3>7, AfterType
      <4> QED
        BY <4>1
    <3> HIDE DEF s
    <3>9. After(s, BelowCrore(r)).total + After(s, BelowCrore(r)).group = s.total + r
      BY <2>4, <3>8, AfterBelowCrore
    <3>10. Hear(Words[n]) = n
      BY <1>2, <2>4, <3>6, <3>7, <3>8, <3>9
    <3> QED
      BY <2>2, <3>10
  <2>9. CASE ~(c > 0)
    <3>1. c = 0
      BY <2>4, <2>9
    <3>2. n = r
      BY <2>4, <3>1, ScaleNumbers
    <3>3. Words[n] = Cat(<<>>, BelowCrore(r))
      BY <2>5, <2>9 DEF Cat
    <3>4. Words[n] = BelowCrore(r)
      BY <2>6, <3>3, CatType
    <3>5. After(silence, BelowCrore(r)).total + After(silence, BelowCrore(r)).group
             = silence.total + r
      BY <1>1, <2>4, AfterBelowCrore
    <3>6. Hear(Words[n]) = n
      BY <1>1, <1>2, <2>4, <3>2, <3>4, <3>5
    <3> QED
      BY <2>2, <3>6
  <2> QED
    BY <2>8, <2>9
<1> QED
  BY <1>3

-----------------------------------------------------------------------------
(***************************************************************************)
(* Texts, their characters and their words.                                *)
(***************************************************************************)

\* What a text is made of, before and after the numbers are spoken.
Character == RawCharacter \cup {Spoken(w) : w \in Word}

\* The kinds of characters do not mix.
LEMMA CharacterFacts ==
    ASSUME NEW c \in Character
    PROVE  /\ c.kind \in Kinds /\ c.n \in Nat
           /\ c.kind = "space" => c = Char("space")
           /\ c.kind = "word" => c.n \in Word /\ c \notin RawCharacter
<1>1. Word \subseteq Nat
  BY ScaleNumbers DEF Word, Unit, Scale
<1>2. CASE c \in RawCharacter
  BY <1>2 DEF RawCharacter, Char, Digit, Kinds
<1>3. CASE c \in {Spoken(w) : w \in Word}
  BY <1>1, <1>3 DEF Spoken, Kinds, RawCharacter, Char, Digit
<1> QED
  BY <1>2, <1>3 DEF Character

\* A space and a spoken word are characters, not digits.
LEMMA SpaceAndWords ==
    /\ Char("space") \in Character
    /\ \A w \in Word : Spoken(w) \in Character
    /\ \A w : Spoken(w).kind = "word" /\ Spoken(w).n = w /\ ~IsDigit(Spoken(w))
    /\ Char("space").kind = "space" /\ ~IsDigit(Char("space"))
<1>1. Char("space") \in RawCharacter
  BY DEF RawCharacter, Char, Kinds
<1>2. \A w \in Word : Spoken(w) \in Character
  BY DEF Character
<1>3. \A w : Spoken(w).kind = "word" /\ Spoken(w).n = w /\ ~IsDigit(Spoken(w))
  BY DEF Spoken, IsDigit
<1>4. Char("space").kind = "space" /\ ~IsDigit(Char("space"))
  BY DEF Char, IsDigit
<1> QED
  BY <1>1, <1>2, <1>3, <1>4 DEF Character

\* The parts of which Keep is the concatenation.
Parts(t, kept) == [i \in 1..Len(t) |-> IF i \in kept THEN <<t[i]>> ELSE <<>>]

\* What is kept of each position.
LEMMA PartsType ==
    ASSUME NEW C, NEW t \in Seq(C), NEW S, NEW kept,
           \A i \in 1..Len(t) : i \in kept => t[i] \in S
    PROVE  /\ Parts(t, kept) \in Seq(Seq(S)) /\ Len(Parts(t, kept)) = Len(t)
           /\ \A i \in 1..Len(t) :
                 Parts(t, kept)[i] = IF i \in kept THEN <<t[i]>> ELSE <<>>
<1>1. ASSUME NEW i \in 1..Len(t)
      PROVE  (IF i \in kept THEN <<t[i]>> ELSE <<>>) \in Seq(S)
  <2>1. CASE i \in kept
    <3>1. t[i] \in S
      BY <2>1
    <3> QED
      BY <2>1, <3>1
  <2>2. CASE i \notin kept
    BY <2>2
  <2> QED
    BY <2>1, <2>2
<1> QED
  BY <1>1 DEF Parts

\* What is kept is over any set that holds it.
LEMMA KeepType ==
    ASSUME NEW C, NEW t \in Seq(C), NEW S, NEW kept,
           \A i \in 1..Len(t) : i \in kept => t[i] \in S
    PROVE  Keep(t, kept) \in Seq(S)
<1>1. Parts(t, kept) \in Seq(Seq(S))
  BY PartsType
<1>2. Keep(t, kept) = FlattenSeq(Parts(t, kept))
  BY DEF Keep, Parts
<1> QED
  BY <1>1, <1>2, FlattenType

\* Keeping every position keeps the text.
LEMMA KeepAll ==
    ASSUME NEW S, NEW t \in Seq(S), NEW kept, 1..Len(t) \subseteq kept
    PROVE  Keep(t, kept) = t
<1>1. [i \in 1..Len(t) |-> IF i \in kept THEN <<t[i]>> ELSE <<>>]
        = [i \in 1..Len(t) |-> <<t[i]>>]
  OBVIOUS
<1> QED
  BY <1>1, FlattenSingletons DEF Keep

\* The word of a character.
WordOf == [c \in Character |-> IF c.kind = "word" THEN <<c.n>> ELSE <<>>]

\* A character has at most one word, of the tables.
LEMMA WordOfType == WordOf \in [Character -> Seq(Word)]
<1>1. ASSUME NEW c \in Character
      PROVE  (IF c.kind = "word" THEN <<c.n>> ELSE <<>>) \in Seq(Word)
  <2>1. CASE c.kind = "word"
    BY <2>1, CharacterFacts
  <2>2. CASE c.kind # "word"
    BY <2>2
  <2> QED
    BY <2>1, <2>2
<1> QED
  BY <1>1 DEF WordOf

\* The words of a text are those of its characters.
LEMMA WordsInSpread ==
    ASSUME NEW t \in Seq(Character)
    PROVE  WordsIn(t) = Spread(WordOf, t) /\ WordsIn(t) \in Seq(Word)
<1>1. [i \in 1..Len(t) |-> IF t[i].kind = "word" THEN <<t[i].n>> ELSE <<>>]
        = [i \in 1..Len(t) |-> WordOf[t[i]]]
  <2>1. \A i \in 1..Len(t) : t[i] \in Character
    OBVIOUS
  <2> QED
    BY <2>1 DEF WordOf
<1>2. WordsIn(t) = Spread(WordOf, t)
  BY <1>1 DEF WordsIn, Spread
<1> QED
  BY <1>2, WordOfType, SpreadParts

\* The words of a concatenation are those of its parts.
LEMMA WordsInFlatten ==
    ASSUME NEW p \in Seq(Seq(Character))
    PROVE  WordsIn(FlattenSeq(p)) = FlattenSeq([i \in 1..Len(p) |-> WordsIn(p[i])])
<1>1. \A i \in 1..Len(p) : p[i] \in Seq(Character)
  OBVIOUS
<1>2. \A i \in 1..Len(p) : WordsIn(p[i]) = Spread(WordOf, p[i])
  BY <1>1, WordsInSpread
<1>3. [i \in 1..Len(p) |-> WordsIn(p[i])] = [i \in 1..Len(p) |-> Spread(WordOf, p[i])]
  BY <1>2
<1>4. FlattenSeq(p) \in Seq(Character)
  BY FlattenType
<1>5. Spread(WordOf, FlattenSeq(p)) = FlattenSeq([i \in 1..Len(p) |-> Spread(WordOf, p[i])])
  BY WordOfType, SpreadFlatten
<1> QED
  BY <1>3, <1>4, <1>5, WordsInSpread

\* A pair is a concatenation.
LEMMA PairIsCat == ASSUME NEW C, NEW a \in C, NEW b \in C PROVE <<a, b>> = Cat(<<a>>, <<b>>)
<1> DEFINE s == <<a>>
           t == <<b>>
           u == Cat(s, t)
           v == <<a, b>>
<1>1. s \in Seq(C) /\ t \in Seq(C) /\ Len(s) = 1 /\ Len(t) = 1 /\ s[1] = a /\ t[1] = b
  OBVIOUS
<1>2. v \in Seq(C) /\ Len(v) = 2 /\ v[1] = a /\ v[2] = b
  OBVIOUS
<1> HIDE DEF s, t, v
<1>3. /\ u \in Seq(C) /\ Len(u) = Len(s) + Len(t)
      /\ \A i \in 1..Len(s) + Len(t) : u[i] = IF i <= Len(s) THEN s[i] ELSE t[i - Len(s)]
  BY <1>1, ConcatProperties DEF Cat
<1> HIDE DEF u
<1>4. Len(u) = Len(v) /\ \A i \in 1..Len(u) : u[i] = v[i]
  <2>1. Len(u) = 2
    BY <1>1, <1>3
  <2>2. u[1] = a
    BY <1>1, <1>3
  <2>3. u[2] = b
    <3>1. 2 \in 1..Len(s) + Len(t) /\ ~(2 <= Len(s)) /\ 2 - Len(s) = 1
      BY <1>1
    <3> QED
      BY <1>1, <1>3, <3>1
  <2> QED
    BY <1>2, <2>1, <2>2, <2>3
<1>5. u = v
  BY <1>2, <1>3, <1>4, SeqEqual
<1> QED
  BY <1>5 DEF s, t, u, v

\* The words of the shortest texts.
LEMMA WordsInFew ==
    /\ WordsIn(<<>>) = <<>>
    /\ \A c \in Character : WordsIn(<<c>>) = IF c.kind = "word" THEN <<c.n>> ELSE <<>>
    /\ \A w \in Word : WordsIn(<<Char("space"), Spoken(w)>>) = <<w>>
<1>1. WordsIn(<<>>) = <<>>
  <2>1. <<>> \in Seq(Character)
    OBVIOUS
  <2> QED
    BY <2>1, WordsInSpread, SpreadEmpty
<1>2. ASSUME NEW c \in Character
      PROVE  WordsIn(<<c>>) = IF c.kind = "word" THEN <<c.n>> ELSE <<>>
  <2>1. <<c>> \in Seq(Character)
    OBVIOUS
  <2>2. Spread(WordOf, <<c>>) = WordOf[c]
    BY WordOfType, SpreadOne
  <2> QED
    BY <2>1, <2>2, WordsInSpread DEF WordOf
<1>3. ASSUME NEW w \in Word
      PROVE  WordsIn(<<Char("space"), Spoken(w)>>) = <<w>>
  <2> DEFINE a == Char("space")
             b == Spoken(w)
  <2>1. a \in Character /\ b \in Character /\ a.kind # "word" /\ b.kind = "word" /\ b.n = w
    BY SpaceAndWords
  <2> HIDE DEF a, b
  <2>2. <<a>> \in Seq(Character) /\ <<b>> \in Seq(Character) /\ <<a, b>> \in Seq(Character)
    BY <2>1
  <2>3. <<a, b>> = Cat(<<a>>, <<b>>)
    BY <2>1, PairIsCat
  <2>4. Spreads(WordOf, Character, Word)
    BY WordOfType DEF Spreads
  <2>5. Spread(WordOf, Cat(<<a>>, <<b>>)) = Cat(Spread(WordOf, <<a>>), Spread(WordOf, <<b>>))
    <3>1. <<a>> \in Seq(Character)
      BY <2>2
    <3>2. <<b>> \in Seq(Character)
      BY <2>2
    <3>3. \A u, v \in Seq(Character) :
              Spread(WordOf, Cat(u, v)) = Cat(Spread(WordOf, u), Spread(WordOf, v))
      BY <2>4, SpreadJoined
    <3> QED
      BY <3>1, <3>2, <3>3, Zenon
  <2>6. Spread(WordOf, <<a>>) = <<>> /\ Spread(WordOf, <<b>>) = <<w>>
    BY <1>2, <2>1, <2>2, WordsInSpread
  <2>7. Cat(<<>>, <<w>>) = <<w>>
    <3>1. <<w>> \in Seq(Word)
      OBVIOUS
    <3> QED
      BY <3>1, CatType
  <2>8. WordsIn(<<a, b>>) = <<w>>
    BY <2>2, <2>3, <2>5, <2>6, <2>7, WordsInSpread
  <2> QED
    BY <2>8 DEF a, b
<1> QED
  BY <1>1, <1>2, <1>3

\* What keeps the positions of the words keeps the words.
LEMMA KeepWords ==
    ASSUME NEW t \in Seq(Character), NEW kept,
           \A i \in 1..Len(t) : t[i].kind = "word" => i \in kept
    PROVE  WordsIn(Keep(t, kept)) = WordsIn(t)
<1> DEFINE p == Parts(t, kept)
<1>1. \A i \in 1..Len(t) : t[i] \in Character
  OBVIOUS
<1>2. /\ p \in Seq(Seq(Character)) /\ Len(p) = Len(t)
      /\ \A i \in 1..Len(t) : p[i] = IF i \in kept THEN <<t[i]>> ELSE <<>>
  BY <1>1, PartsType
<1>3. Keep(t, kept) = FlattenSeq(p)
  BY DEF Keep, Parts
<1> HIDE DEF p
<1>4. ASSUME NEW i \in 1..Len(t)
      PROVE  WordsIn(p[i]) = IF t[i].kind = "word" THEN <<t[i].n>> ELSE <<>>
  <2>1. CASE i \in kept
    BY <1>1, <1>2, <2>1, WordsInFew
  <2>2. CASE i \notin kept
    BY <1>1, <1>2, <2>2, WordsInFew
  <2> QED
    BY <2>1, <2>2
<1>5. [i \in 1..Len(p) |-> WordsIn(p[i])]
        = [i \in 1..Len(t) |-> IF t[i].kind = "word" THEN <<t[i].n>> ELSE <<>>]
  BY <1>2, <1>4
<1>6. WordsIn(FlattenSeq(p)) = FlattenSeq([i \in 1..Len(p) |-> WordsIn(p[i])])
  BY <1>2, WordsInFlatten
<1> QED
  BY <1>3, <1>5, <1>6 DEF WordsIn

-----------------------------------------------------------------------------
(***************************************************************************)
(* Digits: every run of them becomes the words of its number.              *)
(***************************************************************************)

\* Characters at the stages of a pass: without digits, without anything
\* foreign, with no white space but spaces.
Undigited == {c \in Character : ~IsDigit(c)}
Plain == {c \in Character :
             c.kind \in {"letter", "word", "comma", "danda", "space", "newline"}}
Tidy == {c \in Character :
            c.kind \in {"letter", "word", "comma", "danda", "space"}}

\* Addresses and tags are cut, nothing is put in.
LEMMA StripType ==
    ASSUME NEW C, NEW t \in Seq(C)
    PROVE  StripUrls(t) \in Seq(C) /\ StripTags(t) \in Seq(C)
<1>1. \A i \in 1..Len(t) : t[i] \in C
  OBVIOUS
<1> QED
  BY <1>1, KeepType DEF StripUrls, StripTags

\* One more digit.
ValueStep(t, i, v) == IF IsDigit(t[i]) THEN 10 * v + t[i].n ELSE 0

\* A run of digits has a value at each of its digits.
LEMMA RunValueType ==
    ASSUME NEW t \in Seq(Character)
    PROVE  \A i \in 0..Len(t) : RunValue(t)[i] \in Nat
<1> DEFINE n == Len(t)
           step == [i \in 1..n |-> [v \in Nat |-> ValueStep(t, i, v)]]
           Equation(g) ==
              g = [i \in 0..n |-> IF i > 0 /\ IsDigit(t[i]) THEN 10 * g[i - 1] + t[i].n ELSE 0]
<1>0. n \in Nat
  OBVIOUS
<1>1. ASSUME NEW i \in 1..n, NEW v \in Nat
      PROVE  ValueStep(t, i, v) \in Nat
  <2>1. t[i].n \in Nat
    BY CharacterFacts
  <2> QED
    BY <2>1 DEF ValueStep
<1>2. step \in [1..n -> [Nat -> Nat]]
  BY <1>1
<1>3. PICK f \in [0..n -> Nat] : FollowsUpTo(n, f, 0, step)
  <2> HIDE DEF step, n
  <2> QED
    BY <1>0, <1>2, RecursionUpTo
<1>4. Equation(f)
  <2>1. ASSUME NEW i \in 0..n
        PROVE  f[i] = IF i > 0 /\ IsDigit(t[i]) THEN 10 * f[i - 1] + t[i].n ELSE 0
    <3>1. CASE i = 0
      BY <1>3, <3>1 DEF FollowsUpTo
    <3>2. CASE i # 0
      <4>1. i \in 1..n /\ i > 0 /\ i - 1 \in 0..n
        BY <3>2
      <4>2. f[i] = step[i][f[i - 1]]
        BY <1>3, <4>1 DEF FollowsUpTo
      <4>3. f[i - 1] \in Nat
        BY <1>3, <4>1
      <4>4. f[i] = ValueStep(t, i, f[i - 1])
        BY <4>1, <4>2, <4>3
      <4> QED
        BY <4>1, <4>4 DEF ValueStep
    <3> QED
      BY <3>1, <3>2
  <2> QED
    BY <2>1
<1>5. RunValue(t) = CHOOSE g : Equation(g)
  BY DEF RunValue
<1>6. Equation(RunValue(t))
  <2> HIDE DEF Equation
  <2> QED
    BY <1>4, <1>5
<1> DEFINE c == RunValue(t)
           T == {i \in 0..n : c[i] \in Nat}
<1>7. \A i \in 0..n : c[i] = IF i > 0 /\ IsDigit(t[i]) THEN 10 * c[i - 1] + t[i].n ELSE 0
  <2> HIDE DEF c
  <2> QED
    BY <1>6 DEF c
<1> HIDE DEF c
<1>8. 0 \in T
  BY <1>0, <1>7
<1>9. ASSUME NEW i \in 1..n, i - 1 \in T
      PROVE  i \in T
  <2>1. t[i].n \in Nat
    BY CharacterFacts
  <2>2. c[i - 1] \in Nat
    BY <1>9
  <2>3. c[i] \in Nat
    BY <1>7, <2>1, <2>2
  <2> QED
    BY <2>3
<1>10. \A i \in 0..n : i \in T
  <2> HIDE DEF T, n
  <2> QED
    BY <1>0, <1>8, <1>9, AllUpTo
<1> QED
  BY <1>10 DEF c

\* Joined words are a text without digits that says them.
LEMMA JoinWords ==
    ASSUME NEW w \in Seq(Word)
    PROVE  Join(w) \in Seq(Undigited) /\ WordsIn(Join(w)) = w
<1> DEFINE q == [i \in 1..Len(w) |->
                    IF i = 1 THEN <<Spoken(w[i])>> ELSE <<Char("space"), Spoken(w[i])>>]
<1>1. ASSUME NEW i \in 1..Len(w)
      PROVE  w[i] \in Word /\ q[i] \in Seq(Undigited) /\ WordsIn(q[i]) = <<w[i]>>
  <2>1. w[i] \in Word
    OBVIOUS
  <2>2. Spoken(w[i]) \in Undigited /\ Char("space") \in Undigited
    BY <2>1, SpaceAndWords DEF Undigited
  <2>3. WordsIn(<<Spoken(w[i])>>) = <<w[i]>>
    BY <2>1, SpaceAndWords, WordsInFew
  <2>4. WordsIn(<<Char("space"), Spoken(w[i])>>) = <<w[i]>>
    BY <2>1, WordsInFew
  <2>5. <<Spoken(w[i])>> \in Seq(Undigited) /\ <<Char("space"), Spoken(w[i])>> \in Seq(Undigited)
    BY <2>2
  <2> QED
    BY <2>1, <2>3, <2>4, <2>5
<1>2. Len(q) = Len(w) /\ q \in Seq(Seq(Undigited))
  <2>1. \A i \in 1..Len(w) : q[i] \in Seq(Undigited)
    BY <1>1
  <2> QED
    BY <2>1
<1>3. Join(w) = FlattenSeq(q)
  BY DEF Join
<1> HIDE DEF q
<1>4. Join(w) \in Seq(Undigited)
  BY <1>2, <1>3, FlattenType
<1>5. q \in Seq(Seq(Character))
  <2>1. Seq(Undigited) \subseteq Seq(Character)
    BY SeqMonotonic DEF Undigited
  <2> QED
    BY <1>2, <2>1, SeqMonotonic
<1>6. [i \in 1..Len(q) |-> WordsIn(q[i])] = [i \in 1..Len(w) |-> <<w[i]>>]
  BY <1>1, <1>2
<1>7. WordsIn(FlattenSeq(q)) = FlattenSeq([i \in 1..Len(q) |-> WordsIn(q[i])])
  BY <1>5, WordsInFlatten
<1>8. FlattenSeq([i \in 1..Len(w) |-> <<w[i]>>]) = w
  BY FlattenSingletons
<1> QED
  BY <1>3, <1>4, <1>6, <1>7, <1>8

\* The piece that takes the place of the i-th character.
Piece(t, i) == IF ~IsDigit(t[i]) THEN <<t[i]>>
               ELSE IF RunEnds(t, i) THEN Join(Words[RunValue(t)[i]])
               ELSE <<>>

\* No piece has a digit.
LEMMA PieceType ==
    ASSUME NEW t \in Seq(Character), NEW i \in 1..Len(t)
    PROVE  /\ Piece(t, i) \in Seq(Undigited)
           /\ RunValue(t)[i] \in Nat /\ Words[RunValue(t)[i]] \in Seq(Word)
<1>1. RunValue(t)[i] \in Nat
  <2>1. i \in 0..Len(t)
    OBVIOUS
  <2> QED
    BY <2>1, RunValueType
<1>2. Words[RunValue(t)[i]] \in Seq(Word)
  BY <1>1, WordsDefined
<1>3. CASE ~IsDigit(t[i])
  <2>1. t[i] \in Undigited
    BY <1>3 DEF Undigited
  <2> QED
    BY <1>1, <1>2, <1>3, <2>1 DEF Piece
<1>4. CASE IsDigit(t[i]) /\ RunEnds(t, i)
  <2>1. Piece(t, i) = Join(Words[RunValue(t)[i]])
    BY <1>4 DEF Piece
  <2> QED
    BY <1>1, <1>2, <2>1, JoinWords
<1>5. CASE IsDigit(t[i]) /\ ~RunEnds(t, i)
  <2>1. Piece(t, i) = <<>>
    BY <1>5 DEF Piece
  <2> QED
    BY <1>1, <1>2, <2>1
<1> QED
  BY <1>3, <1>4, <1>5

\* The text is the concatenation of its pieces and has no digit.
LEMMA ExpandPieces ==
    ASSUME NEW t \in Seq(Character)
    PROVE  /\ ExpandDigits(t) = FlattenSeq([i \in 1..Len(t) |-> Piece(t, i)])
           /\ [i \in 1..Len(t) |-> Piece(t, i)] \in Seq(Seq(Undigited))
           /\ [i \in 1..Len(t) |-> Piece(t, i)] \in Seq(Seq(Character))
           /\ ExpandDigits(t) \in Seq(Undigited)
<1>1. ExpandDigits(t) = FlattenSeq([i \in 1..Len(t) |-> Piece(t, i)])
  BY DEF ExpandDigits, Piece
<1>2. [i \in 1..Len(t) |-> Piece(t, i)] \in Seq(Seq(Undigited))
  BY PieceType
<1>3. Seq(Undigited) \subseteq Seq(Character)
  BY SeqMonotonic DEF Undigited
<1>4. [i \in 1..Len(t) |-> Piece(t, i)] \in Seq(Seq(Character))
  BY <1>2, <1>3, SeqMonotonic
<1>5. FlattenSeq([i \in 1..Len(t) |-> Piece(t, i)]) \in Seq(Undigited)
  BY <1>2, FlattenType
<1> QED
  BY <1>1, <1>2, <1>4, <1>5

\* The words that the i-th character adds.
SpokenAt(t, i) == IF IsDigit(t[i]) /\ RunEnds(t, i) THEN Words[RunValue(t)[i]] ELSE <<>>

\* The words that appear are those of the numbers, in their order.
LEMMA WordsOfExpanded ==
    ASSUME NEW t \in Seq(Character), \A i \in 1..Len(t) : t[i].kind # "word"
    PROVE  WordsIn(ExpandDigits(t)) = FlattenSeq([i \in 1..Len(t) |-> SpokenAt(t, i)])
<1> DEFINE p == [i \in 1..Len(t) |-> Piece(t, i)]
<1>1. ASSUME NEW i \in 1..Len(t)
      PROVE  WordsIn(Piece(t, i)) = SpokenAt(t, i)
  <2>1. Words[RunValue(t)[i]] \in Seq(Word)
    BY PieceType
  <2>2. CASE ~IsDigit(t[i])
    <3>1. t[i] \in Character /\ t[i].kind # "word"
      OBVIOUS
    <3>2. WordsIn(<<t[i]>>) = <<>>
      BY <3>1, WordsInFew
    <3> QED
      BY <2>2, <3>2 DEF Piece, SpokenAt
  <2>3. CASE IsDigit(t[i]) /\ RunEnds(t, i)
    <3>1. WordsIn(Join(Words[RunValue(t)[i]])) = Words[RunValue(t)[i]]
      BY <2>1, JoinWords
    <3> QED
      BY <2>3, <3>1 DEF Piece, SpokenAt
  <2>4. CASE IsDigit(t[i]) /\ ~RunEnds(t, i)
    BY <2>4, WordsInFew DEF Piece, SpokenAt
  <2> QED
    BY <2>2, <2>3, <2>4
<1>2. p \in Seq(Seq(Character)) /\ ExpandDigits(t) = FlattenSeq(p) /\ Len(p) = Len(t)
  BY ExpandPieces
<1>3. [i \in 1..Len(p) |-> WordsIn(p[i])] = [i \in 1..Len(t) |-> SpokenAt(t, i)]
  BY <1>1, <1>2
<1> HIDE DEF p
<1>4. WordsIn(FlattenSeq(p)) = FlattenSeq([i \in 1..Len(p) |-> WordsIn(p[i])])
  BY <1>2, WordsInFlatten
<1> QED
  BY <1>2, <1>3, <1>4

\* The same, with the function's type in an operator.
LEMMA SpreadEach ==
    ASSUME NEW S, NEW R, NEW e, Spreads(e, S, R), NEW p \in Seq(Seq(S))
    PROVE  Spread(e, FlattenSeq(p)) = FlattenSeq([i \in 1..Len(p) |-> Spread(e, p[i])])
  BY SpreadFlatten DEF Spreads

\* The number that ends at the i-th character.
NumberAt(t, i) == IF IsDigit(t[i]) /\ RunEnds(t, i) THEN <<RunValue(t)[i]>> ELSE <<>>

\* The numbers of a text, spelled, say the same.
LEMMA NumbersSpelled ==
    ASSUME NEW t \in Seq(Character)
    PROVE  /\ Numbers(t) \in Seq(Nat)
           /\ Spell(Numbers(t)) = FlattenSeq([i \in 1..Len(t) |-> SpokenAt(t, i)])
<1> DEFINE p == [i \in 1..Len(t) |-> NumberAt(t, i)]
<1>1. ASSUME NEW i \in 1..Len(t)
      PROVE  NumberAt(t, i) \in Seq(Nat) /\ Spread(Words, NumberAt(t, i)) = SpokenAt(t, i)
  <2>1. RunValue(t)[i] \in Nat
    BY PieceType
  <2>2. CASE IsDigit(t[i]) /\ RunEnds(t, i)
    <3>1. Spread(Words, <<RunValue(t)[i]>>) = Words[RunValue(t)[i]]
      BY <2>1, WordsDefined, SpreadOne
    <3> QED
      BY <2>1, <2>2, <3>1 DEF NumberAt, SpokenAt
  <2>3. CASE ~(IsDigit(t[i]) /\ RunEnds(t, i))
    <3>1. NumberAt(t, i) = <<>> /\ SpokenAt(t, i) = <<>>
      BY <2>3 DEF NumberAt, SpokenAt
    <3> QED
      BY <3>1, SpreadEmpty
  <2> QED
    BY <2>2, <2>3
<1>2. p \in Seq(Seq(Nat)) /\ Len(p) = Len(t)
  BY <1>1
<1>3. Numbers(t) = FlattenSeq(p)
  BY DEF Numbers, NumberAt
<1>4. [i \in 1..Len(p) |-> Spread(Words, p[i])] = [i \in 1..Len(t) |-> SpokenAt(t, i)]
  BY <1>1, <1>2
<1> HIDE DEF p
<1>5. Numbers(t) \in Seq(Nat)
  BY <1>2, <1>3, FlattenType
<1>6. Spread(Words, FlattenSeq(p)) = FlattenSeq([i \in 1..Len(p) |-> Spread(Words, p[i])])
  <2>1. Spreads(Words, Nat, Word)
    BY WordsDefined DEF Spreads
  <2>2. \A q \in Seq(Seq(Nat)) :
           Spread(Words, FlattenSeq(q)) = FlattenSeq([i \in 1..Len(q) |-> Spread(Words, q[i])])
    BY <2>1, SpreadEach
  <2> QED
    BY <1>2, <2>2, Zenon
<1>7. Spell(Numbers(t)) = Spread(Words, Numbers(t))
  BY DEF Spell, Spread
<1> QED
  BY <1>3, <1>4, <1>5, <1>6, <1>7

-----------------------------------------------------------------------------
(***************************************************************************)
(* Spaces: what is left of them is single and inside the text.             *)
(***************************************************************************)

\* The positions that NormalizeSpaces keeps.
Kept(t) == {i \in DOMAIN t :
               \/ ~IsSpace(t[i])
               \/ /\ i > 1 /\ ~IsSpace(t[i - 1])
                  /\ \E j \in i + 1 .. Len(t) : ~IsSpace(t[j])}

\* White space of any kind becomes a space, the rest stays.
LEMMA SpacedType ==
    ASSUME NEW t \in Seq(Plain)
    PROVE  /\ Spaced(t) \in Seq(Tidy) /\ Len(Spaced(t)) = Len(t)
           /\ \A i \in 1..Len(t) :
                 /\ ~IsSpace(t[i]) => Spaced(t)[i] = t[i] /\ t[i].kind # "space"
                 /\ IsSpace(t[i]) => Spaced(t)[i].kind = "space" /\ t[i].kind # "word"
                 /\ Spaced(t)[i] \in Tidy
<1>1. ASSUME NEW i \in 1..Len(t)
      PROVE  /\ (IF IsSpace(t[i]) THEN Char("space") ELSE t[i]) \in Tidy
             /\ ~IsSpace(t[i]) => t[i].kind # "space"
             /\ IsSpace(t[i]) => t[i].kind # "word"
  <2>1. t[i] \in Plain
    OBVIOUS
  <2>2. Char("space") \in Tidy
    BY SpaceAndWords DEF Tidy
  <2> QED
    BY <2>1, <2>2 DEF Plain, Tidy, IsSpace
<1>2. Char("space").kind = "space"
  BY DEF Char
<1> QED
  BY <1>1, <1>2 DEF Spaced

\* What holds of the text that is kept of the first i characters of t.
TidyPrefix(t, i, s) ==
    /\ s \in Seq(Tidy)
    /\ \A k \in 1..Len(s) : s[k].kind = "space" => 1 < k /\ s[k - 1].kind # "space"
    /\ i > 0 /\ ~IsSpace(t[i]) => Len(s) > 0 /\ s[Len(s)].kind # "space"
    /\ Len(s) > 0 /\ s[Len(s)].kind = "space" => \E j \in i + 1 .. Len(t) : ~IsSpace(t[j])

\* One more character.
LEMMA AddOne ==
    ASSUME NEW S, NEW s \in Seq(S), NEW c \in S
    PROVE  /\ Cat(s, <<c>>) \in Seq(S) /\ Len(Cat(s, <<c>>)) = Len(s) + 1
           /\ \A k \in 1..Len(s) : Cat(s, <<c>>)[k] = s[k]
           /\ Cat(s, <<c>>)[Len(s) + 1] = c
  BY DEF Cat

\* Each next character leaves the prefix tidy.
LEMMA TidyStep ==
    ASSUME NEW t \in Seq(Plain), NEW i \in 1..Len(t), NEW s, TidyPrefix(t, i - 1, s)
    PROVE  TidyPrefix(t, i, Cat(s, IF i \in Kept(t) THEN <<Spaced(t)[i]>> ELSE <<>>))
<1> DEFINE c == Spaced(t)[i]
           u == Cat(s, <<c>>)
<1>0. s \in Seq(Tidy) /\ Len(s) \in Nat
  BY DEF TidyPrefix
<1>1. c \in Tidy
  BY SpacedType
<1>2. /\ u \in Seq(Tidy) /\ Len(u) = Len(s) + 1
      /\ \A k \in 1..Len(s) : u[k] = s[k]
      /\ u[Len(s) + 1] = c
  <2> HIDE DEF c
  <2> QED
    BY <1>0, <1>1, AddOne
<1>3. /\ ~IsSpace(t[i]) => c.kind # "space"
      /\ IsSpace(t[i]) => c.kind = "space"
  BY SpacedType
<1>4. \A k \in 1..Len(s) : s[k].kind = "space" => 1 < k /\ s[k - 1].kind # "space"
  BY DEF TidyPrefix
<1> HIDE DEF c, u
<1>5. CASE ~IsSpace(t[i])
  <2>1. i \in Kept(t)
    BY <1>5 DEF Kept
  <2>2. ASSUME NEW k \in 1..Len(u), u[k].kind = "space"
        PROVE  1 < k /\ u[k - 1].kind # "space"
    <3>1. k \in 1..Len(s)
      BY <1>0, <1>2, <1>3, <1>5, <2>2
    <3>2. s[k].kind = "space"
      BY <1>2, <2>2, <3>1
    <3>3. 1 < k /\ s[k - 1].kind # "space"
      BY <1>4, <3>1, <3>2
    <3>4. k - 1 \in 1..Len(s)
      BY <1>0, <3>1, <3>3
    <3> QED
      BY <1>2, <3>3, <3>4
  <2>3. Len(u) > 0 /\ u[Len(u)].kind # "space"
    BY <1>0, <1>2, <1>3, <1>5
  <2>4. TidyPrefix(t, i, u)
    BY <1>2, <2>2, <2>3 DEF TidyPrefix
  <2> QED
    BY <2>1, <2>4 DEF u, c
<1>6. CASE IsSpace(t[i]) /\ i \in Kept(t)
  <2>1. i > 1 /\ ~IsSpace(t[i - 1]) /\ \E j \in i + 1 .. Len(t) : ~IsSpace(t[j])
    BY <1>6 DEF Kept
  <2>2. Len(s) > 0 /\ s[Len(s)].kind # "space"
    BY <2>1 DEF TidyPrefix
  <2>3. ASSUME NEW k \in 1..Len(u), u[k].kind = "space"
        PROVE  1 < k /\ u[k - 1].kind # "space"
    <3>1. CASE k \in 1..Len(s)
      <4>1. s[k].kind = "space"
        BY <1>2, <2>3, <3>1
      <4>2. 1 < k /\ s[k - 1].kind # "space"
        BY <1>4, <3>1, <4>1
      <4>3. k - 1 \in 1..Len(s)
        BY <1>0, <3>1, <4>2
      <4> QED
        BY <1>2, <4>2, <4>3
    <3>2. CASE k \notin 1..Len(s)
      <4>1. k = Len(s) + 1 /\ k - 1 = Len(s) /\ Len(s) \in 1..Len(s)
        BY <1>0, <1>2, <2>2, <3>2
      <4> QED
        BY <1>0, <1>2, <2>2, <4>1
    <3> QED
      BY <3>1, <3>2
  <2>4. TidyPrefix(t, i, u)
    BY <1>2, <1>6, <2>1, <2>3 DEF TidyPrefix
  <2> QED
    BY <1>6, <2>4 DEF u, c
<1>7. CASE IsSpace(t[i]) /\ i \notin Kept(t)
  <2>1. Cat(s, <<>>) = s
    BY <1>0, CatType
  <2>2. ASSUME Len(s) > 0, s[Len(s)].kind = "space"
        PROVE  \E j \in i + 1 .. Len(t) : ~IsSpace(t[j])
    <3>1. PICK j \in (i - 1) + 1 .. Len(t) : ~IsSpace(t[j])
      BY <2>2 DEF TidyPrefix
    <3>2. j # i
      BY <1>7, <3>1
    <3>3. j \in i + 1 .. Len(t)
      BY <3>1, <3>2
    <3> QED
      BY <3>1, <3>3
  <2>3. TidyPrefix(t, i, s)
    BY <1>0, <1>4, <1>7, <2>2 DEF TidyPrefix
  <2> QED
    BY <1>7, <2>1, <2>3
<1> QED
  BY <1>5, <1>6, <1>7

\* The result is clean: no space at an end, none after another.
LEMMA SpacesAreClean ==
    ASSUME NEW t \in Seq(Plain)
    PROVE  /\ NormalizeSpaces(t) \in Seq(Tidy)
           /\ Clean(NormalizeSpaces(t))
<1> DEFINE v == Spaced(t)
           p == Parts(v, Kept(t))
           n == Len(t)
<1>1. /\ v \in Seq(Tidy) /\ Len(v) = n /\ n \in Nat
      /\ \A i \in 1..n : v[i] \in Tidy
  BY SpacedType
<1>2. /\ p \in Seq(Seq(Tidy)) /\ Len(p) = n
      /\ \A i \in 1..n : p[i] = IF i \in Kept(t) THEN <<v[i]>> ELSE <<>>
  <2> HIDE DEF v
  <2> QED
    BY <1>1, PartsType
<1>3. NormalizeSpaces(t) = FlattenSeq(p)
  BY DEF NormalizeSpaces, Keep, Parts, Kept
<1> HIDE DEF p
<1>4. PICK f : PrefixesOf(p, Tidy, f)
  BY <1>2, FlattenSteps
<1> DEFINE T == {i \in 0..n : TidyPrefix(t, i, f[i])}
<1>5. 0 \in T
  <2>1. f[0] = <<>>
    BY <1>4 DEF PrefixesOf
  <2>2. TidyPrefix(t, 0, <<>>)
    BY DEF TidyPrefix
  <2> QED
    BY <1>1, <2>1, <2>2
<1>6. ASSUME NEW i \in 1..n, i - 1 \in T
      PROVE  i \in T
  <2>1. f[i] = Cat(f[i - 1], p[i])
    BY <1>2, <1>4, PrefixGrows
  <2>2. TidyPrefix(t, i - 1, f[i - 1])
    BY <1>6
  <2>3. TidyPrefix(t, i, f[i])
    BY <1>2, <2>1, <2>2, TidyStep
  <2> QED
    BY <2>3
<1>7. \A i \in 0..n : i \in T
  <2> HIDE DEF T, n
  <2> QED
    BY <1>1, <1>5, <1>6, AllUpTo
<1>8. TidyPrefix(t, n, f[n]) /\ f[n] = NormalizeSpaces(t)
  BY <1>1, <1>2, <1>3, <1>4, <1>7 DEF PrefixesOf
<1> DEFINE s == NormalizeSpaces(t)
<1> HIDE DEF s, v
<1>9. TidyPrefix(t, n, s)
  BY <1>8 DEF s
<1>10. s \in Seq(Tidy) /\ \A k \in 1..Len(s) : s[k] \in Tidy
  BY <1>9 DEF TidyPrefix
<1>11. ASSUME NEW k \in 1..Len(s), s[k].kind = "space"
       PROVE  1 < k /\ k < Len(s) /\ s[k - 1].kind # "space"
  <2>1. 1 < k /\ s[k - 1].kind # "space"
    BY <1>9, <1>11 DEF TidyPrefix
  <2>2. k # Len(s)
    <3>1. SUFFICES ASSUME k = Len(s)
                   PROVE  FALSE
      OBVIOUS
    <3>2. \E j \in n + 1 .. Len(t) : ~IsSpace(t[j])
      BY <1>9, <1>10, <1>11, <3>1 DEF TidyPrefix
    <3> QED
      BY <1>1, <3>2
  <2> QED
    BY <1>10, <2>1, <2>2
<1>12. Clean(s)
  BY <1>10, <1>11 DEF Clean, Tidy
<1> QED
  BY <1>10, <1>12 DEF s

-----------------------------------------------------------------------------
(***************************************************************************)
(* The five steps together.                                                *)
(***************************************************************************)

\* An allowed character that is no digit is plain.
LEMMA PlainWhenAllowed ==
    ASSUME NEW c \in Undigited, Allowed(c)
    PROVE  c \in Plain
  BY DEF Undigited, Allowed, IsDigit, Plain

\* The text before the spaces are cleaned.
Stripped(t) == StripUnsupported(ExpandDigits(StripTags(StripUrls(t))))

\* Before the spaces are cleaned, nothing foreign is left.
LEMMA StrippedIsPlain ==
    ASSUME NEW t \in Seq(Character)
    PROVE  Stripped(t) \in Seq(Plain)
<1> DEFINE u == StripTags(StripUrls(t))
           v == ExpandDigits(u)
<1>1. u \in Seq(Character)
  BY StripType
<1> HIDE DEF u
<1>2. v \in Seq(Undigited)
  BY <1>1, ExpandPieces
<1> HIDE DEF v
<1>3. \A i \in 1..Len(v) : i \in {k \in DOMAIN v : Allowed(v[k])} => v[i] \in Plain
  <2>1. \A i \in 1..Len(v) : v[i] \in Undigited
    BY <1>2
  <2> QED
    BY <2>1, PlainWhenAllowed
<1>4. StripUnsupported(v) \in Seq(Plain)
  BY <1>2, <1>3, KeepType DEF StripUnsupported
<1> QED
  BY <1>4 DEF Stripped, u, v

\* One pass cleans any text.
LEMMA NormalizedIsClean ==
    ASSUME NEW t \in Seq(Character)
    PROVE  /\ NormalizeText(t) \in Seq(Character)
           /\ Clean(NormalizeText(t))
<1>1. NormalizeText(t) = NormalizeSpaces(Stripped(t))
  BY DEF NormalizeText, Stripped
<1>2. Seq(Tidy) \subseteq Seq(Character)
  BY SeqMonotonic DEF Tidy
<1> QED
  BY <1>1, <1>2, StrippedIsPlain, SpacesAreClean

\* A pass changes nothing in a clean text.
LEMMA CleanIsLeftAlone ==
    ASSUME NEW t \in Seq(Character), Clean(t)
    PROVE  NormalizeText(t) = t
<1>0. ASSUME NEW i \in 1..Len(t)
      PROVE  /\ t[i] \in Character
             /\ t[i].kind \in {"letter", "word", "comma", "danda", "space"}
             /\ t[i].kind = "space" => 1 < i /\ i < Len(t) /\ t[i - 1].kind # "space"
  BY DEF Clean
<1>1. StripUrls(t) = t
  <2>1. \A i \in 1..Len(t) : ~InUrl(t, i)
    <3>1. ASSUME NEW i \in 1..Len(t), NEW j \in 1..i, t[j].kind = "scheme"
          PROVE  FALSE
      <4>1. j \in 1..Len(t)
        OBVIOUS
      <4> QED
        BY <1>0, <3>1, <4>1
    <3> QED
      BY <3>1 DEF InUrl
  <2>2. 1..Len(t) \subseteq {i \in DOMAIN t : ~InUrl(t, i)}
    BY <2>1
  <2> QED
    BY <2>2, KeepAll DEF StripUrls
<1>2. StripTags(t) = t
  <2>1. \A i \in 1..Len(t) : ~OfTag(t, i)
    <3>1. ASSUME NEW i \in 1..Len(t), NEW j \in 1..i, t[j].kind = "at"
          PROVE  FALSE
      <4>1. j \in 1..Len(t)
        OBVIOUS
      <4> QED
        BY <1>0, <3>1, <4>1
    <3> QED
      BY <3>1 DEF OfTag
  <2>2. 1..Len(t) \subseteq {i \in DOMAIN t : ~OfTag(t, i)}
    BY <2>1
  <2> QED
    BY <2>2, KeepAll DEF StripTags
<1>3. ExpandDigits(t) = t
  <2>1. \A i \in 1..Len(t) : Piece(t, i) = <<t[i]>>
    BY <1>0 DEF Piece, IsDigit
  <2>2. [i \in 1..Len(t) |-> Piece(t, i)] = [i \in 1..Len(t) |-> <<t[i]>>]
    BY <2>1
  <2>3. ExpandDigits(t) = FlattenSeq([i \in 1..Len(t) |-> Piece(t, i)])
    BY ExpandPieces
  <2> QED
    BY <2>2, <2>3, FlattenSingletons
<1>4. StripUnsupported(t) = t
  <2>1. 1..Len(t) \subseteq {i \in DOMAIN t : Allowed(t[i])}
    BY <1>0 DEF Allowed
  <2> QED
    BY <2>1, KeepAll DEF StripUnsupported
<1>5. Spaced(t) = t
  <2>1. \A i \in 1..Len(t) : (IF IsSpace(t[i]) THEN Char("space") ELSE t[i]) = t[i]
    <3>1. ASSUME NEW i \in 1..Len(t), IsSpace(t[i])
          PROVE  t[i] = Char("space")
      <4>1. t[i].kind = "space"
        BY <1>0, <3>1 DEF IsSpace
      <4> QED
        BY <1>0, <4>1, CharacterFacts
    <3> QED
      BY <3>1
  <2>2. Spaced(t) = [i \in 1..Len(t) |-> t[i]]
    BY <2>1 DEF Spaced
  <2> QED
    BY <2>2
<1>6. NormalizeSpaces(t) = t
  <2>1. ASSUME NEW i \in 1..Len(t)
        PROVE  i \in Kept(t)
    <3>1. CASE ~IsSpace(t[i])
      BY <3>1 DEF Kept
    <3>2. CASE IsSpace(t[i])
      <4>1. t[i].kind = "space"
        BY <1>0, <3>2 DEF IsSpace
      <4>2. 1 < i /\ i < Len(t) /\ t[i - 1].kind # "space"
        BY <1>0, <4>1
      <4>3. i - 1 \in 1..Len(t) /\ i + 1 \in 1..Len(t) /\ (i + 1) - 1 = i
        BY <4>2
      <4>4. ~IsSpace(t[i - 1])
        BY <1>0, <4>2, <4>3 DEF IsSpace
      <4>5. ~IsSpace(t[i + 1])
        <5>1. t[i + 1].kind # "space"
          BY <1>0, <4>1, <4>3
        <5> QED
          BY <1>0, <4>3, <5>1 DEF IsSpace
      <4>6. i + 1 \in i + 1 .. Len(t)
        BY <4>3
      <4> QED
        BY <4>2, <4>4, <4>5, <4>6 DEF Kept
    <3> QED
      BY <3>1, <3>2
  <2>2. Keep(t, Kept(t)) = t
    <3>1. 1..Len(t) \subseteq Kept(t)
      BY <2>1
    <3> QED
      BY <3>1, KeepAll
  <2>3. NormalizeSpaces(t) = Keep(Spaced(t), Kept(t))
    BY DEF NormalizeSpaces, Kept
  <2> QED
    BY <1>5, <2>2, <2>3
<1> QED
  BY <1>1, <1>2, <1>3, <1>4, <1>6 DEF NormalizeText

\* Of any text, raw or partly normalized, the second pass leaves the first as it
\* is.
THEOREM Idempotent ==
    \A t \in Seq(Character) : NormalizeText(NormalizeText(t)) = NormalizeText(t)
  BY NormalizedIsClean, CleanIsLeftAlone

\* Cleaning spaces says the same words.
LEMMA SpacedWords ==
    ASSUME NEW t \in Seq(Plain)
    PROVE  WordsIn(NormalizeSpaces(t)) = WordsIn(t)
<1>1. /\ Spaced(t) \in Seq(Tidy) /\ Len(Spaced(t)) = Len(t)
      /\ \A i \in 1..Len(t) :
            /\ ~IsSpace(t[i]) => Spaced(t)[i] = t[i]
            /\ IsSpace(t[i]) => Spaced(t)[i].kind = "space" /\ t[i].kind # "word"
  BY SpacedType
<1>2. Spaced(t) \in Seq(Character)
  BY <1>1, SeqMonotonic DEF Tidy
<1>3. WordsIn(Spaced(t)) = WordsIn(t)
  <2>1. [i \in 1..Len(Spaced(t)) |->
            IF Spaced(t)[i].kind = "word" THEN <<Spaced(t)[i].n>> ELSE <<>>]
          = [i \in 1..Len(t) |-> IF t[i].kind = "word" THEN <<t[i].n>> ELSE <<>>]
    BY <1>1
  <2> QED
    BY <2>1 DEF WordsIn
<1>4. \A i \in 1..Len(Spaced(t)) : Spaced(t)[i].kind = "word" => i \in Kept(t)
  <2>1. ASSUME NEW i \in 1..Len(t), Spaced(t)[i].kind = "word"
        PROVE  i \in Kept(t)
    <3>1. ~IsSpace(t[i])
      BY <1>1, <2>1
    <3> QED
      BY <3>1 DEF Kept
  <2> QED
    BY <1>1, <2>1
<1>5. WordsIn(Keep(Spaced(t), Kept(t))) = WordsIn(Spaced(t))
  BY <1>2, <1>4, KeepWords
<1>6. NormalizeSpaces(t) = Keep(Spaced(t), Kept(t))
  BY DEF NormalizeSpaces, Kept
<1> QED
  BY <1>3, <1>5, <1>6

\* A pass over a written text says its numbers and nothing else.
LEMMA WordsAreTheNumbers ==
    ASSUME NEW t \in Seq(RawCharacter)
    PROVE  LET numbers == Numbers(StripTags(StripUrls(t)))
           IN  /\ numbers \in Seq(Nat)
               /\ WordsIn(NormalizeText(t)) = Spell(numbers)
               /\ WordsIn(NormalizeText(t)) \in Seq(Word)
<1> DEFINE u == StripTags(StripUrls(t))
           v == ExpandDigits(u)
<1>1. u \in Seq(RawCharacter)
  BY StripType
<1>2. t \in Seq(Character)
  BY SeqMonotonic DEF Character
<1>3. NormalizeText(t) = NormalizeSpaces(StripUnsupported(v))
  BY DEF NormalizeText
<1>4. StripUnsupported(v) = Stripped(t)
  BY DEF Stripped
<1> HIDE DEF u
<1>5. u \in Seq(Character) /\ \A i \in 1..Len(u) : u[i].kind # "word"
  <2>1. u \in Seq(Character)
    BY <1>1, SeqMonotonic DEF Character
  <2>2. \A i \in 1..Len(u) : u[i] \in RawCharacter /\ u[i] \in Character
    BY <1>1, <2>1
  <2> QED
    BY <2>1, <2>2, CharacterFacts
<1>6. WordsIn(v) = Spell(Numbers(u)) /\ Numbers(u) \in Seq(Nat)
  BY <1>5, WordsOfExpanded, NumbersSpelled
<1>7. v \in Seq(Character)
  <2>1. v \in Seq(Undigited)
    BY <1>5, ExpandPieces
  <2> QED
    BY <2>1, SeqMonotonic DEF Undigited
<1> HIDE DEF v
<1>8. WordsIn(StripUnsupported(v)) = WordsIn(v)
  <2>1. \A i \in 1..Len(v) : v[i].kind = "word" => i \in {k \in DOMAIN v : Allowed(v[k])}
    BY <1>7 DEF Allowed
  <2> QED
    BY <1>7, <2>1, KeepWords DEF StripUnsupported
<1>9. StripUnsupported(v) \in Seq(Plain)
  BY <1>2, <1>4, StrippedIsPlain
<1>10. WordsIn(NormalizeText(t)) = WordsIn(StripUnsupported(v))
  BY <1>3, <1>9, SpacedWords
<1>11. NormalizeText(t) \in Seq(Character)
  BY <1>2, NormalizedIsClean
<1>12. WordsIn(NormalizeText(t)) \in Seq(Word)
  BY <1>11, WordsInSpread
<1> QED
  BY <1>6, <1>8, <1>10, <1>12 DEF u

-----------------------------------------------------------------------------
(***************************************************************************)
(* Phrases: those of numbers that are set apart stay apart.                *)
(***************************************************************************)

\* A text that can take any character without its running into the last.
Open(s) == Len(s) = 0 \/ s[Len(s)].kind \notin {"letter", "word"}

\* Texts that are apart, put together at a place where nothing touches.
LEMMA ApartConcat ==
    ASSUME NEW S, NEW s \in Seq(S), NEW t \in Seq(S), Apart(s), Apart(t),
           Len(s) = 0 \/ Len(t) = 0 \/ ~Touch(s[Len(s)], t[1])
    PROVE  /\ Cat(s, t) \in Seq(S) /\ Len(Cat(s, t)) = Len(s) + Len(t)
           /\ Apart(Cat(s, t))
           /\ Len(t) > 0 => Cat(s, t)[Len(Cat(s, t))] = t[Len(t)]
           /\ Len(t) = 0 => Cat(s, t) = s
<1> DEFINE u == Cat(s, t)
<1>1. /\ u \in Seq(S) /\ Len(u) = Len(s) + Len(t)
      /\ Len(s) \in Nat /\ Len(t) \in Nat
      /\ \A i \in 1..Len(s) + Len(t) :
            u[i] = IF i <= Len(s) THEN s[i] ELSE t[i - Len(s)]
  BY DEF Cat
<1>2. Len(t) = 0 => u = s
  BY DEF Cat
<1> HIDE DEF u
<1>3. ASSUME NEW i \in 1..Len(u) - 1
      PROVE  ~Touch(u[i], u[i + 1])
  <2>1. i \in 1..Len(s) + Len(t) /\ i + 1 \in 1..Len(s) + Len(t)
    BY <1>1
  <2>2. CASE i < Len(s)
    <3>1. u[i] = s[i] /\ u[i + 1] = s[i + 1] /\ i \in 1..Len(s) - 1
      BY <1>1, <2>1, <2>2
    <3> QED
      BY <3>1 DEF Apart
  <2>3. CASE i = Len(s)
    <3>1. u[i] = s[Len(s)] /\ u[i + 1] = t[1] /\ Len(s) # 0 /\ Len(t) # 0
      BY <1>1, <2>1, <2>3
    <3> QED
      BY <3>1
  <2>4. CASE i > Len(s)
    <3>1. i - Len(s) \in 1..Len(t) - 1 /\ ~(i <= Len(s)) /\ ~(i + 1 <= Len(s))
      BY <1>1, <2>1, <2>4
    <3>2. u[i] = t[i - Len(s)]
      BY <1>1, <2>1, <3>1
    <3>3. u[i + 1] = t[(i - Len(s)) + 1]
      <4>1. (i + 1) - Len(s) = (i - Len(s)) + 1
        BY <1>1
      <4> QED
        BY <1>1, <2>1, <3>1, <4>1
    <3> QED
      BY <3>1, <3>2, <3>3 DEF Apart
  <2> QED
    BY <1>1, <2>1, <2>2, <2>3, <2>4
<1>4. Len(t) > 0 => u[Len(u)] = t[Len(t)]
  BY <1>1
<1> QED
  BY <1>1, <1>2, <1>3, <1>4 DEF u, Apart

\* The shortest texts.
LEMMA ApartFew ==
    /\ Apart(<<>>)
    /\ \A a : Apart(<<a>>)
    /\ \A w : Apart(<<Char("space"), Spoken(w)>>)
    /\ \A a : ~Touch(a, Char("space")) /\ ~Touch(Char("space"), a)
<1>1. \A a : ~Touch(a, Char("space")) /\ ~Touch(Char("space"), a)
  BY DEF Touch, Char
<1> QED
  BY <1>1 DEF Apart

\* The words of one number, and the spaces between them.
Phrase == {Char("space")} \cup {Spoken(w) : w \in Word}

LEMMA JoinApart ==
    ASSUME NEW w \in Seq(Word)
    PROVE  Join(w) \in Seq(Phrase) /\ Apart(Join(w))
<1> DEFINE q == [i \in 1..Len(w) |->
                    IF i = 1 THEN <<Spoken(w[i])>> ELSE <<Char("space"), Spoken(w[i])>>]
           n == Len(w)
<1>1. ASSUME NEW i \in 1..n
      PROVE  /\ q[i] \in Seq(Phrase) /\ Apart(q[i])
             /\ i = 1 \/ (Len(q[i]) = 2 /\ q[i][1] = Char("space"))
  <2>1. Spoken(w[i]) \in Phrase /\ Char("space") \in Phrase
    BY DEF Phrase
  <2>2. <<Spoken(w[i])>> \in Seq(Phrase) /\ <<Char("space"), Spoken(w[i])>> \in Seq(Phrase)
    BY <2>1
  <2>3. CASE i = 1
    BY <2>2, <2>3, ApartFew
  <2>4. CASE i # 1
    BY <2>2, <2>4, ApartFew
  <2> QED
    BY <2>3, <2>4
<1>2. Len(q) = n /\ n \in Nat
  OBVIOUS
<1>3. q \in Seq(Seq(Phrase))
  <2>1. \A i \in 1..n : q[i] \in Seq(Phrase)
    BY <1>1
  <2> QED
    BY <2>1
<1>4. Join(w) = FlattenSeq(q)
  BY DEF Join
<1> HIDE DEF q
<1>5. PICK f : PrefixesOf(q, Phrase, f)
  BY <1>3, FlattenSteps
<1> DEFINE T == {i \in 0..n : f[i] \in Seq(Phrase) /\ Apart(f[i])
                             /\ (i = 0 => f[i] = <<>>)}
<1>6. 0 \in T
  BY <1>2, <1>5, ApartFew DEF PrefixesOf
<1>7. ASSUME NEW i \in 1..n, i - 1 \in T
      PROVE  i \in T
  <2>1. f[i] = Cat(f[i - 1], q[i])
    BY <1>2, <1>3, <1>5, PrefixGrows
  <2>2. /\ f[i - 1] \in Seq(Phrase) /\ Apart(f[i - 1])
        /\ q[i] \in Seq(Phrase) /\ Apart(q[i])
    BY <1>1, <1>7
  <2>3. CASE i = 1
    <3>1. f[i - 1] = <<>>
      BY <1>7, <2>3
    <3>2. Len(f[i - 1]) = 0
      BY <3>1
    <3> QED
      BY <2>1, <2>2, <2>3, <3>2, ApartConcat
  <2>4. CASE i # 1
    <3>1. q[i][1] = Char("space")
      BY <1>1, <2>4
    <3>2. ~Touch(f[i - 1][Len(f[i - 1])], q[i][1])
      BY <3>1, ApartFew
    <3> QED
      BY <2>1, <2>2, <2>4, <3>2, ApartConcat
  <2> QED
    BY <2>3, <2>4
<1>8. \A i \in 0..n : i \in T
  <2> HIDE DEF T, n
  <2> QED
    BY <1>2, <1>6, <1>7, AllUpTo
<1>9. n \in 0..n /\ FlattenSeq(q) = f[n]
  BY <1>2, <1>5 DEF PrefixesOf
<1> QED
  BY <1>4, <1>8, <1>9

\* What a pass leaves of each character, and of the last digit of a number.
AllowedOf == [c \in Character |-> IF Allowed(c) THEN <<c>> ELSE <<>>]
Remainder(t, i) == IF ~IsDigit(t[i])
                   THEN IF Allowed(t[i]) THEN <<t[i]>> ELSE <<>>
                   ELSE IF RunEnds(t, i) THEN Join(Words[RunValue(t)[i]])
                   ELSE <<>>

\* The characters of a phrase are all allowed.
LEMMA PhraseKept ==
    ASSUME NEW t \in Seq(Phrase)
    PROVE  t \in Seq(Character) /\ Spread(AllowedOf, t) = t
<1>1. \A c \in Phrase : c \in Character /\ Allowed(c)
  BY SpaceAndWords DEF Phrase, Allowed
<1>2. \A i \in 1..Len(t) : t[i] \in Phrase
  OBVIOUS
<1>3. [i \in 1..Len(t) |-> AllowedOf[t[i]]] = [i \in 1..Len(t) |-> <<t[i]>>]
  BY <1>1, <1>2 DEF AllowedOf
<1>4. t \in Seq(Character)
  BY <1>1, <1>2
<1>5. Spread(AllowedOf, t) = t
  BY <1>3, FlattenSingletons DEF Spread
<1> QED
  BY <1>4, <1>5

\* The text before the spaces are cleaned is the concatenation of the rest.
LEMMA RemainderParts ==
    ASSUME NEW t \in Seq(Character)
    PROVE  /\ [i \in 1..Len(t) |-> Remainder(t, i)] \in Seq(Seq(Character))
           /\ StripUnsupported(ExpandDigits(t))
                = FlattenSeq([i \in 1..Len(t) |-> Remainder(t, i)])
<1> DEFINE p == [i \in 1..Len(t) |-> Piece(t, i)]
           v == ExpandDigits(t)
<1>1. AllowedOf \in [Character -> Seq(Character)]
  <2>1. \A c \in Character : (IF Allowed(c) THEN <<c>> ELSE <<>>) \in Seq(Character)
    OBVIOUS
  <2> QED
    BY <2>1 DEF AllowedOf
<1>2. /\ p \in Seq(Seq(Character)) /\ v = FlattenSeq(p) /\ Len(p) = Len(t)
      /\ v \in Seq(Undigited)
  BY ExpandPieces
<1>3. v \in Seq(Character)
  BY <1>2, SeqMonotonic DEF Undigited
<1>4. ASSUME NEW i \in 1..Len(t)
      PROVE  /\ Remainder(t, i) \in Seq(Character)
             /\ Spread(AllowedOf, Piece(t, i)) = Remainder(t, i)
  <2>1. t[i] \in Character /\ Words[RunValue(t)[i]] \in Seq(Word)
    BY PieceType
  <2>2. CASE ~IsDigit(t[i])
    <3>1. Spread(AllowedOf, <<t[i]>>) = AllowedOf[t[i]]
      BY <1>1, <2>1, SpreadOne
    <3> QED
      BY <2>1, <2>2, <3>1 DEF Piece, Remainder, AllowedOf
  <2>3. CASE IsDigit(t[i]) /\ RunEnds(t, i)
    <3>1. Join(Words[RunValue(t)[i]]) \in Seq(Phrase)
      BY <2>1, JoinApart
    <3> QED
      BY <2>3, <3>1, PhraseKept DEF Piece, Remainder
  <2>4. CASE IsDigit(t[i]) /\ ~RunEnds(t, i)
    BY <2>4, SpreadEmpty DEF Piece, Remainder
  <2> QED
    BY <2>2, <2>3, <2>4
<1>5. [i \in 1..Len(t) |-> Remainder(t, i)] \in Seq(Seq(Character))
  BY <1>4
<1>6. [i \in 1..Len(p) |-> Spread(AllowedOf, p[i])] = [i \in 1..Len(t) |-> Remainder(t, i)]
  BY <1>2, <1>4
<1> HIDE DEF p
<1>7. Spread(AllowedOf, v) = FlattenSeq([i \in 1..Len(p) |-> Spread(AllowedOf, p[i])])
  <2>1. Spreads(AllowedOf, Character, Character)
    BY <1>1 DEF Spreads
  <2>2. \A q \in Seq(Seq(Character)) :
           Spread(AllowedOf, FlattenSeq(q))
             = FlattenSeq([i \in 1..Len(q) |-> Spread(AllowedOf, q[i])])
    BY <2>1, SpreadEach
  <2> QED
    BY <1>2, <2>2, Zenon
<1> HIDE DEF v
<1>8. StripUnsupported(v) = Spread(AllowedOf, v)
  <2>1. \A i \in 1..Len(v) : v[i] \in Character
    BY <1>3
  <2>2. [i \in 1..Len(v) |-> IF i \in {k \in DOMAIN v : Allowed(v[k])}
                             THEN <<v[i]>> ELSE <<>>]
          = [i \in 1..Len(v) |-> AllowedOf[v[i]]]
    BY <1>3, <2>1 DEF AllowedOf
  <2> QED
    BY <2>2 DEF StripUnsupported, Keep, Spread
<1> QED
  BY <1>5, <1>6, <1>7, <1>8 DEF v

\* One more character at such a place.
LEMMA ApartAdd ==
    ASSUME NEW S, NEW s \in Seq(S), NEW c \in S, Apart(s),
           Len(s) = 0 \/ ~Touch(s[Len(s)], c)
    PROVE  /\ Cat(s, <<c>>) \in Seq(S) /\ Len(Cat(s, <<c>>)) = Len(s) + 1
           /\ Apart(Cat(s, <<c>>))
           /\ Cat(s, <<c>>)[Len(Cat(s, <<c>>))] = c
<1> DEFINE d == <<c>>
           u == Cat(s, d)
<1>1. d \in Seq(S) /\ Len(d) = 1 /\ d[1] = c /\ Apart(d)
  BY ApartFew
<1> HIDE DEF d
<1>2. Len(s) = 0 \/ Len(d) = 0 \/ ~Touch(s[Len(s)], d[1])
  BY <1>1
<1>3. /\ u \in Seq(S) /\ Len(u) = Len(s) + Len(d) /\ Apart(u)
      /\ Len(d) > 0 => u[Len(u)] = d[Len(d)]
  <2>1. s \in Seq(S) /\ d \in Seq(S) /\ Apart(s) /\ Apart(d)
    BY <1>1
  <2> QED
    BY <1>2, <2>1, ApartConcat, Zenon
<1> HIDE DEF u
<1>4. u \in Seq(S) /\ Len(u) = Len(s) + 1 /\ Apart(u) /\ u[Len(u)] = c
  BY <1>1, <1>3
<1> QED
  BY <1>4 DEF u, d

\* What is left of the first i characters of t, and where its last letter or
\* word comes from.
LastSaid(t, i, s, m) ==
    /\ \A k \in m + 1 .. i : ~Remains(t[k])
    /\ IF s[Len(s)].kind = "word" THEN IsDigit(t[m]) /\ RunEnds(t, m)
       ELSE t[m].kind = "letter"
ApartPrefix(t, i, s) ==
    /\ s \in Seq(Character) /\ Apart(s)
    /\ Open(s) \/ \E m \in 1..i : LastSaid(t, i, s, m)

\* The last letter or word is the last character: it is where it was put.
LEMMA EndsWith ==
    ASSUME NEW t \in Seq(RawCharacter), NEW i \in 1..Len(t), NEW s,
           s \in Seq(Character), Apart(s),
           Open(s) \/ (s[Len(s)].kind = "word" /\ IsDigit(t[i]) /\ RunEnds(t, i))
             \/ (s[Len(s)].kind = "letter" /\ t[i].kind = "letter")
    PROVE  ApartPrefix(t, i, s)
  BY DEF ApartPrefix, LastSaid

\* Each next character leaves the prefix apart, if the numbers are set apart.
LEMMA ApartStep ==
    ASSUME NEW t \in Seq(RawCharacter), SetApart(t), NEW i \in 1..Len(t), NEW s,
           ApartPrefix(t, i - 1, s)
    PROVE  ApartPrefix(t, i, Cat(s, Remainder(t, i)))
<1>8. s \in Seq(Character) /\ Apart(s)
  BY DEF ApartPrefix
<1>9. Cat(s, <<>>) = s
  BY <1>8, CatType
<1>0. s \in Seq(Character) /\ Apart(s) /\ Len(s) \in Nat /\ Cat(s, <<>>) = s
  BY <1>8, <1>9
<1>1. t[i] \in RawCharacter /\ t[i] \in Character /\ t[i].kind # "word"
  <2>1. t[i] \in RawCharacter /\ t[i] \in Character
    BY DEF Character
  <2> QED
    BY <2>1, CharacterFacts
<1>2. ASSUME IsDigit(t[i])
      PROVE  Open(s)
  <2>1. SUFFICES ASSUME NEW m \in 1..i - 1, LastSaid(t, i - 1, s, m), ~Open(s)
                 PROVE  FALSE
    BY DEF ApartPrefix
  <2>2. Said(t[m]) /\ Said(t[i]) /\ m < i /\ m \in DOMAIN t
    BY <1>2, <2>1 DEF Said, LastSaid, Open
  <2>3. i = m + 1 /\ IsDigit(t[m])
    BY <1>2, <2>1, <2>2 DEF SetApart, LastSaid
  <2>4. ~RunEnds(t, m)
    BY <1>2, <2>3 DEF RunEnds
  <2> QED
    BY <2>1, <2>3, <2>4 DEF LastSaid, Open, IsDigit
<1>3. ASSUME t[i].kind = "letter"
      PROVE  Len(s) = 0 \/ s[Len(s)].kind # "word"
  <2>1. SUFFICES ASSUME NEW m \in 1..i - 1, LastSaid(t, i - 1, s, m),
                        s[Len(s)].kind = "word"
                 PROVE  FALSE
    BY DEF ApartPrefix, Open
  <2>2. Said(t[m]) /\ Said(t[i]) /\ m < i /\ m \in DOMAIN t /\ IsDigit(t[m])
    BY <1>3, <2>1 DEF Said, LastSaid
  <2>3. ~IsDigit(t[i])
    BY <1>3 DEF IsDigit
  <2> QED
    BY <2>1, <2>2, <2>3 DEF SetApart, LastSaid
<1>4. CASE IsDigit(t[i]) /\ RunEnds(t, i)
  <2> DEFINE j == Join(Words[RunValue(t)[i]])
             u == Cat(s, j)
  <2>1. Words[RunValue(t)[i]] \in Seq(Word)
    <3>1. t \in Seq(Character)
      BY SeqMonotonic DEF Character
    <3> QED
      BY <3>1, PieceType
  <2>2. j \in Seq(Phrase) /\ Apart(j)
    BY <2>1, JoinApart
  <2>3. j \in Seq(Character)
    BY <2>2, PhraseKept
  <2>4. \A k \in 1..Len(j) : j[k].kind \in {"word", "space"}
    BY <2>2, SpaceAndWords DEF Phrase
  <2>5. Remainder(t, i) = j
    BY <1>4 DEF Remainder
  <2> HIDE DEF j
  <2>6. Open(s)
    BY <1>2, <1>4
  <2>7. Len(s) = 0 \/ ~Touch(s[Len(s)], j[1])
    BY <2>6 DEF Open, Touch
  <2>8. /\ u \in Seq(Character) /\ Apart(u) /\ Len(u) = Len(s) + Len(j)
        /\ Len(j) > 0 => u[Len(u)] = j[Len(j)]
        /\ Len(j) = 0 => u = s
    BY <1>0, <2>2, <2>3, <2>7, ApartConcat
  <2> HIDE DEF u
  <2>9. Open(u) \/ u[Len(u)].kind = "word"
    <3>1. CASE Len(j) = 0
      BY <2>6, <2>8, <3>1
    <3>2. CASE Len(j) > 0
      BY <2>3, <2>4, <2>8, <3>2 DEF Open
    <3> QED
      BY <2>3, <3>1, <3>2
  <2>10. ApartPrefix(t, i, u)
    BY <1>4, <2>8, <2>9, EndsWith
  <2> QED
    BY <2>5, <2>10 DEF u
<1>5. CASE IsDigit(t[i]) /\ ~RunEnds(t, i)
  <2>1. Open(s) /\ Remainder(t, i) = <<>>
    BY <1>2, <1>5 DEF Remainder
  <2> QED
    BY <1>0, <2>1, EndsWith
<1>6. CASE ~IsDigit(t[i]) /\ Allowed(t[i])
  <2> DEFINE c == t[i]
             u == Cat(s, <<c>>)
  <2>1. Remainder(t, i) = <<c>>
    BY <1>6 DEF Remainder
  <2>2. c.kind = "letter" \/ c.kind \notin {"letter", "word"}
    BY <1>1
  <2>3. Len(s) = 0 \/ ~Touch(s[Len(s)], c)
    BY <1>3, <2>2 DEF Touch
  <2>4. c \in Character /\ Apart(<<c>>)
    BY <1>1, ApartFew
  <2>5. c.kind = "letter" => t[i].kind = "letter"
    OBVIOUS
  <2> HIDE DEF c
  <2>7. /\ u \in Seq(Character) /\ Apart(u) /\ Len(u) = Len(s) + 1
        /\ u[Len(u)] = c
    BY <1>0, <2>3, <2>4, ApartAdd
  <2> HIDE DEF u
  <2>8. ApartPrefix(t, i, u)
    BY <2>2, <2>5, <2>7, EndsWith DEF Open
  <2> QED
    BY <2>1, <2>8 DEF u
<1>7. CASE ~IsDigit(t[i]) /\ ~Allowed(t[i])
  <2>1. Remainder(t, i) = <<>> /\ ~Remains(t[i])
    BY <1>7 DEF Remainder, Remains
  <2>2. ASSUME NEW m \in 1..i - 1, LastSaid(t, i - 1, s, m)
        PROVE  m \in 1..i /\ LastSaid(t, i, s, m)
    <3>1. \A k \in m + 1 .. i : k = i \/ k \in m + 1 .. i - 1
      OBVIOUS
    <3> QED
      BY <2>1, <2>2, <3>1 DEF LastSaid
  <2>3. ApartPrefix(t, i, s)
    BY <2>2 DEF ApartPrefix
  <2> QED
    BY <1>0, <2>1, <2>3
<1> QED
  BY <1>4, <1>5, <1>6, <1>7

\* So the whole text is apart, before its spaces are cleaned.
LEMMA StrippedApart ==
    ASSUME NEW t \in Seq(RawCharacter), SetApart(t)
    PROVE  Apart(StripUnsupported(ExpandDigits(t)))
<1> DEFINE p == [i \in 1..Len(t) |-> Remainder(t, i)]
           n == Len(t)
<1>1. t \in Seq(Character) /\ n \in Nat
  BY SeqMonotonic DEF Character
<1>2. /\ p \in Seq(Seq(Character)) /\ Len(p) = n
      /\ StripUnsupported(ExpandDigits(t)) = FlattenSeq(p)
      /\ \A i \in 1..n : p[i] = Remainder(t, i)
  BY <1>1, RemainderParts
<1> HIDE DEF p
<1>3. PICK f : PrefixesOf(p, Character, f)
  BY <1>2, FlattenSteps
<1> DEFINE T == {i \in 0..n : ApartPrefix(t, i, f[i])}
<1>4. 0 \in T
  <2>1. f[0] = <<>>
    BY <1>3 DEF PrefixesOf
  <2>2. ApartPrefix(t, 0, <<>>)
    BY ApartFew DEF ApartPrefix, Open
  <2> QED
    BY <1>1, <2>1, <2>2
<1>5. ASSUME NEW i \in 1..n, i - 1 \in T
      PROVE  i \in T
  <2>1. f[i] = Cat(f[i - 1], p[i])
    BY <1>2, <1>3, PrefixGrows
  <2>2. ApartPrefix(t, i - 1, f[i - 1])
    BY <1>5
  <2>3. ApartPrefix(t, i, f[i])
    BY <1>2, <2>1, <2>2, ApartStep
  <2> QED
    BY <2>3
<1>6. \A i \in 0..n : i \in T
  <2> HIDE DEF T, n
  <2> QED
    BY <1>1, <1>4, <1>5, AllUpTo
<1>7. n \in 0..n /\ FlattenSeq(p) = f[n]
  BY <1>1, <1>2, <1>3 DEF PrefixesOf
<1> QED
  BY <1>2, <1>6, <1>7 DEF ApartPrefix

\* What holds of the text whose first i characters have their spaces cleaned.
SpacedPrefix(t, i, s) ==
    /\ s \in Seq(Tidy) /\ Apart(s)
    /\ \/ Open(s)
       \/ \E m \in 1..i : /\ s[Len(s)] = t[m]
                          /\ \A k \in m + 1 .. i : IsSpace(t[k]) /\ k \notin Kept(t)

\* Cleaning the spaces brings nothing together.
LEMMA SpacedStep ==
    ASSUME NEW t \in Seq(Plain), Apart(t), NEW i \in 1..Len(t), NEW s,
           SpacedPrefix(t, i - 1, s)
    PROVE  SpacedPrefix(t, i, Cat(s, IF i \in Kept(t) THEN <<Spaced(t)[i]>> ELSE <<>>))
<1> DEFINE c == Spaced(t)[i]
           u == Cat(s, <<c>>)
<1>8. s \in Seq(Tidy) /\ Apart(s)
  BY DEF SpacedPrefix
<1>9. Cat(s, <<>>) = s
  BY <1>8, CatType
<1>0. s \in Seq(Tidy) /\ Apart(s) /\ Len(s) \in Nat /\ Cat(s, <<>>) = s
  BY <1>8, <1>9
<1>1. /\ c \in Tidy
      /\ ~IsSpace(t[i]) => c = t[i]
      /\ IsSpace(t[i]) => c.kind = "space"
  BY SpacedType
<1>2. CASE i \in Kept(t)
  <2>1. ASSUME ~Open(s), Touch(s[Len(s)], c)
        PROVE  FALSE
    <3>1. PICK m \in 1..i - 1 :
             /\ s[Len(s)] = t[m]
             /\ \A k \in m + 1 .. i - 1 : IsSpace(t[k]) /\ k \notin Kept(t)
      BY <2>1 DEF SpacedPrefix
    <3>2. c = t[i] /\ ~IsSpace(t[i]) /\ ~IsSpace(t[m])
      BY <1>1, <2>1, <3>1 DEF Touch, IsSpace
    <3>3. CASE m = i - 1
      <4>1. m \in 1..Len(t) - 1 /\ m + 1 = i
        BY <3>3
      <4> QED
        BY <2>1, <3>1, <3>2, <4>1 DEF Apart
    <3>4. CASE m # i - 1
      <4>1. /\ m + 1 \in m + 1 .. i - 1 /\ m + 1 \in DOMAIN t
            /\ m + 1 > 1 /\ (m + 1) - 1 = m
            /\ i \in (m + 1) + 1 .. Len(t)
        BY <3>4
      <4>2. m + 1 \in Kept(t)
        BY <3>2, <4>1 DEF Kept
      <4> QED
        BY <3>1, <4>1, <4>2
    <3> QED
      BY <3>3, <3>4
  <2>2. Len(s) = 0 \/ ~Touch(s[Len(s)], c)
    BY <2>1 DEF Open, Touch
  <2> HIDE DEF c
  <2>4. /\ u \in Seq(Tidy) /\ Apart(u) /\ Len(u) = Len(s) + 1
        /\ u[Len(u)] = c
    BY <1>0, <1>1, <2>2, ApartAdd
  <2> HIDE DEF u
  <2>5. Open(u) \/ u[Len(u)] = t[i]
    BY <1>1, <2>4 DEF Open
  <2>6. SpacedPrefix(t, i, u)
    BY <2>4, <2>5 DEF SpacedPrefix
  <2> QED
    BY <1>2, <2>6 DEF u, c
<1>3. CASE i \notin Kept(t)
  <2>1. IsSpace(t[i])
    BY <1>3 DEF Kept
  <2>2. ASSUME NEW m \in 1..i - 1,
               \A k \in m + 1 .. i - 1 : IsSpace(t[k]) /\ k \notin Kept(t)
        PROVE  m \in 1..i /\ \A k \in m + 1 .. i : IsSpace(t[k]) /\ k \notin Kept(t)
    <3>1. \A k \in m + 1 .. i : k = i \/ k \in m + 1 .. i - 1
      OBVIOUS
    <3> QED
      BY <1>3, <2>1, <2>2, <3>1
  <2>3. SpacedPrefix(t, i, s)
    BY <2>2 DEF SpacedPrefix
  <2> QED
    BY <1>0, <1>3, <2>3
<1> QED
  BY <1>2, <1>3

LEMMA SpacesApart ==
    ASSUME NEW t \in Seq(Plain), Apart(t)
    PROVE  Apart(NormalizeSpaces(t))
<1> DEFINE v == Spaced(t)
           p == Parts(v, Kept(t))
           n == Len(t)
<1>1. /\ v \in Seq(Tidy) /\ Len(v) = n /\ n \in Nat
      /\ \A i \in 1..n : v[i] \in Tidy
  BY SpacedType
<1>2. /\ p \in Seq(Seq(Tidy)) /\ Len(p) = n
      /\ \A i \in 1..n : p[i] = IF i \in Kept(t) THEN <<v[i]>> ELSE <<>>
  <2> HIDE DEF v
  <2> QED
    BY <1>1, PartsType
<1>3. NormalizeSpaces(t) = FlattenSeq(p)
  BY DEF NormalizeSpaces, Keep, Parts, Kept
<1> HIDE DEF p
<1>4. PICK f : PrefixesOf(p, Tidy, f)
  BY <1>2, FlattenSteps
<1> DEFINE T == {i \in 0..n : SpacedPrefix(t, i, f[i])}
<1>5. 0 \in T
  <2>1. f[0] = <<>>
    BY <1>4 DEF PrefixesOf
  <2>2. SpacedPrefix(t, 0, <<>>)
    BY ApartFew DEF SpacedPrefix, Open
  <2> QED
    BY <1>1, <2>1, <2>2
<1>6. ASSUME NEW i \in 1..n, i - 1 \in T
      PROVE  i \in T
  <2>1. f[i] = Cat(f[i - 1], p[i])
    BY <1>2, <1>4, PrefixGrows
  <2>2. SpacedPrefix(t, i - 1, f[i - 1])
    BY <1>6
  <2>3. SpacedPrefix(t, i, f[i])
    BY <1>2, <2>1, <2>2, SpacedStep
  <2> QED
    BY <2>3
<1>7. \A i \in 0..n : i \in T
  <2> HIDE DEF T, n
  <2> QED
    BY <1>1, <1>5, <1>6, AllUpTo
<1>8. n \in 0..n /\ FlattenSeq(p) = f[n]
  BY <1>1, <1>2, <1>4 DEF PrefixesOf
<1> QED
  BY <1>3, <1>7, <1>8 DEF SpacedPrefix

\* Of the numbers that are set apart in a written text, no two phrases run
\* together, nor does one with a letter.
LEMMA NumbersStayApart ==
    ASSUME NEW t \in Seq(RawCharacter), SetApart(StripTags(StripUrls(t)))
    PROVE  Apart(NormalizeText(t))
<1> DEFINE u == StripTags(StripUrls(t))
<1>1. u \in Seq(RawCharacter) /\ t \in Seq(Character)
  <2>1. t \in Seq(Character)
    BY SeqMonotonic DEF Character
  <2> QED
    BY <2>1, StripType
<1>2. Stripped(t) = StripUnsupported(ExpandDigits(u))
  BY DEF Stripped
<1> HIDE DEF u
<1>3. Apart(Stripped(t)) /\ Stripped(t) \in Seq(Plain)
  BY <1>1, <1>2, StrippedApart, StrippedIsPlain DEF u
<1>4. NormalizeText(t) = NormalizeSpaces(Stripped(t))
  BY DEF NormalizeText, Stripped
<1> QED
  BY <1>3, <1>4, SpacesApart

-----------------------------------------------------------------------------
(***************************************************************************)
(* The specification: passes over a caller's text.                         *)
(***************************************************************************)

\* The inductive invariant.
IInv == /\ raw \in Texts
        /\ passes \in Nat
        /\ \/ passes > 0 /\ text = NormalizeText(raw)
           \/ text = raw /\ (passes = 0 \/ NormalizeText(raw) = <<>>)

\* A caller's text is a text.
LEMMA RawTexts == ASSUME IInv
                  PROVE  raw \in Seq(RawCharacter) /\ raw \in Seq(Character)
<1>1. raw \in Seq(RawCharacter)
  BY TextsAssumption DEF IInv
<1> QED
  BY <1>1, SeqMonotonic DEF Character

\* Of the text a caller hands in, the first pass makes a clean text, which
\* the second leaves alone.
LEMMA SecondPass ==
    ASSUME IInv
    PROVE  /\ NormalizeText(NormalizeText(raw)) = NormalizeText(raw)
           /\ Clean(NormalizeText(raw))
<1>1. raw \in Seq(Character)
  BY RawTexts
<1> QED
  BY <1>1, NormalizedIsClean, CleanIsLeftAlone

\* The text is the caller's, or the one pass over it: two passes are one.
LEMMA TextIsRawOrNormalized == Spec => []IInv
<1>1. Init => IInv
  BY DEF Init, IInv
<1>2. ASSUME IInv, [Next]_vars
      PROVE  IInv'
  <2>1. NormalizeText(NormalizeText(raw)) = NormalizeText(raw)
    BY <1>2, SecondPass
  <2>2. CASE Normalize
    BY <1>2, <2>1, <2>2 DEF Normalize, IInv
  <2>3. CASE Synthesize
    BY <1>2, <2>1, <2>3 DEF Synthesize, IInv
  <2>4. CASE UNCHANGED vars
    BY <1>2, <2>4 DEF vars, IInv
  <2> QED
    BY <1>2, <2>2, <2>3, <2>4 DEF Next
<1> QED
  BY <1>1, <1>2, PTL DEF Spec

\* What a pass returns is clean, for every text a caller may hand in
\* (normalizer.py, normalize_text; engine.py, synthesize).
THEOREM EveryPassIsClean == Spec => []PassIsClean
<1>1. ASSUME IInv
      PROVE  PassIsClean
  BY <1>1, SecondPass DEF IInv, PassIsClean
<1> QED
  BY <1>1, TextIsRawOrNormalized, PTL

\* Passes after the first change nothing, unless nothing was left of the text.
THEOREM SecondPassIsIdle == Spec => SecondPassChangesNothing
<1> DEFINE Left == passes > 0 => text' = text \/ NormalizeText(raw) = <<>>
<1>1. ASSUME IInv, [Next]_vars
      PROVE  [Left]_vars
  <2>1. NormalizeText(NormalizeText(raw)) = NormalizeText(raw)
    BY <1>1, SecondPass
  <2> QED
    BY <1>1, <2>1 DEF IInv, Next, Normalize, Synthesize, vars
<1>2. Spec => [][Left]_vars
  BY <1>1, TextIsRawOrNormalized, PTL DEF Spec
<1> QED
  BY <1>2 DEF SecondPassChangesNothing

\* Every number of the text is spoken, in order, its phrase heard as the number
\* that was written; and phrases of numbers set apart in the text stay apart.
THEOREM EveryNumberIsHeard == Spec => []NumbersAreHeard
<1>1. ASSUME IInv
      PROVE  NumbersAreHeard
  <2> DEFINE numbers == Numbers(StripTags(StripUrls(raw)))
  <2>1. /\ numbers \in Seq(Nat)
        /\ WordsIn(NormalizeText(raw)) = Spell(numbers)
        /\ WordsIn(NormalizeText(raw)) \in Seq(Word)
    BY <1>1, RawTexts, WordsAreTheNumbers
  <2>2. SUFFICES ASSUME Clean(text)
                 PROVE  /\ Range(WordsIn(text)) \subseteq Word
                        /\ WordsIn(text) = Spell(numbers)
                        /\ \A k \in 1..Len(numbers) : Hear(Words[numbers[k]]) = numbers[k]
                        /\ SetApart(StripTags(StripUrls(raw))) => Apart(text)
    BY DEF NumbersAreHeard
  <2>3. text = NormalizeText(raw)
    <3>1. CASE text = raw
      BY <1>1, <2>2, <3>1, RawTexts, CleanIsLeftAlone
    <3> QED
      BY <1>1, <3>1 DEF IInv
  <2>7. SetApart(StripTags(StripUrls(raw))) => Apart(text)
    BY <1>1, <2>3, RawTexts, NumbersStayApart
  <2> HIDE DEF numbers
  <2>4. \A k \in 1..Len(numbers) : numbers[k] \in Nat
    BY <2>1
  <2>5. \A k \in 1..Len(numbers) : Hear(Words[numbers[k]]) = numbers[k]
    BY <2>4, NumbersHeard
  <2>6. Range(WordsIn(text)) \subseteq Word
    <3>1. WordsIn(text) \in Seq(Word)
      BY <2>1, <2>3
    <3> HIDE DEF WordsIn
    <3> QED
      BY <3>1 DEF Range
  <2> QED
    BY <2>1, <2>3, <2>5, <2>6, <2>7
<1> QED
  BY <1>1, TextIsRawOrNormalized, PTL
=============================================================================
