-------------------------- MODULE TrustListsProofs --------------------------
(***************************************************************************)
(* Facts about the sequences that trust lists are made of.  The provers    *)
(* take no induction principle with an operator parameter; induction is    *)
(* done here with the least number of a set, which needs none.             *)
(***************************************************************************)
EXTENDS TrustLists, SequenceTheorems, WellFoundedInduction, TLAPS

\* A set of natural numbers that is not empty has a least element.
LEMMA LeastNumber ==
  ASSUME NEW S \in SUBSET Nat, S # {}
  PROVE  \E i \in S : \A j \in S : i <= j
<1>1. PICK i \in S : \A j \in S : ~(<<j, i>> \in OpToRel(<, Nat))
  BY NatLessThanWellFounded, WFMin, Zenon
<1>2. \A j \in S : ~(j < i)
  BY <1>1, Zenon DEF OpToRel
<1>. QED
  BY <1>2

\* The members of a sequence are in the set it is a sequence over.
LEMMA MembersTyped ==
  ASSUME NEW S, NEW s \in Seq(S)
  PROVE  /\ Range(s) \subseteq S
         /\ s # <<>> => s[1] \in S
         /\ \A i \in 1..Len(s) : s[i] \in Range(s)
<1>1. DOMAIN s = 1..Len(s) /\ \A i \in 1..Len(s) : s[i] \in S
  BY LenProperties, ElementOfSeq
<1>2. s # <<>> => 1 \in 1..Len(s)
  BY EmptySeq
<1>3. Range(s) \subseteq S
  BY <1>1 DEF Range
<1>4. s # <<>> => s[1] \in S
  BY <1>1, <1>2
<1>5. \A i \in 1..Len(s) : s[i] \in Range(s)
  BY <1>1 DEF Range
<1>. QED
  BY <1>3, <1>4, <1>5

(***************************************************************************)
(* FlattenSeq                                                              *)
(***************************************************************************)
\* f flattens the first n members of seqs step by step.
IsFlatten(f, seqs, n) ==
  f = [i \in 1..n |-> IF i = 1 THEN seqs[i] ELSE f[i - 1] \o seqs[i]]

\* s and t have the same first n members.
AgreeTo(s, t, n) == \A i \in 1..n : s[i] = t[i]

\* A step of it.
LEMMA FlattenStep ==
  ASSUME NEW f, NEW seqs, NEW n, IsFlatten(f, seqs, n), NEW i \in 1..n
  PROVE  f[i] = IF i = 1 THEN seqs[i] ELSE f[i - 1] \o seqs[i]
<1>. DEFINE h == [j \in 1..n |-> IF j = 1 THEN seqs[j] ELSE f[j - 1] \o seqs[j]]
<1>1. f = h
  BY Zenon DEF IsFlatten
<1>2. h[i] = IF i = 1 THEN seqs[i] ELSE f[i - 1] \o seqs[i]
  BY Zenon
<1>. HIDE DEF h
<1>. QED
  BY <1>1, <1>2, Zenon

\* Any sequence can be flattened step by step.
LEMMA FlattenExists ==
  ASSUME NEW seqs, NEW n \in Nat
  PROVE  \E f : IsFlatten(f, seqs, n)
<1>. DEFINE Bad == {k \in Nat : ~ \E f : IsFlatten(f, seqs, k)}
<1>. SUFFICES ASSUME Bad # {} PROVE FALSE
  OBVIOUS
<1>1. PICK k \in Bad : \A j \in Bad : k <= j
  BY LeastNumber
<1>2. CASE k = 0
  <2>1. IsFlatten([i \in 1..0 |-> seqs], seqs, 0)
    BY DEF IsFlatten
  <2>. QED
    BY <1>1, <1>2, <2>1
<1>3. CASE k # 0
  <2>1. k - 1 \in Nat /\ k - 1 \notin Bad
    BY <1>1, <1>3
  <2>2. PICK f : IsFlatten(f, seqs, k - 1)
    BY <2>1
  <2>. DEFINE g == [i \in 1..k |-> IF i < k THEN f[i]
                                  ELSE IF i = 1 THEN seqs[i] ELSE f[i - 1] \o seqs[i]]
  <2>3. \A i \in 1..k : g[i] = IF i = 1 THEN seqs[i] ELSE g[i - 1] \o seqs[i]
    <3>1. \A i \in 1..(k - 1) : f[i] = IF i = 1 THEN seqs[i] ELSE f[i - 1] \o seqs[i]
      BY <2>2 DEF IsFlatten
    <3>. QED
      BY <3>1, <1>3
  <2>4. IsFlatten(g, seqs, k)
    BY <2>3, Zenon DEF IsFlatten
  <2>. QED
    BY <1>1, <2>4
<1>. QED
  BY <1>2, <1>3

\* Step by step two sequences flatten alike as far as they agree.
LEMMA FlattenUnique ==
  ASSUME NEW s, NEW t, NEW m \in Nat, NEW n \in Nat, m <= n, AgreeTo(s, t, m),
         NEW f, IsFlatten(f, s, m), NEW g, IsFlatten(g, t, n)
  PROVE  AgreeTo(f, g, m)
<1>. DEFINE Bad == {i \in 1..m : f[i] # g[i]}
<1>. SUFFICES ASSUME Bad # {} PROVE FALSE
  BY DEF AgreeTo
<1>1. Bad \in SUBSET Nat
  OBVIOUS
<1>2. PICK i \in Bad : \A j \in Bad : i <= j
  BY <1>1, LeastNumber
<1>3. /\ i \in 1..m /\ i \in 1..n /\ s[i] = t[i]
      /\ f[i] # g[i]
  BY DEF AgreeTo
<1>5. /\ f[i] = IF i = 1 THEN s[i] ELSE f[i - 1] \o s[i]
      /\ g[i] = IF i = 1 THEN t[i] ELSE g[i - 1] \o t[i]
  <2>. HIDE DEF Bad
  <2>. QED
    BY <1>3, Zenon DEF IsFlatten
<1>4. i # 1 => f[i - 1] = g[i - 1]
  <2>1. i # 1 => i - 1 \in 1..m /\ i - 1 \notin Bad
    BY <1>2
  <2>. QED
    BY <2>1
<1>. QED
  BY <1>3, <1>4, <1>5

\* FlattenSeq takes the last of the steps.
LEMMA FlattenSteps ==
  ASSUME NEW seqs, Len(seqs) \in Nat \ {0}
  PROVE  \E f : IsFlatten(f, seqs, Len(seqs)) /\ FlattenSeq(seqs) = f[Len(seqs)]
<1>. DEFINE f == CHOOSE f : f = [i \in 1..Len(seqs) |->
                                   IF i = 1 THEN seqs[i] ELSE f[i - 1] \o seqs[i]]
<1>1. FlattenSeq(seqs) = f[Len(seqs)]
  BY Zenon DEF FlattenSeq
<1>2. IsFlatten(f, seqs, Len(seqs))
  BY FlattenExists, Zenon DEF IsFlatten
<1>. QED
  BY <1>1, <1>2, Zenon

\* Nothing flattens to nothing.
LEMMA FlattenNothing ==
  ASSUME NEW seqs, Len(seqs) = 0
  PROVE  FlattenSeq(seqs) = seqs
BY Zenon DEF FlattenSeq

\* One member more at the end appends that member.
LEMMA FlattenLonger ==
  ASSUME NEW S, NEW s \in Seq(Seq(S)), NEW t \in Seq(Seq(S)), Len(t) = Len(s) + 1,
         \A i \in 1..Len(s) : t[i] = s[i]
  PROVE  FlattenSeq(t) = FlattenSeq(s) \o t[Len(t)]
<1>0. PICK n \in Nat, m \in Nat \ {0} : n = Len(s) /\ m = Len(t)
  BY LenProperties
<1>1. m = n + 1 /\ m \in 1..m /\ m - 1 = n /\ t[m] \in Seq(S)
  BY <1>0, ElementOfSeq
<1>2. PICK g : IsFlatten(g, t, m) /\ FlattenSeq(t) = g[m]
  BY <1>0, FlattenSteps
<1>3. g[m] = IF m = 1 THEN t[m] ELSE g[m - 1] \o t[m]
  BY <1>1, <1>2, FlattenStep
<1>4. CASE n = 0
  <2>1. s = <<>>
    BY <1>0, <1>4, EmptySeq
  <2>2. FlattenSeq(s) = s
    BY <1>0, <1>4, FlattenNothing
  <2>. QED
    BY <1>0, <1>1, <1>2, <1>3, <1>4, <2>1, <2>2, ConcatEmptySeq
<1>5. CASE n # 0
  <2>1. PICK f : IsFlatten(f, s, n) /\ FlattenSeq(s) = f[n]
    BY <1>0, <1>5, FlattenSteps
  <2>2. n <= m /\ m \in Nat /\ n \in 1..n /\ m # 1 /\ AgreeTo(s, t, n)
    BY <1>0, <1>1, <1>5 DEF AgreeTo
  <2>3. AgreeTo(f, g, n)
    BY <1>2, <2>1, <2>2, FlattenUnique
  <2>. QED
    BY <1>0, <1>1, <1>2, <1>3, <2>1, <2>2, <2>3 DEF AgreeTo
<1>. QED
  BY <1>4, <1>5

\* Sequences over a set flatten to a sequence over it.
LEMMA FlattenTyped ==
  ASSUME NEW S, NEW s \in Seq(Seq(S))
  PROVE  FlattenSeq(s) \in Seq(S)
<1>0. PICK n \in Nat : n = Len(s)
  BY LenProperties
<1>1. CASE n = 0
  BY <1>0, <1>1, FlattenNothing, EmptySeq
<1>2. CASE n # 0
  <2>1. PICK f : IsFlatten(f, s, n) /\ FlattenSeq(s) = f[n]
    BY <1>0, <1>2, FlattenSteps
  <2>. DEFINE Bad == {i \in 1..n : f[i] \notin Seq(S)}
  <2>2. ASSUME Bad # {} PROVE FALSE
    <3>0. Bad \in SUBSET Nat
      OBVIOUS
    <3>1. PICK i \in Bad : \A j \in Bad : i <= j
      BY <2>2, <3>0, LeastNumber
    <3>2. i \in 1..n /\ f[i] \notin Seq(S) /\ s[i] \in Seq(S)
      BY <1>0, ElementOfSeq
    <3>3. f[i] = IF i = 1 THEN s[i] ELSE f[i - 1] \o s[i]
      BY <2>1, <3>2, FlattenStep
    <3>4. i # 1 => f[i - 1] \in Seq(S)
      <4>1. i # 1 => i - 1 \in 1..n /\ i - 1 \notin Bad
        BY <3>1, <3>2
      <4>. QED
        BY <4>1
    <3>. QED
      BY <3>2, <3>3, <3>4, ConcatProperties
  <2>3. n \in 1..n
    BY <1>2
  <2>. QED
    BY <2>1, <2>2, <2>3
<1>. QED
  BY <1>1, <1>2

\* Flattening n sequences and one more.
LEMMA FlattenMore ==
  ASSUME NEW S, NEW n \in Nat, NEW s \in [1..n -> Seq(S)], NEW t \in [1..(n + 1) -> Seq(S)],
         \A i \in 1..n : t[i] = s[i]
  PROVE  /\ FlattenSeq(s) \in Seq(S)
         /\ FlattenSeq(t) = FlattenSeq(s) \o t[n + 1]
<1>1. s \in Seq(Seq(S)) /\ t \in Seq(Seq(S)) /\ Len(s) = n /\ Len(t) = n + 1
  OBVIOUS
<1>2. FlattenSeq(t) = FlattenSeq(s) \o t[Len(t)]
  BY <1>1, FlattenLonger
<1>. QED
  BY <1>1, <1>2, FlattenTyped
=============================================================================
