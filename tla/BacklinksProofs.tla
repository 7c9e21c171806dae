---------------------------- MODULE BacklinksProofs ----------------------------
(***************************************************************************)
(* The backlinks processor, for all values of the constants that           *)
(* LimitsAssumption allows: no edge is lost, the checks made on a copy     *)
(* hold for the documents, and what is buffered is bounded and counted.    *)
(*                                                                         *)
(* Byte counts are sums of Folds, and _admit_members is a loop; what the   *)
(* proofs need of both is derived from their recursive definitions first.  *)
(***************************************************************************)
EXTENDS Backlinks, FiniteSetTheorems, FunctionTheorems, SequenceTheorems,
        WellFoundedInduction, TLAPS

-----------------------------------------------------------------------------
(* Sums of a function's values.  Folds defines a sum by recursion over the *)
(* subsets of its index set; counting the cells below the function's graph *)
(* satisfies the same recursion, and nothing else does.                    *)

Cells(f, S) == {c \in S \X Nat : c[2] \in 1 .. f[c[1]]}
Sum(f, S)   == SumFunctionOnSet(f, S)

\* What Folds computes on the subsets of S.
Unfolds(iter, f, S) ==
    iter = [s \in SUBSET S |->
              IF s = {} THEN 0
              ELSE f[CHOOSE x \in s : TRUE] + iter[s \ {CHOOSE x \in s : TRUE}]]

\* One index has as many cells as its value says.
LEMMA CellsOfOne ==
    ASSUME NEW f, NEW x, f[x] \in Nat
    PROVE  IsFiniteSet(Cells(f, {x})) /\ Cardinality(Cells(f, {x})) = f[x]
  <1>1. Cells(f, {x}) = {x} \X (1 .. f[x])
    BY DEF Cells
  <1>2. IsFiniteSet({x}) /\ Cardinality({x}) = 1
    BY FS_Singleton
  <1>3. IsFiniteSet(1 .. f[x]) /\ Cardinality(1 .. f[x]) = f[x]
    BY FS_Interval
  <1>4. /\ IsFiniteSet({x} \X (1 .. f[x]))
        /\ Cardinality({x} \X (1 .. f[x])) = Cardinality({x}) * Cardinality(1 .. f[x])
    BY <1>2, <1>3, FS_Product
  <1>5. Cardinality({x}) * Cardinality(1 .. f[x]) = f[x]
    <2>1. \A n \in Nat : 1 * n = n
      OBVIOUS
    <2> QED
      BY <1>2, <1>3, <2>1
  <1> QED
    BY <1>1, <1>4, <1>5

\* A finite index set has finitely many cells.
LEMMA CellsFinite ==
    ASSUME NEW S, IsFiniteSet(S), NEW f, \A x \in S : f[x] \in Nat
    PROVE  IsFiniteSet(Cells(f, S)) /\ Cardinality(Cells(f, S)) \in Nat
  <1> DEFINE row == [x \in S |-> Cells(f, {x})]
             rows == {row[x] : x \in S}
  <1>1. \A x \in S : IsFiniteSet(row[x])
    BY CellsOfOne
  <1>2. row \in Surjection(S, rows)
    BY DEF Surjection
  <1>3. IsFiniteSet(rows)
    BY <1>2, FS_Surjection
  <1>4. IsFiniteSet(UNION rows)
    BY <1>1, <1>3, FS_UNION
  <1>5. Cells(f, S) = UNION rows
    BY DEF Cells
  <1> QED
    BY <1>4, <1>5, FS_CardinalityType

\* The cells of two sets without a common index.
LEMMA CellsSplit ==
    ASSUME NEW S, IsFiniteSet(S), NEW f, \A x \in S : f[x] \in Nat,
           NEW A, NEW B, A \cup B = S, A \cap B = {}
    PROVE  Cardinality(Cells(f, S)) = Cardinality(Cells(f, A)) + Cardinality(Cells(f, B))
  <1>1. IsFiniteSet(A) /\ IsFiniteSet(B)
    <2>1. A \in SUBSET S /\ B \in SUBSET S
      OBVIOUS
    <2> QED
      BY <2>1, FS_Subset
  <1>2. /\ IsFiniteSet(Cells(f, A)) /\ Cardinality(Cells(f, A)) \in Nat
        /\ IsFiniteSet(Cells(f, B)) /\ Cardinality(Cells(f, B)) \in Nat
    BY <1>1, CellsFinite
  <1>3. Cells(f, S) = Cells(f, A) \cup Cells(f, B)
    BY DEF Cells
  <1>4. Cells(f, A) \cap Cells(f, B) = {}
    BY DEF Cells
  <1>5. Cardinality({}) = 0
    BY FS_EmptySet
  <1>6. Cardinality(Cells(f, A) \cup Cells(f, B)) =
            Cardinality(Cells(f, A)) + Cardinality(Cells(f, B)) - Cardinality(Cells(f, A) \cap Cells(f, B))
    BY <1>2, FS_Union
  <1>7. \A m, n \in Nat : m + n - 0 = m + n
    OBVIOUS
  <1>8. Cardinality(Cells(f, A) \cup Cells(f, B)) = Cardinality(Cells(f, A)) + Cardinality(Cells(f, B))
    BY <1>2, <1>4, <1>5, <1>6, <1>7
  <1> QED
    BY <1>3, <1>8

\* Counting cells satisfies the recursion of Folds.
LEMMA CountUnfolds ==
    ASSUME NEW S, IsFiniteSet(S), NEW f, \A x \in S : f[x] \in Nat
    PROVE  Unfolds([s \in SUBSET S |-> Cardinality(Cells(f, s))], f, S)
  <1> DEFINE g == [s \in SUBSET S |-> Cardinality(Cells(f, s))]
             c(s) == CHOOSE x \in s : TRUE
  <1>1. ASSUME NEW s \in SUBSET S, s = {}
        PROVE  g[s] = 0
    <2>1. Cells(f, s) = {}
      BY <1>1 DEF Cells
    <2> QED
      BY <2>1, FS_EmptySet
  <1>2. ASSUME NEW s \in SUBSET S, s # {}
        PROVE  g[s] = f[c(s)] + g[s \ {c(s)}]
    <2>1. c(s) \in s
      BY <1>2
    <2> DEFINE x == c(s)
    <2> HIDE DEF x
    <2>2. x \in s /\ f[x] \in Nat
      BY <2>1 DEF x
    <2>3. IsFiniteSet(s)
      BY FS_Subset
    <2>4. Cardinality(Cells(f, s)) =
              Cardinality(Cells(f, {x})) + Cardinality(Cells(f, s \ {x}))
      <3>1. {x} \cup (s \ {x}) = s /\ {x} \cap (s \ {x}) = {}
        BY <2>2
      <3>2. \A y \in s : f[y] \in Nat
        OBVIOUS
      <3> QED
        BY <2>3, <3>1, <3>2, CellsSplit
    <2>5. Cardinality(Cells(f, {x})) = f[x]
      BY <2>2, CellsOfOne
    <2>6. g[s] = f[x] + g[s \ {x}]
      BY <2>4, <2>5
    <2> QED
      BY <2>6 DEF x
  <1> HIDE DEF c
  <1>3. g = [s \in SUBSET S |-> IF s = {} THEN 0 ELSE f[c(s)] + g[s \ {c(s)}]]
    <2>1. \A s \in SUBSET S : g[s] = IF s = {} THEN 0 ELSE f[c(s)] + g[s \ {c(s)}]
      BY <1>1, <1>2
    <2> QED
      BY <2>1, Zenon
  <1> QED
    BY <1>3 DEF Unfolds, c

\* Nothing else satisfies it.
LEMMA UnfoldsOnce ==
    ASSUME NEW S, IsFiniteSet(S), NEW f, NEW g, NEW h, Unfolds(g, f, S), Unfolds(h, f, S)
    PROVE  \A s \in SUBSET S : g[s] = h[s]
  <1> DEFINE T == {s \in SUBSET S : g[s] # h[s]}
             c(s) == CHOOSE x \in s : TRUE
  <1>0. \A s \in SUBSET S : s # {} => c(s) \in s
    OBVIOUS
  <1>1. /\ \A s \in SUBSET S : g[s] = IF s = {} THEN 0 ELSE f[c(s)] + g[s \ {c(s)}]
        /\ \A s \in SUBSET S : h[s] = IF s = {} THEN 0 ELSE f[c(s)] + h[s \ {c(s)}]
    BY Zenon DEF Unfolds
  <1> HIDE DEF c
  <1> SUFFICES ASSUME T # {}
               PROVE  FALSE
    OBVIOUS
  <1>2. PICK s \in T : \A y \in T : ~(<<y, s>> \in StrictSubsetOrdering(S))
    <2>1. T \subseteq FiniteSubsetsOf(S)
      BY FS_FiniteSubsetsOfFinite
    <2> QED
      BY <2>1, FS_StrictSubsetOrderingWellFounded, WFMin
  <1>3. s # {}
    BY <1>1
  <1> DEFINE y == s \ {c(s)}
  <1>4. c(s) \in s /\ y \in SUBSET S /\ y # s /\ y \subseteq s
    BY <1>0, <1>3
  <1>5. <<y, s>> \in StrictSubsetOrdering(S)
    BY <1>4 DEF StrictSubsetOrdering
  <1>6. g[y] = h[y]
    BY <1>2, <1>4, <1>5
  <1>7. g[s] = f[c(s)] + g[y] /\ h[s] = f[c(s)] + h[y]
    BY <1>1, <1>3
  <1> QED
    BY <1>6, <1>7

\* The sum is the number of the cells.
LEMMA SumIsCount ==
    ASSUME NEW S, IsFiniteSet(S), NEW f, \A x \in S : f[x] \in Nat
    PROVE  Sum(f, S) = Cardinality(Cells(f, S))
  <1> DEFINE iter == CHOOSE h : h = [s \in SUBSET S |->
                IF s = {} THEN 0
                ELSE f[CHOOSE x \in s : TRUE] + h[s \ {CHOOSE x \in s : TRUE}]]
             g == [s \in SUBSET S |-> Cardinality(Cells(f, s))]
  <1>1. Unfolds(g, f, S)
    BY CountUnfolds
  <1>2. Unfolds(iter, f, S)
    <2>1. \E h : Unfolds(h, f, S)
      BY <1>1
    <2> QED
      BY <2>1, Zenon DEF Unfolds
  <1>3. Sum(f, S) = iter[S]
    BY DEF Sum, SumFunctionOnSet, FoldFunctionOnSet, MapThenFoldSet
  <1>4. iter[S] = g[S]
    <2> HIDE DEF iter, g
    <2> QED
      BY <1>1, <1>2, UnfoldsOnce
  <1> QED
    BY <1>3, <1>4
-----------------------------------------------------------------------------
(* What the proofs use of sums. *)

\* A sum of numbers is a number; over no index it is zero, over one its value.
LEMMA SumBasics ==
    ASSUME NEW S, IsFiniteSet(S), NEW f, \A x \in S : f[x] \in Nat
    PROVE  /\ Sum(f, S) \in Nat
           /\ S = {} => Sum(f, S) = 0
           /\ \A x \in S : S = {x} => Sum(f, S) = f[x]
  <1>1. Sum(f, S) \in Nat
    BY SumIsCount, CellsFinite
  <1>2. ASSUME S = {}
        PROVE  Sum(f, S) = 0
    <2>1. Cells(f, S) = {}
      BY <1>2 DEF Cells
    <2> QED
      BY <2>1, SumIsCount, FS_EmptySet
  <1>3. ASSUME NEW x \in S, S = {x}
        PROVE  Sum(f, S) = f[x]
    BY <1>3, SumIsCount, CellsOfOne
  <1> QED
    BY <1>1, <1>2, <1>3

\* The sum over two sets without a common index.
LEMMA SumSplit ==
    ASSUME NEW S, IsFiniteSet(S), NEW f, \A x \in S : f[x] \in Nat,
           NEW A, NEW B, A \cup B = S, A \cap B = {}
    PROVE  Sum(f, S) = Sum(f, A) + Sum(f, B)
  <1>1. IsFiniteSet(A) /\ IsFiniteSet(B)
    <2>1. A \in SUBSET S /\ B \in SUBSET S
      OBVIOUS
    <2> QED
      BY <2>1, FS_Subset
  <1>2. /\ Sum(f, A) = Cardinality(Cells(f, A)) /\ Sum(f, B) = Cardinality(Cells(f, B))
        /\ Sum(f, S) = Cardinality(Cells(f, S))
    BY <1>1, SumIsCount
  <1> QED
    BY <1>2, CellsSplit

\* A sum depends on the values at its indices only.
LEMMA SumSame ==
    ASSUME NEW S, IsFiniteSet(S), NEW f, \A x \in S : f[x] \in Nat,
           NEW g, \A x \in S : g[x] = f[x]
    PROVE  Sum(g, S) = Sum(f, S)
  <1>1. Cells(g, S) = Cells(f, S)
    BY DEF Cells
  <1>2. \A x \in S : g[x] \in Nat
    OBVIOUS
  <1> QED
    BY <1>1, <1>2, SumIsCount

\* A sum of values that a number bounds.
LEMMA SumBound ==
    ASSUME NEW S, IsFiniteSet(S), NEW f, NEW M \in Nat, \A x \in S : f[x] \in 0 .. M
    PROVE  Sum(f, S) =< Cardinality(S) * M
  <1>1. Cells(f, S) \subseteq S \X (1 .. M)
    BY DEF Cells
  <1>2. IsFiniteSet(1 .. M) /\ Cardinality(1 .. M) = M
    BY FS_Interval
  <1>3. /\ IsFiniteSet(S \X (1 .. M))
        /\ Cardinality(S \X (1 .. M)) = Cardinality(S) * M
    BY <1>2, FS_Product
  <1>4. Cardinality(Cells(f, S)) =< Cardinality(S) * M
    BY <1>1, <1>3, FS_Subset
  <1> QED
    BY <1>4, SumIsCount

\* Indices may be renamed.
LEMMA SumRenamed ==
    ASSUME NEW S, IsFiniteSet(S), NEW f, \A x \in S : f[x] \in Nat,
           NEW T, NEW b \in Bijection(S, T), NEW g, \A x \in S : g[b[x]] = f[x]
    PROVE  Sum(g, T) = Sum(f, S)
  <1> DEFINE move == [c \in Cells(f, S) |-> <<b[c[1]], c[2]>>]
  <1>0. /\ b \in [S -> T]
        /\ \A x, y \in S : b[x] = b[y] => x = y
        /\ \A y \in T : \E x \in S : b[x] = y
    BY Fun_BijectionProperties, Fun_SurjectionProperties
  <1>1. \A c \in Cells(f, S) : c \in S \X Nat /\ c[2] \in 1 .. f[c[1]]
    BY DEF Cells
  <1>2. \A c \in Cells(f, S) : move[c] \in Cells(g, T)
    BY <1>0, <1>1 DEF Cells
  <1>3. \A c, d \in Cells(f, S) : move[c] = move[d] => c = d
    <2> SUFFICES ASSUME NEW c \in Cells(f, S), NEW d \in Cells(f, S), move[c] = move[d]
                 PROVE  c = d
      OBVIOUS
    <2>1. c = <<c[1], c[2]>> /\ d = <<d[1], d[2]>> /\ c[1] \in S /\ d[1] \in S
      BY <1>1
    <2>2. b[c[1]] = b[d[1]] /\ c[2] = d[2]
      OBVIOUS
    <2> QED
      BY <1>0, <2>1, <2>2
  <1>4. \A e \in Cells(g, T) : \E c \in Cells(f, S) : move[c] = e
    <2> SUFFICES ASSUME NEW e \in Cells(g, T)
                 PROVE  \E c \in Cells(f, S) : move[c] = e
      OBVIOUS
    <2>1. e \in T \X Nat /\ e[2] \in 1 .. g[e[1]]
      BY DEF Cells
    <2>2. PICK x \in S : b[x] = e[1]
      BY <1>0, <2>1
    <2>3. <<x, e[2]>> \in Cells(f, S)
      BY <2>1, <2>2 DEF Cells
    <2> QED
      BY <2>1, <2>2, <2>3
  <1>5. move \in Bijection(Cells(f, S), Cells(g, T))
    <2>1. move \in [Cells(f, S) -> Cells(g, T)]
      BY <1>2
    <2> HIDE DEF move
    <2> QED
      BY <1>3, <1>4, <2>1, Fun_IsBij, Fun_IsSurj
  <1>6. IsFiniteSet(T)
    BY FS_Bijection DEF ExistsBijection
  <1>7. \A y \in T : g[y] \in Nat
    BY <1>0
  <1>8. IsFiniteSet(Cells(f, S))
    BY CellsFinite
  <1>9. Cardinality(Cells(g, T)) = Cardinality(Cells(f, S))
    BY <1>5, <1>8, FS_Bijection DEF ExistsBijection
  <1> QED
    BY <1>6, <1>7, <1>9, SumIsCount
-----------------------------------------------------------------------------
(* Bytes of sequences of members.                                          *)

\* The encoded bytes of the members of a sequence, one by one.
SizesOf(s) == [n \in DOMAIN s |-> Size[s[n]]]

\* Every member has a size.
LEMMA Sizes ==
    /\ MaxSize \in Nat /\ \A m \in Source : Size[m] \in Nat /\ Size[m] \in 0 .. MaxSize
    /\ ScanItems \in Nat /\ PendingBytes \in Nat /\ PendingKeys \in Nat
    /\ Examined \in Nat /\ TargetsPerCycle \in Nat
    /\ PendingBytes >= ScanItems * MaxSize
    /\ PendingKeys >= ScanItems /\ PendingKeys >= TargetsPerCycle
    /\ IsFiniteSet(Target) /\ IsFiniteSet(Source)
  <1>1. MaxSize \in Nat /\ Size \in [Source -> 1 .. MaxSize]
    BY LimitsAssumption
  <1>2. \A m \in Source : Size[m] \in Nat /\ Size[m] \in 0 .. MaxSize
    BY <1>1
  <1> QED
    BY <1>1, <1>2, LimitsAssumption

\* A sequence's bytes as a sum over its positions.
LEMMA SeqBytesIsSum ==
    ASSUME NEW s \in Seq(Source)
    PROVE  /\ DOMAIN s = 1 .. Len(s) /\ IsFiniteSet(1 .. Len(s)) /\ Cardinality(1 .. Len(s)) = Len(s)
           /\ \A n \in 1 .. Len(s) : SizesOf(s)[n] = Size[s[n]] /\ SizesOf(s)[n] \in 0 .. MaxSize
           /\ \A n \in 1 .. Len(s) : SizesOf(s)[n] \in Nat
           /\ SeqBytes(s) = Sum(SizesOf(s), 1 .. Len(s))
  <1>1. DOMAIN s = 1 .. Len(s) /\ Len(s) \in Nat
    OBVIOUS
  <1>2. IsFiniteSet(1 .. Len(s)) /\ Cardinality(1 .. Len(s)) = Len(s)
    BY <1>1, FS_Interval
  <1>3. \A n \in 1 .. Len(s) : s[n] \in Source
    OBVIOUS
  <1>4. \A n \in 1 .. Len(s) : SizesOf(s)[n] = Size[s[n]]
    BY <1>1 DEF SizesOf
  <1>5. SeqBytes(s) = SumFunctionOnSet(SizesOf(s), DOMAIN SizesOf(s))
    BY DEF SeqBytes, SumFunction, SizesOf
  <1>6. DOMAIN SizesOf(s) = 1 .. Len(s)
    BY <1>1 DEF SizesOf
  <1> QED
    BY <1>1, <1>2, <1>3, <1>4, <1>5, <1>6, Sizes DEF Sum

\* No members, no bytes; and a page never has more than its limit.
LEMMA SeqBytesBasics ==
    ASSUME NEW s \in Seq(Source)
    PROVE  /\ SeqBytes(s) \in Nat
           /\ s = <<>> => SeqBytes(s) = 0
           /\ SeqBytes(s) =< Len(s) * MaxSize
  <1>1. SeqBytes(s) \in Nat
    BY SeqBytesIsSum, SumBasics
  <1>2. s = <<>> => 1 .. Len(s) = {}
    OBVIOUS
  <1>3. s = <<>> => SeqBytes(s) = 0
    BY <1>2, SeqBytesIsSum, SumBasics
  <1>4. SeqBytes(s) =< Len(s) * MaxSize
    BY SeqBytesIsSum, SumBound, Sizes
  <1> QED
    BY <1>1, <1>3, <1>4

\* Joined sequences have the bytes of both.
LEMMA SeqBytesJoin ==
    ASSUME NEW s \in Seq(Source), NEW t \in Seq(Source)
    PROVE  SeqBytes(s \o t) = SeqBytes(s) + SeqBytes(t)
  <1> DEFINE m == Len(s)
             n == Len(t)
             st == s \o t
             A == 1 .. m
             B == (m + 1) .. (m + n)
  <1>1. /\ m \in Nat /\ n \in Nat /\ st \in Seq(Source) /\ Len(st) = m + n
        /\ \A i \in A : st[i] = s[i]
        /\ \A i \in 1 .. n : st[m + i] = t[i]
    OBVIOUS
  <1> HIDE DEF m, n, st
  <1>2. A \cup B = 1 .. (m + n) /\ A \cap B = {}
    BY <1>1
  <1>3. /\ SeqBytes(st) = Sum(SizesOf(st), 1 .. (m + n)) /\ IsFiniteSet(1 .. (m + n))
        /\ \A i \in 1 .. (m + n) : SizesOf(st)[i] = Size[st[i]] /\ SizesOf(st)[i] \in Nat
    BY <1>1, SeqBytesIsSum
  <1>4. /\ SeqBytes(s) = Sum(SizesOf(s), A) /\ IsFiniteSet(A)
        /\ \A i \in A : SizesOf(s)[i] = Size[s[i]] /\ SizesOf(s)[i] \in Nat
    BY SeqBytesIsSum DEF m
  <1>5. /\ SeqBytes(t) = Sum(SizesOf(t), 1 .. n) /\ IsFiniteSet(1 .. n)
        /\ \A i \in 1 .. n : SizesOf(t)[i] = Size[t[i]] /\ SizesOf(t)[i] \in Nat
    BY SeqBytesIsSum DEF n
  <1>6. Sum(SizesOf(st), 1 .. (m + n)) = Sum(SizesOf(st), A) + Sum(SizesOf(st), B)
    <2> DEFINE S == 1 .. (m + n)
               f == SizesOf(st)
    <2>1. IsFiniteSet(S) /\ \A i \in S : f[i] \in Nat
      BY <1>3
    <2>2. A \cup B = S /\ A \cap B = {}
      BY <1>2
    <2> HIDE DEF A, B, S, f
    <2>3. Sum(f, S) = Sum(f, A) + Sum(f, B)
      BY <2>1, <2>2, SumSplit
    <2> QED
      BY <2>3 DEF S, f
  <1>7. Sum(SizesOf(st), A) = Sum(SizesOf(s), A)
    <2>1. \A i \in A : SizesOf(st)[i] = SizesOf(s)[i]
      BY SMTT(60), <1>1, <1>2, <1>3, <1>4
    <2> QED
      BY <1>4, <2>1, SumSame
  <1>8. Sum(SizesOf(st), B) = Sum(SizesOf(t), 1 .. n)
    <2> DEFINE b == [i \in 1 .. n |-> m + i]
    <2>1. b \in Bijection(1 .. n, B)
      <3>1. b \in [1 .. n -> B]
        BY <1>1
      <3>2. \A i, j \in 1 .. n : b[i] = b[j] => i = j
        BY <1>1
      <3>3. \A k \in B : \E i \in 1 .. n : b[i] = k
        <4> SUFFICES ASSUME NEW k \in B
                     PROVE  \E i \in 1 .. n : b[i] = k
          OBVIOUS
        <4>1. k - m \in 1 .. n /\ b[k - m] = k
          BY <1>1
        <4> QED
          BY <4>1
      <3> HIDE DEF b
      <3> QED
        BY <3>1, <3>2, <3>3, Fun_IsBij, Fun_IsSurj
    <2>2. \A i \in 1 .. n : SizesOf(st)[b[i]] = SizesOf(t)[i]
      <3>1. \A i \in 1 .. n : b[i] = m + i /\ m + i \in 1 .. (m + n)
        BY <1>1
      <3> QED
        BY ZenonT(60), <1>1, <1>3, <1>5, <3>1
    <2> HIDE DEF b
    <2> QED
      BY ZenonT(60), <1>5, <2>1, <2>2, SumRenamed
  <1>9. SeqBytes(st) = SeqBytes(s) + SeqBytes(t)
    <2>1. SeqBytes(st) = Sum(SizesOf(st), A) + Sum(SizesOf(st), B)
      BY <1>3, <1>6
    <2>2. SeqBytes(s) = Sum(SizesOf(st), A) /\ SeqBytes(t) = Sum(SizesOf(st), B)
      BY <1>4, <1>5, <1>7, <1>8
    <2> HIDE DEF A, B
    <2> QED
      BY <2>1, <2>2
  <1> QED
    BY <1>9 DEF st

\* One member's bytes.
LEMMA SeqBytesOne ==
    ASSUME NEW m \in Source
    PROVE  SeqBytes(<<m>>) = Size[m]
  <1> DEFINE s == <<m>>
  <1>1. s \in Seq(Source) /\ Len(s) = 1 /\ s[1] = m
    OBVIOUS
  <1> HIDE DEF s
  <1>2. /\ SeqBytes(s) = Sum(SizesOf(s), 1 .. 1) /\ IsFiniteSet(1 .. 1)
        /\ SizesOf(s)[1] = Size[m] /\ \A n \in 1 .. 1 : SizesOf(s)[n] \in Nat
    BY <1>1, SeqBytesIsSum
  <1>3. 1 \in 1 .. 1 /\ 1 .. 1 = {1}
    OBVIOUS
  <1>4. Sum(SizesOf(s), 1 .. 1) = SizesOf(s)[1]
    BY <1>2, <1>3, SumBasics
  <1> QED
    BY <1>2, <1>4 DEF s

-----------------------------------------------------------------------------
(* The loop of _admit_members.                                             *)

\* What is pending after the first k members were looked at.
Rest(pending, k) == SubSeq(pending, k + 1, Len(pending))

\* The states of the loop: no byte is held twice.
Accs(pending) ==
    {acc \in [seen : 0 .. Len(pending), admitted : Seq(Source)] :
        SeqBytes(acc.admitted) + SeqBytes(Rest(pending, acc.seen)) =< SeqBytes(pending)}

\* Looking at a member takes it, with its bytes, from what is pending.
LEMMA RestOne ==
    ASSUME NEW pending \in Seq(Source), NEW n \in 1 .. Len(pending)
    PROVE  /\ Rest(pending, n - 1) \in Seq(Source) /\ Rest(pending, n) \in Seq(Source)
           /\ pending[n] \in Source
           /\ SeqBytes(Rest(pending, n - 1)) = Size[pending[n]] + SeqBytes(Rest(pending, n))
  <1> DEFINE r == Rest(pending, n)
             q == Rest(pending, n - 1)
             o == <<pending[n]>>
             l == Len(pending)
  <1>1. pending[n] \in Source /\ o \in Seq(Source) /\ l \in Nat /\ n \in 1 .. l
    OBVIOUS
  <1>2. /\ r \in Seq(Source) /\ Len(r) = l - n
        /\ \A i \in 1 .. (l - n) : r[i] = pending[n + i]
    BY <1>1 DEF Rest
  <1>3. /\ q \in Seq(Source) /\ Len(q) = l - n + 1
        /\ \A i \in 1 .. (l - n + 1) : q[i] = pending[n - 1 + i]
    BY <1>1 DEF Rest
  <1> HIDE DEF r, q, l
  <1>4. q = o \o r
    <2>1. /\ o \o r \in Seq(Source) /\ Len(o \o r) = l - n + 1
          /\ (o \o r)[1] = pending[n]
          /\ \A i \in 1 .. (l - n) : (o \o r)[i + 1] = r[i]
      BY <1>1, <1>2
    <2>2. \A i \in 1 .. (l - n + 1) : q[i] = (o \o r)[i]
      <3> SUFFICES ASSUME NEW i \in 1 .. (l - n + 1)
                   PROVE  q[i] = (o \o r)[i]
        OBVIOUS
      <3>1. CASE i = 1
        BY <1>1, <1>3, <2>1, <3>1
      <3>2. CASE i # 1
        <4>1. i - 1 \in 1 .. (l - n) /\ (i - 1) + 1 = i /\ n + (i - 1) = n - 1 + i
          BY <1>1, <3>2
        <4>2. (o \o r)[i] = r[i - 1]
          BY <2>1, <4>1
        <4> HIDE DEF o
        <4> QED
          BY <1>2, <1>3, <4>1, <4>2
      <3> QED
        BY <3>1, <3>2
    <2> DEFINE p == o \o r
    <2> HIDE DEF p
    <2>3. p \in Seq(Source) /\ Len(p) = Len(q) /\ \A i \in 1 .. Len(q) : q[i] = p[i]
      BY <1>3, <2>1, <2>2 DEF p
    <2>4. q = p
      BY <1>3, <2>3, SeqEqual
    <2> QED
      BY <2>4 DEF p
  <1>5. SeqBytes(q) = SeqBytes(o) + SeqBytes(r)
    BY <1>1, <1>2, <1>4, SeqBytesJoin
  <1>6. SeqBytes(o) = Size[pending[n]]
    BY <1>1, SeqBytesOne
  <1> QED
    BY <1>1, <1>2, <1>3, <1>5, <1>6 DEF r, q

\* One turn of the loop.
LEMMA LookStays ==
    ASSUME NEW pending \in Seq(Source), NEW n \in 1 .. Len(pending), NEW acc \in Accs(pending)
    PROVE  Look(pending, n, acc) \in Accs(pending)
  <1> DEFINE m == pending[n]
             s == acc.admitted
             k == acc.seen
             new == Look(pending, n, acc)
             total == SeqBytes(pending)
             left(i) == SeqBytes(Rest(pending, i))
  <1>1. /\ acc \in [seen : 0 .. Len(pending), admitted : Seq(Source)]
        /\ s \in Seq(Source) /\ k \in 0 .. Len(pending)
        /\ SeqBytes(s) + left(k) =< total
    BY DEF Accs
  <1>2. CASE new = acc
    BY <1>2
  <1>3. ASSUME new # acc
        PROVE  k = n - 1
    BY <1>3 DEF Look
  <1>4. ASSUME k = n - 1
        PROVE  /\ left(n) \in Nat /\ Size[m] \in Nat /\ SeqBytes(s) \in Nat /\ m \in Source
               /\ total \in Nat
               /\ SeqBytes(s) + Size[m] + left(n) =< total
    <2>1. /\ Rest(pending, n) \in Seq(Source) /\ m \in Source
          /\ left(n - 1) = Size[m] + left(n)
      BY RestOne
    <2>2. left(n) \in Nat /\ SeqBytes(s) \in Nat /\ Size[m] \in Nat /\ total \in Nat
      BY <1>1, <2>1, SeqBytesBasics, Sizes
    <2>3. SeqBytes(s) + left(n - 1) =< total
      BY <1>1, <1>4
    <2> HIDE DEF left, total, m, s
    <2> QED
      BY <2>1, <2>2, <2>3
  <1>5. CASE k = n - 1 /\ new = [acc EXCEPT !.seen = n]
    <2>1. new.seen = n /\ new.admitted = s /\ new \in [seen : 0 .. Len(pending), admitted : Seq(Source)]
      BY <1>1, <1>5
    <2>2. SeqBytes(s) + left(n) =< total
      <3> HIDE DEF left, total, m, s
      <3> QED
        BY <1>4, <1>5
    <2> QED
      BY <2>1, <2>2 DEF Accs
  <1>6. CASE k = n - 1 /\ new = [seen |-> n, admitted |-> Append(s, m)]
    <2>1. m \in Source
      BY <1>4, <1>6
    <2>2. Append(s, m) = s \o <<m>> /\ <<m>> \in Seq(Source) /\ Append(s, m) \in Seq(Source)
      BY <1>1, <2>1
    <2>3. SeqBytes(Append(s, m)) = SeqBytes(s) + Size[m]
      BY <1>1, <2>1, <2>2, SeqBytesJoin, SeqBytesOne
    <2>4. SeqBytes(Append(s, m)) + left(n) =< total
      <3> DEFINE a == SeqBytes(Append(s, m))
      <3>1. a = SeqBytes(s) + Size[m]
        BY <2>3
      <3> HIDE DEF left, total, m, s, a
      <3>2. a + left(n) =< total
        BY <1>4, <1>6, <3>1
      <3> QED
        BY <3>2 DEF a, s, m
    <2>5. new.seen = n /\ new.admitted = Append(s, m)
          /\ new \in [seen : 0 .. Len(pending), admitted : Seq(Source)]
      BY <1>6, <2>2
    <2> QED
      BY <2>4, <2>5 DEF Accs
  <1>7. \/ new = acc
        \/ new = [acc EXCEPT !.seen = n]
        \/ new = [seen |-> n, admitted |-> Append(s, m)]
    BY DEF Look
  <1> QED
    BY <1>2, <1>3, <1>5, <1>6, <1>7

\* A set of numbers has a least one.
LEMMA LeastNumber ==
    ASSUME NEW T \in SUBSET Nat, T # {}
    PROVE  \E n \in T : \A m \in T : n =< m
  <1>1. PICK n \in T : \A m \in T : ~(<<m, n>> \in OpToRel(<, Nat))
    BY NatLessThanWellFounded, WFMin
  <1>2. \A m \in T : ~(m < n)
    BY <1>1 DEF OpToRel
  <1> QED
    BY <1>2

\* What the walk of AdmitMembers satisfies up to position k.
Walks(w, pending, k) ==
    \A n \in 0 .. k : w[n] = IF n = 0 THEN [seen |-> 0, admitted |-> <<>>]
                            ELSE Look(pending, n, w[n - 1])

\* Before the first turn everything is pending.
LEMMA FirstAcc ==
    ASSUME NEW pending \in Seq(Source)
    PROVE  [seen |-> 0, admitted |-> <<>>] \in Accs(pending)
  <1>1. Rest(pending, 0) = pending
    BY DEF Rest
  <1>2. SeqBytes(<<>>) = 0 /\ <<>> \in Seq(Source)
    <2>1. \A s \in Seq(Source) : s = <<>> => SeqBytes(s) = 0
      BY SeqBytesBasics
    <2>2. <<>> \in Seq(Source)
      OBVIOUS
    <2> QED
      BY <2>1, <2>2
  <1>3. SeqBytes(pending) \in Nat /\ Len(pending) \in Nat
    BY SeqBytesBasics
  <1>4. SeqBytes(<<>>) + SeqBytes(Rest(pending, 0)) =< SeqBytes(pending)
    <2>1. \A b \in Nat : 0 + b =< b
      OBVIOUS
    <2> QED
      BY <1>1, <1>2, <1>3, <2>1
  <1> QED
    BY <1>2, <1>3, <1>4 DEF Accs

\* Every walk stays among the states of the loop.
LEMMA WalkStays ==
    ASSUME NEW pending \in Seq(Source), NEW last \in 0 .. Len(pending), NEW w,
           Walks(w, pending, last)
    PROVE  \A n \in 0 .. last : w[n] \in Accs(pending)
  <1> DEFINE T == {n \in 0 .. last : w[n] \notin Accs(pending)}
  <1> SUFFICES ASSUME T # {}
               PROVE  FALSE
    OBVIOUS
  <1>1. PICK n \in T : \A m \in T : n =< m
    <2>1. T \in SUBSET Nat
      OBVIOUS
    <2> HIDE DEF T
    <2> QED
      BY <2>1, LeastNumber
  <1>2. n # 0
    BY FirstAcc DEF Walks
  <1>3. n \in 1 .. Len(pending) /\ n - 1 \in 0 .. last /\ ~(n =< n - 1)
    BY <1>2
  <1>4. w[n - 1] \in Accs(pending)
    BY <1>1, <1>3
  <1>5. w[n] = Look(pending, n, w[n - 1])
    BY <1>2 DEF Walks
  <1> QED
    BY <1>3, <1>4, <1>5, LookStays

\* There is such a walk.
LEMMA WalkExists ==
    ASSUME NEW pending \in Seq(Source), NEW last \in 0 .. Len(pending)
    PROVE  \E w : w = [n \in 0 .. last |-> IF n = 0 THEN [seen |-> 0, admitted |-> <<>>]
                                          ELSE Look(pending, n, w[n - 1])]
  <1> DEFINE T == {k \in 0 .. last : ~\E w : Walks(w, pending, k)}
  <1>1. ASSUME T # {}
        PROVE  FALSE
    <2>1. PICK k \in T : \A m \in T : k =< m
      <3>1. T \in SUBSET Nat
        OBVIOUS
      <3> HIDE DEF T
      <3> QED
        BY <1>1, <3>1, LeastNumber
    <2>2. k # 0
      <3> DEFINE w == [n \in {0} |-> [seen |-> 0, admitted |-> <<>>]]
      <3>1. w[0] = [seen |-> 0, admitted |-> <<>>]
        OBVIOUS
      <3> HIDE DEF w
      <3>2. Walks(w, pending, 0)
        BY <3>1 DEF Walks
      <3> QED
        BY <3>2
    <2>3. k - 1 \in 0 .. last /\ ~(k =< k - 1)
      BY <2>2
    <2>4. PICK w : Walks(w, pending, k - 1)
      BY <2>1, <2>3
    <2> DEFINE v == [n \in 0 .. k |-> IF n = k THEN Look(pending, k, w[k - 1]) ELSE w[n]]
    <2>5. /\ v[k] = Look(pending, k, w[k - 1])
          /\ \A n \in 0 .. (k - 1) : v[n] = w[n]
      BY <2>2, <2>3
    <2> HIDE DEF v
    <2>6. Walks(v, pending, k)
      <3> SUFFICES ASSUME NEW n \in 0 .. k
                   PROVE  v[n] = IF n = 0 THEN [seen |-> 0, admitted |-> <<>>]
                                 ELSE Look(pending, n, v[n - 1])
        BY DEF Walks
      <3>1. CASE n = k
        <4>1. k - 1 \in 0 .. (k - 1)
          BY <2>3
        <4> QED
          BY <2>2, <2>5, <3>1, <4>1
      <3>2. CASE n = 0
        BY <2>2, <2>4, <2>5, <3>2 DEF Walks
      <3>3. CASE n # k /\ n # 0
        <4>1. n \in 0 .. (k - 1) /\ n - 1 \in 0 .. (k - 1)
          BY <3>3
        <4>2. w[n] = Look(pending, n, w[n - 1])
          BY <2>4, <3>3, <4>1 DEF Walks
        <4> QED
          BY <2>5, <3>3, <4>1, <4>2
      <3> QED
        BY <3>1, <3>2, <3>3
    <2> QED
      BY <2>1, <2>6
  <1>2. PICK w : Walks(w, pending, last)
    <2>1. last \in 0 .. last
      OBVIOUS
    <2> QED
      BY <1>1, <2>1
  <1> DEFINE v == [n \in 0 .. last |-> w[n]]
  <1>3. \A n \in 0 .. last : v[n] = w[n]
    OBVIOUS
  <1> DEFINE turn(n) == IF n = 0 THEN [seen |-> 0, admitted |-> <<>>]
                        ELSE Look(pending, n, v[n - 1])
  <1>4. \A n \in 0 .. last : v[n] = turn(n)
    <2> HIDE DEF v
    <2> SUFFICES ASSUME NEW n \in 0 .. last
                 PROVE  v[n] = turn(n)
      OBVIOUS
    <2>1. n # 0 => n - 1 \in 0 .. last
      OBVIOUS
    <2> QED
      BY <1>2, <1>3, <2>1 DEF Walks
  <1>5. v = [n \in 0 .. last |-> turn(n)]
    BY <1>4, Zenon
  <1> QED
    BY <1>5

\* What is admitted and what remains hold no more bytes than were pending.
LEMMA AdmitFacts ==
    ASSUME NEW pending \in Seq(Source)
    PROVE  /\ AdmitMembers(pending).admitted \in Seq(Source)
           /\ AdmitMembers(pending).pending \in Seq(Source)
           /\ SeqBytes(AdmitMembers(pending).admitted)
                + SeqBytes(AdmitMembers(pending).pending) =< SeqBytes(pending)
  <1> DEFINE last == IF Len(pending) < Examined THEN Len(pending) ELSE Examined
             walk == CHOOSE w : w = [n \in 0 .. last |->
                        IF n = 0 THEN [seen |-> 0, admitted |-> <<>>]
                        ELSE Look(pending, n, w[n - 1])]
  <1>1. last \in 0 .. Len(pending)
    BY Sizes
  <1>2. AdmitMembers(pending) =
           [admitted |-> walk[last].admitted,
            pending  |-> SubSeq(pending, walk[last].seen + 1, Len(pending))]
    BY DEF AdmitMembers
  <1> HIDE DEF last
  <1>3. walk = [n \in 0 .. last |-> IF n = 0 THEN [seen |-> 0, admitted |-> <<>>]
                                    ELSE Look(pending, n, walk[n - 1])]
    BY <1>1, WalkExists, Zenon
  <1> HIDE DEF walk
  <1>4. Walks(walk, pending, last)
    BY <1>3, Zenon DEF Walks
  <1>5. walk[last] \in Accs(pending)
    <2>1. last \in 0 .. last
      BY <1>1
    <2> QED
      BY <1>1, <1>4, <2>1, WalkStays
  <1>6. /\ walk[last].admitted \in Seq(Source) /\ walk[last].seen \in 0 .. Len(pending)
        /\ SeqBytes(walk[last].admitted) + SeqBytes(Rest(pending, walk[last].seen)) =< SeqBytes(pending)
    BY <1>5 DEF Accs
  <1>7. Rest(pending, walk[last].seen) \in Seq(Source)
    BY <1>6 DEF Rest
  <1> QED
    BY <1>2, <1>6, <1>7 DEF Rest

-----------------------------------------------------------------------------
(* The queue of keys.                                                      *)

\* A set as a sequence has each element once.
LEMMA SetToSeqFacts ==
    ASSUME NEW S, IsFiniteSet(S)
    PROVE  /\ SetToSeq(S) \in Seq(S) /\ Len(SetToSeq(S)) = Cardinality(S)
           /\ IsInjective(SetToSeq(S))
  <1> DEFINE n == Cardinality(S)
             f == SetToSeq(S)
  <1>1. n \in Nat /\ ExistsBijection(1 .. n, S)
    BY FS_CardinalityType
  <1> HIDE DEF n
  <1>2. \E g \in [1 .. n -> S] : IsInjective(g)
    <2>1. PICK g : g \in Bijection(1 .. n, S)
      BY <1>1 DEF ExistsBijection
    <2>2. g \in [1 .. n -> S] /\ \A a, b \in 1 .. n : g[a] = g[b] => a = b
      BY <2>1, Fun_BijectionProperties
    <2> QED
      BY <2>2 DEF IsInjective
  <1>3. f \in [1 .. n -> S] /\ IsInjective(f)
    BY <1>2 DEF SetToSeq, n
  <1> HIDE DEF f
  <1>4. f \in Seq(S) /\ Len(f) = n
    BY <1>1, <1>3
  <1> QED
    BY <1>3, <1>4 DEF f, n

\* Sequences of distinct elements that have none in common.
LEMMA JoinDistinct ==
    ASSUME NEW S, NEW a \in Seq(S), NEW b \in Seq(S), IsInjective(a), IsInjective(b),
           \A i \in 1 .. Len(a), j \in 1 .. Len(b) : a[i] # b[j]
    PROVE  /\ a \o b \in Seq(S) /\ Len(a \o b) = Len(a) + Len(b) /\ IsInjective(a \o b)
           /\ \A e : Contains(a \o b, e) <=> Contains(a, e) \/ Contains(b, e)
  <1> DEFINE m == Len(a)
             n == Len(b)
             c == a \o b
  <1>1. /\ m \in Nat /\ n \in Nat /\ c \in Seq(S) /\ Len(c) = m + n
        /\ \A i \in 1 .. m : c[i] = a[i]
        /\ \A i \in (m + 1) .. (m + n) : c[i] = b[i - m]
        /\ \A i, j \in 1 .. m : a[i] = a[j] => i = j
        /\ \A i, j \in 1 .. n : b[i] = b[j] => i = j
        /\ DOMAIN c = 1 .. (m + n)
    BY DEF IsInjective
  <1>2. \A i \in 1 .. m, j \in 1 .. n : a[i] # b[j]
    OBVIOUS
  <1> HIDE DEF m, n, c
  <1>3. IsInjective(c)
    <2> SUFFICES ASSUME NEW i \in 1 .. (m + n), NEW j \in 1 .. (m + n), c[i] = c[j]
                 PROVE  i = j
      BY <1>1 DEF IsInjective
    <2>1. CASE i \in 1 .. m /\ j \in 1 .. m
      BY <1>1, <2>1
    <2>2. CASE i \in 1 .. m /\ j \notin 1 .. m
      <3>1. j \in (m + 1) .. (m + n) /\ j - m \in 1 .. n
        BY <1>1, <2>2
      <3> QED
        BY <1>1, <1>2, <2>2, <3>1
    <2>3. CASE i \notin 1 .. m /\ j \in 1 .. m
      <3>1. i \in (m + 1) .. (m + n) /\ i - m \in 1 .. n
        BY <1>1, <2>3
      <3> QED
        BY <1>1, <1>2, <2>3, <3>1
    <2>4. CASE i \notin 1 .. m /\ j \notin 1 .. m
      <3>1. /\ i \in (m + 1) .. (m + n) /\ i - m \in 1 .. n
            /\ j \in (m + 1) .. (m + n) /\ j - m \in 1 .. n
        BY <1>1, <2>4
      <3>2. i - m = j - m
        BY <1>1, <3>1
      <3> QED
        BY <1>1, <3>2
    <2> QED
      BY <2>1, <2>2, <2>3, <2>4
  <1>4. ASSUME NEW e
        PROVE  Contains(c, e) <=> Contains(a, e) \/ Contains(b, e)
    <2>1. ASSUME NEW i \in 1 .. (m + n), c[i] = e
          PROVE  Contains(a, e) \/ Contains(b, e)
      <3>1. CASE i \in 1 .. m
        BY <1>1, <2>1, <3>1 DEF Contains, m
      <3>2. CASE i \notin 1 .. m
        <4>1. i \in (m + 1) .. (m + n) /\ i - m \in 1 .. n
          BY <1>1, <3>2
        <4>2. b[i - m] = e
          BY <1>1, <2>1, <4>1
        <4> QED
          BY <4>1, <4>2 DEF Contains, n
      <3> QED
        BY <3>1, <3>2
    <2>2. ASSUME NEW i \in 1 .. m, a[i] = e
          PROVE  Contains(c, e)
      <3>1. i \in 1 .. (m + n) /\ c[i] = e
        BY <1>1, <2>2
      <3> QED
        BY <1>1, <3>1 DEF Contains
    <2>3. ASSUME NEW i \in 1 .. n, b[i] = e
          PROVE  Contains(c, e)
      <3>1. m + i \in 1 .. (m + n) /\ m + i \in (m + 1) .. (m + n) /\ (m + i) - m = i
        BY <1>1
      <3>2. c[m + i] = e
        BY <1>1, <2>3, <3>1
      <3> QED
        BY <1>1, <3>1, <3>2 DEF Contains
    <2> QED
      BY <1>1, <2>1, <2>2, <2>3 DEF Contains, m, n
  <1> QED
    BY <1>1, <1>3, <1>4 DEF c, m, n

\* Appending a key that is not queued.
LEMMA AppendKey ==
    ASSUME NEW keys \in Seq(Target), IsInjective(keys), NEW t \in Target, ~Contains(keys, t)
    PROVE  /\ Append(keys, t) \in Seq(Target) /\ Len(Append(keys, t)) = Len(keys) + 1
           /\ IsInjective(Append(keys, t))
           /\ \A u : Contains(Append(keys, t), u) <=> Contains(keys, u) \/ u = t
  <1> DEFINE b == <<t>>
  <1>1. b \in Seq(Target) /\ Len(b) = 1 /\ b[1] = t /\ DOMAIN b = {1} /\ Append(keys, t) = keys \o b
    OBVIOUS
  <1> HIDE DEF b
  <1>2. IsInjective(b)
    BY <1>1 DEF IsInjective
  <1>3. \A u : Contains(b, u) <=> u = t
    BY <1>1 DEF Contains
  <1>4. \A i \in 1 .. Len(keys), j \in 1 .. Len(b) : keys[i] # b[j]
    BY <1>1 DEF Contains
  <1>5. /\ keys \o b \in Seq(Target) /\ Len(keys \o b) = Len(keys) + Len(b) /\ IsInjective(keys \o b)
        /\ \A e : Contains(keys \o b, e) <=> Contains(keys, e) \/ Contains(b, e)
    BY <1>1, <1>2, <1>4, JoinDistinct
  <1> QED
    BY <1>1, <1>3, <1>5

\* Taking the first key.
LEMMA PopKey ==
    ASSUME NEW keys \in Seq(Target), IsInjective(keys), Len(keys) > 0
    PROVE  /\ Head(keys) \in Target /\ Tail(keys) \in Seq(Target)
           /\ Len(Tail(keys)) = Len(keys) - 1 /\ IsInjective(Tail(keys))
           /\ ~Contains(Tail(keys), Head(keys))
           /\ \A u : Contains(keys, u) <=> u = Head(keys) \/ Contains(Tail(keys), u)
  <1> DEFINE n == Len(keys)
             h == Head(keys)
             r == Tail(keys)
  <1>1. /\ n \in Nat /\ n > 0 /\ h = keys[1] /\ h \in Target /\ r \in Seq(Target) /\ Len(r) = n - 1
        /\ \A i \in 1 .. (n - 1) : r[i] = keys[i + 1]
        /\ \A i, j \in 1 .. n : keys[i] = keys[j] => i = j
        /\ DOMAIN r = 1 .. (n - 1)
    <2>1. keys # <<>>
      OBVIOUS
    <2> QED
      BY <2>1 DEF IsInjective
  <1> HIDE DEF n, h, r
  <1>2. \A i \in 1 .. (n - 1) : i + 1 \in 1 .. n /\ i + 1 # 1 /\ 1 \in 1 .. n
    BY <1>1
  <1>3. IsInjective(r)
    <2> SUFFICES ASSUME NEW i \in 1 .. (n - 1), NEW j \in 1 .. (n - 1), r[i] = r[j]
                 PROVE  i = j
      BY <1>1 DEF IsInjective
    <2>1. i + 1 = j + 1
      BY <1>1, <1>2
    <2> QED
      BY <2>1
  <1>4. ~Contains(r, h)
    <2> SUFFICES ASSUME NEW i \in 1 .. (n - 1), r[i] = h
                 PROVE  FALSE
      BY <1>1 DEF Contains
    <2> QED
      BY <1>1, <1>2
  <1>5. ASSUME NEW u
        PROVE  Contains(keys, u) <=> u = h \/ Contains(r, u)
    <2>1. ASSUME NEW i \in 1 .. n, keys[i] = u
          PROVE  u = h \/ Contains(r, u)
      <3>1. CASE i = 1
        BY <1>1, <2>1, <3>1
      <3>2. CASE i # 1
        <4>1. i - 1 \in 1 .. (n - 1) /\ (i - 1) + 1 = i
          BY <1>1, <3>2
        <4>2. r[i - 1] = u
          BY <1>1, <2>1, <4>1
        <4> QED
          BY <1>1, <4>1, <4>2 DEF Contains
      <3> QED
        BY <3>1, <3>2
    <2>2. u = h => Contains(keys, u)
      <3>1. 1 \in 1 .. n
        BY <1>1
      <3> QED
        BY <1>1, <3>1 DEF Contains, n
    <2>3. ASSUME NEW i \in 1 .. (n - 1), r[i] = u
          PROVE  Contains(keys, u)
      BY <1>1, <1>2, <2>3 DEF Contains, n
    <2> QED
      BY <1>1, <2>1, <2>2, <2>3 DEF Contains, n
  <1> QED
    BY <1>1, <1>3, <1>4, <1>5 DEF n, h, r

-----------------------------------------------------------------------------
(* The inductive invariant.                                                *)

Documents == {NoDoc} \cup {{S} : S \in SUBSET Source}
Scan == [started : BOOLEAN, owed : SUBSET Source, complete : BOOLEAN, pending : Seq(Source)]
State == [keysOwed : SUBSET Target, keyScan : BOOLEAN, keys : Seq(Target),
          targets : [Target -> Scan], waiter : Target \cup {"none"}]
Step == [pc : {"idle", "fill", "next", "scan", "find", "write", "ack"},
         todo : Nat, calls : Nat, bytes : Int, before : Nat,
         target : Target \cup {"none"}, batch : Seq(Source), doc : Documents]
Rec == [pc : {"off", "before", "apply", "add", "after", "reported"},
        todo : SUBSET (Target \X Source), edge : {<<>>} \cup (Target \X Source),
        doc : Documents, missing : Nat, added : Nat]

TypeOK ==
    /\ workload \in Workloads
    /\ sets \in [Target -> SUBSET Source]
    /\ mongo \in [Target -> Documents]
    /\ state \in State
    /\ step \in Step
    /\ rec \in Rec
    /\ produced \in Nat /\ faults \in Nat

Visiting == step.pc \in {"scan", "find", "write", "ack"}
Batching == step.pc \in {"find", "write", "ack"}

\* The queue of keys, and the target that has left it while it is visited.
KeysInv ==
    /\ QueuedOnce
    /\ \A t \in Target : state.targets[t].pending # <<>> =>
            t \notin BadTarget /\ (Contains(state.keys, t) \/ (Visiting /\ step.target = t))
    /\ Visiting => /\ step.target \in Target \ BadTarget
                   /\ ~Contains(state.keys, step.target)
                   /\ Len(state.keys) < PendingKeys
    /\ ~Visiting => step.target = "none"
    /\ (Visiting \/ step.pc = "next") => step.todo =< Len(state.keys)

\* What the cycle counts, less what it counted of the target that it visits and
\* plus what that target has pending, is what is buffered.
BytesInv ==
    /\ BufferBounded
    /\ BytesCounted
    /\ ~Batching => step.batch = <<>>
    /\ step.pc = "fill" => step.bytes = Buffered(state)
    /\ step.pc = "scan" =>
          /\ state.targets[step.target].pending = <<>>
          /\ step.before = 0
          /\ step.bytes = Buffered(state)
          /\ step.bytes + ScanItems * MaxSize =< PendingBytes
    /\ Batching =>
          step.bytes - step.before + SeqBytes(state.targets[step.target].pending)
              = Buffered(state)

\* The documents, and what those who are about to write have checked.
DocsInv ==
    /\ BelowCeiling
    /\ step.pc = "write" => ~TooLarge(step.doc, ToSet(step.batch))
    /\ rec.pc = "add" => rec.edge # <<>> /\ ~TooLarge(rec.doc, {rec.edge[2]})

\* A batch that is about to leave Redis is in MongoDB.
AckInv == step.pc = "ack" => ToSet(step.batch) \subseteq Links(mongo[step.target])

\* The second count covers the edges that it has looked at so far.
CountInv ==
    /\ rec.todo \subseteq workload.outlinks
    /\ rec.pc = "reported" => rec.todo = {}
    /\ rec.pc \in {"after", "reported"} =>
          Cardinality({e \in workload.outlinks \ rec.todo : ~HasBacklink(e)}) =< rec.missing

Inv == TypeOK /\ KeysInv /\ BytesInv /\ DocsInv /\ AckInv /\ CountInv

-----------------------------------------------------------------------------
(* Records and what they buffer.                                           *)

\* The fields of the state in memory.
LEMMA StateFields ==
    ASSUME NEW st \in State
    PROVE  /\ st.keys \in Seq(Target)
           /\ st.targets \in [Target -> Scan]
           /\ \A t \in Target : /\ st.targets[t] \in Scan
                                /\ st.targets[t].pending \in Seq(Source)
                                /\ st.targets[t].complete \in BOOLEAN
                                /\ st.targets[t].started \in BOOLEAN
                                /\ st.targets[t].owed \in SUBSET Source
  BY DEF State, Scan

\* A scan that has not begun.
LEMMA NewScanFacts == NewScan \in Scan /\ NewScan.pending = <<>>
  BY DEF NewScan, Scan

\* The changes that the processor makes to its state.
KeysSet(st, k)       == [st EXCEPT !.keys = k]
ScanSet(st, t, s)    == [st EXCEPT !.targets[t] = s]
PendingSet(st, t, p) == [st EXCEPT !.targets[t].pending = p]
Requeued(st, t, more) ==
    IF more THEN QueueKey(st, t) ELSE [st EXCEPT !.targets[t] = NewScan]

\* Another queue of keys.
LEMMA WithKeys ==
    ASSUME NEW st \in State, NEW k \in Seq(Target)
    PROVE  /\ KeysSet(st, k) \in State
           /\ KeysSet(st, k).keys = k
           /\ KeysSet(st, k).targets = st.targets
  BY DEF State, KeysSet, ScanSet

\* Another scan of a target.
LEMMA WithScan ==
    ASSUME NEW st \in State, NEW t \in Target, NEW s \in Scan
    PROVE  /\ ScanSet(st, t, s) \in State
           /\ ScanSet(st, t, s).keys = st.keys
           /\ ScanSet(st, t, s).targets[t] = s
           /\ \A u \in Target \ {t} : ScanSet(st, t, s).targets[u] = st.targets[u]
  BY DEF State, KeysSet, ScanSet

\* Other members pending.
LEMMA WithPending ==
    ASSUME NEW st \in State, NEW t \in Target, NEW p \in Seq(Source)
    PROVE  /\ PendingSet(st, t, p) \in State
           /\ PendingSet(st, t, p).keys = st.keys
           /\ PendingSet(st, t, p).targets[t].pending = p
           /\ \A u \in Target \ {t} : PendingSet(st, t, p).targets[u] = st.targets[u]
  <1> DEFINE s == [st.targets[t] EXCEPT !.pending = p]
  <1>1. s \in Scan /\ s.pending = p
    BY StateFields DEF Scan
  <1>2. PendingSet(st, t, p) = ScanSet(st, t, s)
    BY StateFields DEF State, PendingSet, ScanSet
  <1> HIDE DEF s
  <1> QED
    BY <1>1, <1>2, WithScan

\* What is buffered, target by target.
BytesOf(st) == [t \in Target |-> SeqBytes(st.targets[t].pending)]

\* The bytes buffered are a number.
LEMMA BufferedIsSum ==
    ASSUME NEW st \in State
    PROVE  /\ Buffered(st) = Sum(BytesOf(st), Target)
           /\ \A t \in Target : BytesOf(st)[t] = SeqBytes(st.targets[t].pending)
           /\ \A t \in Target : BytesOf(st)[t] \in Nat
           /\ Buffered(st) \in Nat
  <1>1. \A t \in Target : BytesOf(st)[t] = SeqBytes(st.targets[t].pending) /\ BytesOf(st)[t] \in Nat
    BY StateFields, SeqBytesBasics DEF BytesOf
  <1>2. Buffered(st) = SumFunctionOnSet(BytesOf(st), DOMAIN BytesOf(st)) /\ DOMAIN BytesOf(st) = Target
    BY DEF Buffered, BytesOf, SumFunction
  <1>3. Buffered(st) = Sum(BytesOf(st), Target)
    BY <1>2 DEF Sum
  <1> QED
    BY <1>1, <1>3, Sizes, SumBasics

\* What is buffered does not depend on the rest of the state.
LEMMA BufferedSame ==
    ASSUME NEW st \in State, NEW new \in State,
           \A t \in Target : new.targets[t].pending = st.targets[t].pending
    PROVE  Buffered(new) = Buffered(st)
  <1>1. \A t \in Target : BytesOf(new)[t] = BytesOf(st)[t]
    BY BufferedIsSum
  <1> QED
    BY <1>1, BufferedIsSum, SumSame, Sizes

\* Other members pending at one target.
LEMMA BufferedChange ==
    ASSUME NEW st \in State, NEW new \in State, NEW t \in Target,
           \A u \in Target \ {t} : new.targets[u].pending = st.targets[u].pending
    PROVE  /\ Buffered(new) - SeqBytes(new.targets[t].pending)
                  = Buffered(st) - SeqBytes(st.targets[t].pending)
           /\ SeqBytes(st.targets[t].pending) =< Buffered(st)
  <1> DEFINE R == Target \ {t}
             f == BytesOf(st)
             g == BytesOf(new)
  <1>1. /\ IsFiniteSet(Target) /\ IsFiniteSet(R) /\ IsFiniteSet({t})
        /\ R \cup {t} = Target /\ R \cap {t} = {}
    <2>1. R \in SUBSET Target
      OBVIOUS
    <2> QED
      BY <2>1, Sizes, FS_Subset, FS_Singleton
  <1>2. /\ \A u \in Target : f[u] \in Nat /\ g[u] \in Nat
        /\ f[t] = SeqBytes(st.targets[t].pending) /\ g[t] = SeqBytes(new.targets[t].pending)
        /\ Buffered(st) = Sum(f, Target) /\ Buffered(new) = Sum(g, Target)
    BY BufferedIsSum
  <1>3. \A u \in R : g[u] = f[u]
    BY BufferedIsSum
  <1> HIDE DEF R, f, g
  <1>4. /\ \A u \in R : f[u] \in Nat /\ g[u] \in Nat
        /\ \A u \in {t} : f[u] \in Nat /\ g[u] \in Nat
    BY <1>1, <1>2
  <1>5. Sum(f, Target) = Sum(f, R) + Sum(f, {t}) /\ Sum(g, Target) = Sum(g, R) + Sum(g, {t})
    BY <1>1, <1>2, SumSplit
  <1>6. Sum(f, {t}) = f[t] /\ Sum(g, {t}) = g[t]
    BY <1>1, <1>4, SumBasics
  <1>7. Sum(g, R) = Sum(f, R) /\ Sum(f, R) \in Nat
    BY <1>1, <1>3, <1>4, SumSame, SumBasics
  <1>8. f[t] \in Nat /\ g[t] \in Nat
    BY <1>2
  <1> DEFINE a == Sum(f, R)
             x == f[t]
             y == g[t]
  <1>9. /\ Buffered(st) = a + x /\ Buffered(new) = a + y /\ a \in Nat /\ x \in Nat /\ y \in Nat
        /\ x = SeqBytes(st.targets[t].pending) /\ y = SeqBytes(new.targets[t].pending)
    BY <1>2, <1>5, <1>6, <1>7, <1>8
  <1> HIDE DEF a, x, y
  <1>10. (a + y) - y = (a + x) - x /\ x =< a + x
    BY <1>9
  <1> QED
    BY <1>9, <1>10

-----------------------------------------------------------------------------
(* What the processor does to its queue and to what it buffers.            *)

\* A target is queued again while it has more, and forgotten otherwise.
LEMMA QueuedAgain ==
    ASSUME NEW st \in State, NEW t \in Target \ BadTarget,
           IsInjective(st.keys), Len(st.keys) < PendingKeys, ~Contains(st.keys, t),
           \A u \in Target : st.targets[u].pending # <<>> =>
                u \notin BadTarget /\ (Contains(st.keys, u) \/ u = t),
           NEW more \in BOOLEAN, ~more => st.targets[t].pending = <<>>,
           NEW new, new = Requeued(st, t, more)
    PROVE  /\ new \in State /\ IsInjective(new.keys) /\ Len(new.keys) =< PendingKeys
           /\ Len(st.keys) =< Len(new.keys)
           /\ \A u \in Target : new.targets[u].pending # <<>> =>
                    u \notin BadTarget /\ Contains(new.keys, u)
           /\ Buffered(new) = Buffered(st)
  <1>1. st.keys \in Seq(Target) /\ Len(st.keys) \in Nat /\ PendingKeys \in Nat
    BY StateFields, Sizes
  <1>2. CASE more
    <2> DEFINE k == Append(st.keys, t)
    <2>1. /\ k \in Seq(Target) /\ Len(k) = Len(st.keys) + 1 /\ IsInjective(k)
          /\ \A u : Contains(k, u) <=> Contains(st.keys, u) \/ u = t
      BY <1>1, AppendKey
    <2>2. new = KeysSet(st, k)
      BY <1>2 DEF QueueKey, Requeued, KeysSet
    <2> HIDE DEF k
    <2>3. new \in State /\ new.keys = k /\ new.targets = st.targets
      BY <2>1, <2>2, WithKeys
    <2>4. Buffered(new) = Buffered(st)
      BY <2>3, BufferedSame
    <2> QED
      BY <1>1, <2>1, <2>3, <2>4
  <1>3. CASE ~more
    <2>1. new = ScanSet(st, t, NewScan)
      BY <1>3 DEF Requeued, ScanSet
    <2>2. /\ new \in State /\ new.keys = st.keys /\ new.targets[t].pending = <<>>
          /\ \A u \in Target \ {t} : new.targets[u] = st.targets[u]
      BY <2>1, NewScanFacts, WithScan
    <2>3. \A u \in Target : new.targets[u].pending = st.targets[u].pending
      BY <1>3, <2>2
    <2>4. Buffered(new) = Buffered(st)
      BY <2>2, <2>3, BufferedSame
    <2> QED
      BY <1>1, <1>3, <2>2, <2>3, <2>4
  <1> QED
    BY <1>2, <1>3

\* The fields of the record of the processor.
LEMMA StepFields ==
    ASSUME NEW s \in Step
    PROVE  /\ s.todo \in Nat /\ s.bytes \in Int /\ s.before \in Nat /\ s.calls \in Nat
           /\ s.batch \in Seq(Source) /\ s.doc \in Documents
           /\ s.target \in Target \cup {"none"}
  BY DEF Step

\* Between two visits, and between two cycles.
Paused(new, stp) ==
    /\ new \in State /\ IsInjective(new.keys) /\ Len(new.keys) =< PendingKeys
    /\ \A u \in Target : new.targets[u].pending # <<>> =>
            u \notin BadTarget /\ Contains(new.keys, u)
    /\ stp \in Step /\ stp.pc \in {"idle", "fill", "next"}
    /\ stp.target = "none" /\ stp.batch = <<>>
    /\ stp.pc = "next" => stp.todo =< Len(new.keys)
    /\ stp.pc # "idle" => stp.bytes = Buffered(new)
    /\ Buffered(new) =< PendingBytes

Book == state \in State /\ step \in Step /\ KeysInv /\ BytesInv

\* Then the queue and the bytes are right.
LEMMA PausedKeeps ==
    ASSUME NEW new, NEW stp, Paused(new, stp), state' = new, step' = stp
    PROVE  Book'
  <1>1. KeysInv'
    BY DEF Paused, KeysInv, QueuedOnce, Visiting
  <1>2. BytesInv'
    <2>1. SeqBytes(<<>>) = 0
      <3>1. \A s \in Seq(Source) : s = <<>> => SeqBytes(s) = 0
        BY SeqBytesBasics
      <3>2. <<>> \in Seq(Source)
        OBVIOUS
      <3> QED
        BY <3>1, <3>2
    <2>2. Buffered(new) \in Nat /\ PendingBytes \in Nat
      BY BufferedIsSum, Sizes DEF Paused
    <2>3. Buffered(new) + SeqBytes(<<>>) =< PendingBytes
      <3> DEFINE b == Buffered(new)
      <3>1. b \in Nat /\ b =< PendingBytes
        BY <2>2 DEF Paused
      <3> HIDE DEF b
      <3>2. b + 0 =< PendingBytes
        BY <2>2, <3>1
      <3> QED
        BY <2>1, <3>2 DEF b
    <2>4. BufferBounded'
      BY <2>3 DEF BufferBounded, Paused
    <2> QED
      BY <2>4 DEF Paused, BytesInv, BytesCounted, Batching
  <1> QED
    BY <1>1, <1>2 DEF Paused, Book

\* Settle ends a visit.
LEMMA SettleEnds ==
    ASSUME NEW t \in Target \ BadTarget, step \in Step, step.target = t,
           NEW st \in State, step.todo =< Len(st.keys),
           IsInjective(st.keys), Len(st.keys) < PendingKeys, ~Contains(st.keys, t),
           \A u \in Target : st.targets[u].pending # <<>> =>
                u \notin BadTarget /\ (Contains(st.keys, u) \/ u = t),
           step.bytes - step.before + SeqBytes(st.targets[t].pending) = Buffered(st),
           Buffered(st) =< PendingBytes,
           Settle(st)
    PROVE  Paused(state', step') /\ step'.doc = NoDoc
  <1> DEFINE s == st.targets[t]
             more == s.pending # <<>> \/ ~s.complete
             b == SeqBytes(s.pending)
             stp == [step EXCEPT !.pc = "next", !.target = "none", !.batch = <<>>, !.doc = NoDoc,
                                 !.bytes = @ + b - step.before, !.before = 0]
  <1>1. state' = Requeued(st, t, more) /\ step' = stp
    BY DEF Settle, Requeued
  <1>2. more \in BOOLEAN /\ (~more => st.targets[t].pending = <<>>)
    OBVIOUS
  <1>3. /\ state' \in State /\ IsInjective(state'.keys) /\ Len(state'.keys) =< PendingKeys
        /\ Len(st.keys) =< Len(state'.keys)
        /\ \A u \in Target : state'.targets[u].pending # <<>> =>
                    u \notin BadTarget /\ Contains(state'.keys, u)
        /\ Buffered(state') = Buffered(st)
    <2> HIDE DEF more
    <2> QED
      BY <1>1, <1>2, QueuedAgain
  <1>4. b \in Nat /\ step.bytes \in Int /\ step.before \in Nat /\ step.todo \in Nat
        /\ Buffered(st) \in Nat /\ Len(st.keys) \in Nat /\ Len(state'.keys) \in Nat
    BY <1>3, StateFields, StepFields, SeqBytesBasics, BufferedIsSum
  <1> HIDE DEF b
  <1>5. step.bytes + b - step.before = Buffered(st)
    BY <1>4 DEF b
  <1>6. stp \in Step /\ stp.pc = "next" /\ stp.target = "none" /\ stp.batch = <<>>
        /\ stp.todo = step.todo /\ stp.bytes = Buffered(st) /\ stp.doc = NoDoc
    <2>1. step.bytes + b - step.before \in Int /\ NoDoc \in Documents /\ <<>> \in Seq(Source)
      BY <1>4 DEF Documents
    <2>2. step.bytes + b - step.before = step.bytes + b - step.before
      OBVIOUS
    <2> HIDE DEF NoDoc
    <2>3. stp \in Step /\ stp.bytes = step.bytes + b - step.before
          /\ stp.pc = "next" /\ stp.target = "none" /\ stp.batch = <<>>
          /\ stp.todo = step.todo /\ stp.doc = NoDoc
      BY <2>1 DEF Step
    <2> QED
      BY <1>5, <2>3
  <1>7. step.todo =< Len(state'.keys)
    BY <1>3, <1>4
  <1> HIDE DEF stp
  <1> QED
    BY <1>1, <1>3, <1>6, <1>7 DEF Paused

\* VisitMembers ends a visit, or goes on with a batch.
LEMMA VisitKeeps ==
    ASSUME NEW t \in Target \ BadTarget, NEW stp \in Step, stp.target = t, stp.batch = <<>>,
           NEW st \in State, stp.todo =< Len(st.keys),
           IsInjective(st.keys), Len(st.keys) < PendingKeys, ~Contains(st.keys, t),
           \A u \in Target : st.targets[u].pending # <<>> =>
                u \notin BadTarget /\ (Contains(st.keys, u) \/ u = t),
           stp.bytes - stp.before + SeqBytes(st.targets[t].pending) = Buffered(st),
           Buffered(st) =< PendingBytes,
           VisitMembers(st, t, stp)
    PROVE  Book' /\ step'.pc \in {"find", "next"}
  <1> DEFINE adm == AdmitMembers(st.targets[t].pending)
             p == adm.pending
             a == adm.admitted
             st1 == PendingSet(st, t, p)
             s == st1.targets[t]
             more == s.pending # <<>> \/ ~s.complete
             old == SeqBytes(st.targets[t].pending)
             end == [stp EXCEPT !.pc = "next", !.target = "none", !.before = 0,
                                !.bytes = @ + SeqBytes(s.pending) - stp.before]
  <1>1. /\ st.targets[t].pending \in Seq(Source) /\ st.keys \in Seq(Target) /\ Len(st.keys) \in Nat
        /\ stp.bytes \in Int /\ stp.before \in Nat /\ stp.todo \in Nat
        /\ PendingBytes \in Nat /\ PendingKeys \in Nat /\ Buffered(st) \in Nat
    BY StateFields, StepFields, Sizes, BufferedIsSum
  <1>2. /\ a \in Seq(Source) /\ p \in Seq(Source)
        /\ SeqBytes(a) + SeqBytes(p) =< old
        /\ SeqBytes(a) \in Nat /\ SeqBytes(p) \in Nat /\ old \in Nat
    BY <1>1, AdmitFacts, SeqBytesBasics
  <1>3. IF a # <<>>
        THEN state' = st1 /\ step' = [stp EXCEPT !.pc = "find", !.batch = a]
        ELSE state' = Requeued(st1, t, more) /\ step' = end
    BY DEF VisitMembers, Requeued, PendingSet
  <1> HIDE DEF adm, p, a
  <1>4. /\ st1 \in State /\ st1.keys = st.keys /\ s.pending = p
        /\ \A u \in Target \ {t} : st1.targets[u] = st.targets[u]
    BY <1>2, WithPending
  <1> HIDE DEF st1
  <1>5. \A u \in Target : st1.targets[u].pending # <<>> =>
                u \notin BadTarget /\ (Contains(st1.keys, u) \/ u = t)
    BY <1>4
  <1>6. /\ Buffered(st1) - SeqBytes(p) = Buffered(st) - old /\ Buffered(st1) \in Nat
    BY <1>4, BufferedChange, BufferedIsSum
  <1> DEFINE B == Buffered(st)
             B1 == Buffered(st1)
             x == SeqBytes(a)
             y == SeqBytes(p)
  <1> DEFINE c == stp.bytes
             d == stp.before
  <1> HIDE DEF B, B1, x, y, old, c, d
  <1>7. /\ B1 - y = B - old /\ x + y =< old /\ B =< PendingBytes
        /\ c - d + old = B /\ c \in Int /\ d \in Nat /\ PendingBytes \in Nat
        /\ B \in Nat /\ B1 \in Nat /\ x \in Nat /\ y \in Nat /\ old \in Nat
    BY <1>1, <1>2, <1>6 DEF B, B1, x, y, old, c, d
  <1>8. /\ B1 + x =< PendingBytes /\ B1 =< PendingBytes
        /\ c - d + y = B1 /\ c + y - d = B1
    BY <1>7
  <1>9. CASE a # <<>>
    <2> DEFINE go == [stp EXCEPT !.pc = "find", !.batch = a]
    <2>1. state' = st1 /\ step' = go
      BY <1>3, <1>9
    <2>2. go \in Step /\ go.pc = "find" /\ go.batch = a /\ go.target = t
          /\ go.bytes = stp.bytes /\ go.before = stp.before /\ go.todo = stp.todo
      BY <1>2 DEF Step
    <2> HIDE DEF go
    <2>3. KeysInv'
      <3>1. IsInjective(st1.keys) /\ Len(st1.keys) =< PendingKeys /\ Len(st1.keys) < PendingKeys
            /\ stp.todo =< Len(st1.keys) /\ ~Contains(st1.keys, t)
        BY <1>1, <1>4
      <3> QED
        BY <1>5, <2>1, <2>2, <3>1 DEF KeysInv, QueuedOnce, Visiting
    <2>4. BytesInv'
      <3>1. BufferBounded'
        BY <1>8, <2>1, <2>2 DEF BufferBounded, B1, x
      <3>2. stp.bytes - stp.before + SeqBytes(st1.targets[t].pending) = Buffered(st1)
        BY <1>4, <1>8 DEF B1, y, c, d
      <3> QED
        BY <2>1, <2>2, <3>1, <3>2 DEF BytesInv, BytesCounted, Batching
    <2> QED
      BY <1>4, <2>1, <2>2, <2>3, <2>4 DEF Book
  <1>10. CASE a = <<>>
    <2>1. state' = Requeued(st1, t, more) /\ step' = end
      BY <1>3, <1>10
    <2>2. more \in BOOLEAN /\ (~more => st1.targets[t].pending = <<>>)
      OBVIOUS
    <2>3. /\ state' \in State /\ IsInjective(state'.keys) /\ Len(state'.keys) =< PendingKeys
          /\ Len(st1.keys) =< Len(state'.keys)
          /\ \A u \in Target : state'.targets[u].pending # <<>> =>
                      u \notin BadTarget /\ Contains(state'.keys, u)
          /\ Buffered(state') = B1
      <3> HIDE DEF more
      <3> QED
        BY <1>4, <1>5, <2>1, <2>2, QueuedAgain DEF B1
    <2>4. end = [stp EXCEPT !.pc = "next", !.target = "none", !.before = 0, !.bytes = B1]
      <3>1. stp.bytes + SeqBytes(s.pending) - stp.before = B1
        BY <1>4, <1>8 DEF y, c, d
      <3> HIDE DEF s
      <3> QED
        BY <3>1
    <2>5. end \in Step /\ end.pc = "next" /\ end.target = "none" /\ end.batch = <<>>
          /\ end.todo = stp.todo /\ end.bytes = B1
      <3>1. B1 \in Int
        BY <1>7
      <3> QED
        BY <2>4, <3>1 DEF Step
    <2> HIDE DEF end
    <2>6. stp.todo =< Len(state'.keys)
      <3>1. Len(state'.keys) \in Nat /\ Len(st1.keys) = Len(st.keys)
        BY <1>4, <2>3, StateFields
      <3> QED
        BY <1>1, <2>3, <3>1
    <2>7. Paused(state', step')
      BY <1>8, <2>1, <2>3, <2>5, <2>6 DEF Paused
    <2> QED
      BY <2>1, <2>5, <2>7, PausedKeeps
  <1> QED
    BY <1>9, <1>10

\* What holds of the queue and the bytes when nothing is being visited.
LEMMA BookPaused ==
    ASSUME Book, ~Visiting
    PROVE  /\ Paused(state, step)
           /\ state.keys \in Seq(Target) /\ Len(state.keys) \in Nat
           /\ step.todo \in Nat /\ Buffered(state) \in Nat
  <1>1. Buffered(state) =< PendingBytes /\ Buffered(state) \in Nat
    <2>1. /\ Buffered(state) \in Nat /\ SeqBytes(step.batch) \in Nat /\ PendingBytes \in Nat
          /\ Buffered(state) + SeqBytes(step.batch) =< PendingBytes
      BY BufferedIsSum, StepFields, SeqBytesBasics, Sizes DEF Book, BytesInv, BufferBounded
    <2> DEFINE b == Buffered(state)
               c == SeqBytes(step.batch)
    <2> HIDE DEF b, c
    <2>2. b =< PendingBytes
      BY <2>1 DEF b, c
    <2> QED
      BY <2>1, <2>2 DEF b
  <1>2. Paused(state, step)
    <2>1. step.pc \in {"idle", "fill", "next"}
      BY DEF Book, Step, Visiting
    <2>2. \A u \in Target : state.targets[u].pending # <<>> =>
                u \notin BadTarget /\ Contains(state.keys, u)
      BY Zenon DEF Book, KeysInv
    <2>3. IsInjective(state.keys) /\ Len(state.keys) =< PendingKeys
      BY Zenon DEF Book, KeysInv, QueuedOnce
    <2>4. /\ step.target = "none" /\ step.batch = <<>>
          /\ step.pc = "next" => step.todo =< Len(state.keys)
          /\ step.pc # "idle" => step.bytes = Buffered(state)
      BY <2>1 DEF Book, KeysInv, BytesInv, BytesCounted, Batching
    <2> QED
      BY <1>1, <2>1, <2>2, <2>3, <2>4 DEF Paused, Book
  <1> QED
    BY <1>1, <1>2, StateFields, StepFields DEF Book

\* What is being visited, and that its bytes are within the budget.
LEMMA BookVisiting ==
    ASSUME Book, Visiting
    PROVE  /\ step.target \in Target \ BadTarget
           /\ state.keys \in Seq(Target) /\ Len(state.keys) \in Nat /\ step.todo =< Len(state.keys)
           /\ IsInjective(state.keys) /\ Len(state.keys) < PendingKeys
           /\ ~Contains(state.keys, step.target)
           /\ \A u \in Target : state.targets[u].pending # <<>> =>
                u \notin BadTarget /\ (Contains(state.keys, u) \/ u = step.target)
           /\ Buffered(state) \in Nat /\ SeqBytes(step.batch) \in Nat
           /\ Buffered(state) + SeqBytes(step.batch) =< PendingBytes
           /\ Buffered(state) =< PendingBytes
  <1>1. /\ Buffered(state) \in Nat /\ SeqBytes(step.batch) \in Nat /\ PendingBytes \in Nat
        /\ Buffered(state) + SeqBytes(step.batch) =< PendingBytes
    BY BufferedIsSum, StepFields, SeqBytesBasics, Sizes DEF Book, BytesInv, BufferBounded
  <1>2. Buffered(state) =< PendingBytes
    <2> DEFINE b == Buffered(state)
               c == SeqBytes(step.batch)
    <2> HIDE DEF b, c
    <2>1. b =< PendingBytes
      BY <1>1 DEF b, c
    <2> QED
      BY <2>1 DEF b
  <1>3. state.keys \in Seq(Target) /\ Len(state.keys) \in Nat
    BY StateFields DEF Book
  <1>4. /\ \A u \in Target : state.targets[u].pending # <<>> =>
                u \notin BadTarget /\ (Contains(state.keys, u) \/ u = step.target)
        /\ step.target \in Target \ BadTarget /\ step.todo =< Len(state.keys)
        /\ IsInjective(state.keys) /\ Len(state.keys) < PendingKeys
        /\ ~Contains(state.keys, step.target)
    <2>1. \A u \in Target : state.targets[u].pending # <<>> =>
                u \notin BadTarget /\ (Contains(state.keys, u) \/ u = step.target)
      BY Zenon DEF Book, KeysInv
    <2>2. IsInjective(state.keys)
      BY Zenon DEF Book, KeysInv, QueuedOnce
    <2> QED
      BY <2>1, <2>2 DEF Book, KeysInv
  <1> QED
    BY <1>1, <1>2, <1>3, <1>4

\* A batch that ends without effect: its members are pending again.
LEMMA RetryEnds ==
    ASSUME Book, Batching, RetryLater
    PROVE  Paused(state', step') /\ step'.doc = NoDoc
  <1> DEFINE t == step.target
             old == state.targets[t].pending
             p == step.batch \o old
             st == RestoreMembers(state, t, step.batch)
  <1>1. Visiting
    BY DEF Batching, Visiting
  <1>2. t \in Target /\ old \in Seq(Source) /\ step.batch \in Seq(Source) /\ p \in Seq(Source)
        /\ SeqBytes(p) = SeqBytes(step.batch) + SeqBytes(old)
        /\ step.bytes \in Int /\ step.before \in Nat
        /\ SeqBytes(step.batch) \in Nat /\ SeqBytes(old) \in Nat /\ SeqBytes(p) \in Nat
    <2>1. t \in Target
      BY <1>1, BookVisiting
    <2>2. old \in Seq(Source) /\ step.batch \in Seq(Source) /\ p \in Seq(Source)
          /\ step.bytes \in Int /\ step.before \in Nat
      BY <2>1, StateFields, StepFields DEF Book
    <2> QED
      BY <2>1, <2>2, SeqBytesJoin, SeqBytesBasics
  <1>3. st = PendingSet(state, t, p)
    BY DEF RestoreMembers, PendingSet
  <1> HIDE DEF st, p
  <1>4. /\ st \in State /\ st.keys = state.keys /\ st.targets[t].pending = p
        /\ \A u \in Target \ {t} : st.targets[u] = state.targets[u]
    BY ZenonT(60), <1>2, <1>3, WithPending DEF Book
  <1>5. \A u \in Target : st.targets[u].pending # <<>> =>
                u \notin BadTarget /\ (Contains(st.keys, u) \/ u = t)
    BY <1>1, <1>4, BookVisiting
  <1>6. Buffered(st) - SeqBytes(p) = Buffered(state) - SeqBytes(old) /\ Buffered(st) \in Nat
    BY <1>2, <1>4, BufferedChange, BufferedIsSum DEF Book
  <1>7. step.bytes - step.before + SeqBytes(old) = Buffered(state)
    BY DEF Book, BytesInv
  <1> DEFINE B == Buffered(state)
             B1 == Buffered(st)
             x == SeqBytes(step.batch)
             y == SeqBytes(old)
             z == SeqBytes(p)
             c == step.bytes
             d == step.before
  <1>8. /\ B1 - z = B - y /\ z = x + y /\ c - d + y = B /\ B + x =< PendingBytes
        /\ B1 \in Nat /\ B \in Nat /\ x \in Nat /\ y \in Nat /\ z \in Nat
        /\ c \in Int /\ d \in Nat /\ PendingBytes \in Nat
    BY <1>1, <1>2, <1>6, <1>7, BookVisiting, Sizes
  <1>9. c - d + z = B1 /\ B1 =< PendingBytes
    <2> HIDE DEF B, B1, x, y, z, c, d
    <2> QED
      BY <1>8
  <1>10. Settle(st)
    BY DEF RetryLater, st
  <1>11. step.todo =< Len(st.keys) /\ IsInjective(st.keys) /\ Len(st.keys) < PendingKeys
         /\ ~Contains(st.keys, t) /\ t \in Target \ BadTarget /\ step \in Step
    BY <1>1, <1>4, BookVisiting DEF Book
  <1>12. step.bytes - step.before + SeqBytes(st.targets[t].pending) = Buffered(st)
    BY <1>4, <1>9
  <1> QED
    BY <1>4, <1>5, <1>9, <1>10, <1>11, <1>12, SettleEnds

\* A batch that is done with, or refused for good.
LEMMA DoneEnds ==
    ASSUME Book, Batching, Settle(state)
    PROVE  Paused(state', step') /\ step'.doc = NoDoc
  <1>1. Visiting
    BY DEF Batching, Visiting
  <1>2. step.bytes - step.before + SeqBytes(state.targets[step.target].pending) = Buffered(state)
    BY DEF Book, BytesInv
  <1>3. state \in State /\ step \in Step
    BY DEF Book
  <1> QED
    BY <1>1, <1>2, <1>3, BookVisiting, SettleEnds

\* A batch that MongoDB has not acknowledged is kept for later or dropped from
\* memory.
GivenUp == RetryLater \/ Rejected

LEMMA GivenUpEnds ==
    ASSUME Book, Batching, GivenUp
    PROVE  Paused(state', step')
  BY RetryEnds, DoneEnds DEF GivenUp, Rejected

\* Another record with the same queue and the same bytes.
LEMMA SameBook ==
    ASSUME Book, state' = state, NEW pc \in {"write", "ack"}, NEW doc \in Documents, Batching,
           step' = [step EXCEPT !.pc = pc, !.doc = doc]
    PROVE  Book'
  <1> DEFINE new == [step EXCEPT !.pc = pc, !.doc = doc]
  <1>1. new \in Step /\ new.pc = pc /\ new.batch = step.batch /\ new.target = step.target
        /\ new.bytes = step.bytes /\ new.before = step.before /\ new.todo = step.todo
    BY DEF Book, Step
  <1>2. step' = new
    OBVIOUS
  <1> HIDE DEF new
  <1>3. Visiting /\ Visiting' /\ Batching'
    BY <1>1, <1>2 DEF Visiting, Batching
  <1>4. KeysInv'
    BY <1>1, <1>2, <1>3 DEF Book, KeysInv, QueuedOnce
  <1>5. BytesInv'
    <2>1. BufferBounded'
      BY <1>1, <1>2 DEF Book, BytesInv, BufferBounded
    <2> QED
      BY <1>1, <1>2, <1>3, <2>1 DEF Book, BytesInv, BytesCounted, Batching
  <1> QED
    BY <1>1, <1>2, <1>4, <1>5 DEF Book

-----------------------------------------------------------------------------
(* Every step of the processor keeps its books.                            *)

\* Nothing is buffered where nothing is pending.
LEMMA BufferedNothing ==
    ASSUME NEW st \in State, \A t \in Target : st.targets[t].pending = <<>>
    PROVE  Buffered(st) = 0
  <1>1. \A s \in Seq(Source) : s = <<>> => SeqBytes(s) = 0
    BY SeqBytesBasics
  <1>2. \A t \in Target : BytesOf(st)[t] \in 0 .. 0
    <2> SUFFICES ASSUME NEW t \in Target
                 PROVE  BytesOf(st)[t] = 0
      OBVIOUS
    <2> QED
      BY <1>1, BufferedIsSum, StateFields
  <1>3. 0 \in Nat /\ IsFiniteSet(Target)
    BY Sizes
  <1>4. Sum(BytesOf(st), Target) =< Cardinality(Target) * 0
    BY <1>2, <1>3, SumBound
  <1>5. Cardinality(Target) \in Nat
    BY <1>3, FS_CardinalityType
  <1>6. Cardinality(Target) * 0 = 0
    <2>1. \A n \in Nat : n * 0 = 0
      OBVIOUS
    <2> QED
      BY <1>5, <2>1
  <1>7. Buffered(st) =< 0 /\ Buffered(st) \in Nat
    BY <1>4, <1>6, BufferedIsSum
  <1> QED
    BY <1>7

\* A new process holds nothing.
LEMMA NewProcess ==
    /\ NewState \in State /\ \A t \in Target : NewState.targets[t].pending = <<>>
    /\ Paused(NewState, Idle)
  <1>1. /\ NewState \in State /\ NewState.keys = <<>>
        /\ \A t \in Target : NewState.targets[t].pending = <<>>
    BY NewScanFacts DEF NewState, State
  <1>2. Buffered(NewState) = 0
    BY <1>1, BufferedNothing
  <1>3. Idle \in Step /\ Idle.pc = "idle" /\ Idle.target = "none" /\ Idle.batch = <<>>
    BY DEF Idle, Step, Documents
  <1>4. IsInjective(<<>>) /\ Len(<<>>) = 0
    BY DEF IsInjective
  <1> QED
    BY <1>1, <1>2, <1>3, <1>4, Sizes DEF Paused

\* Idle after any state whose books are right.
LEMMA PausedIdle ==
    ASSUME NEW st, NEW stp, Paused(st, stp)
    PROVE  Paused(st, Idle)
  <1>1. Idle \in Step /\ Idle.pc = "idle" /\ Idle.target = "none" /\ Idle.batch = <<>>
    BY DEF Idle, Step, Documents
  <1> QED
    BY <1>1 DEF Paused

\* The start and the end of a cycle.
LEMMA CycleBook ==
    ASSUME Book, (BeginCycle \/ EndCycle)
    PROVE  Paused(state', step')
  <1>1. ~Visiting
    BY DEF BeginCycle, EndCycle, Visiting
  <1>2. Paused(state, step) /\ Buffered(state) \in Nat
    BY <1>1, BookPaused
  <1>3. CASE BeginCycle
    <2> DEFINE new == [Idle EXCEPT !.pc = "fill", !.bytes = Buffered(state)]
    <2>1. new \in Step /\ new.pc = "fill" /\ new.target = "none" /\ new.batch = <<>>
          /\ new.bytes = Buffered(state)
      <3> DEFINE b == Buffered(state)
      <3>1. b \in Int
        BY <1>2
      <3>2. Idle \in Step /\ Idle.target = "none" /\ Idle.batch = <<>>
        BY DEF Idle, Step, Documents
      <3> HIDE DEF b
      <3>3. /\ [Idle EXCEPT !.pc = "fill", !.bytes = b] \in Step
            /\ [Idle EXCEPT !.pc = "fill", !.bytes = b].bytes = b
            /\ [Idle EXCEPT !.pc = "fill", !.bytes = b].pc = "fill"
            /\ [Idle EXCEPT !.pc = "fill", !.bytes = b].target = "none"
            /\ [Idle EXCEPT !.pc = "fill", !.bytes = b].batch = <<>>
        BY <3>1, <3>2 DEF Step
      <3> QED
        BY <3>3 DEF b
    <2>2. step' = new /\ state' = state
      BY <1>3 DEF BeginCycle
    <2> HIDE DEF new
    <2> QED
      BY <1>2, <2>1, <2>2 DEF Paused
  <1>4. CASE EndCycle
    BY <1>2, <1>4, PausedIdle DEF EndCycle
  <1> QED
    BY <1>3, <1>4

\* The targets of a cycle are at the head of the queue.
LEMMA TargetsBook ==
    ASSUME NEW st, NEW stp, Paused(st, stp), stp.pc = "fill"
    PROVE  Paused(st, BeginTargets(stp, st))
  <1> DEFINE n == IF Len(st.keys) < TargetsPerCycle THEN Len(st.keys) ELSE TargetsPerCycle
             new == [stp EXCEPT !.pc = "next", !.calls = 0, !.todo = n]
  <1>1. st \in State /\ stp \in Step
    BY DEF Paused
  <1>2. Len(st.keys) \in Nat /\ TargetsPerCycle \in Nat
    BY <1>1, StateFields, Sizes
  <1>3. n \in Nat /\ n =< Len(st.keys)
    BY <1>2
  <1>4. BeginTargets(stp, st) = new
    BY DEF BeginTargets
  <1> HIDE DEF n
  <1>5. new \in Step /\ new.pc = "next" /\ new.target = stp.target /\ new.batch = stp.batch
        /\ new.todo = n /\ new.bytes = stp.bytes
    BY <1>1, <1>3 DEF Step
  <1> HIDE DEF new
  <1> QED
    BY <1>3, <1>4, <1>5 DEF Paused

\* Scanning for keys.
LEMMA FillBook ==
    ASSUME TypeOK, Book, FillPendingKeys
    PROVE  Paused(state', step')
  <1>1. step.pc = "fill" /\ ~Visiting
    BY DEF FillPendingKeys, Visiting
  <1>2. /\ Paused(state, step) /\ state \in State /\ step \in Step
        /\ state.keys \in Seq(Target) /\ Len(state.keys) \in Nat
        /\ IsInjective(state.keys) /\ PendingKeys \in Nat /\ ScanItems \in Nat
    BY <1>1, BookPaused, Sizes DEF Book, Paused
  <1> DEFINE owed == (IF state.keyScan THEN state.keysOwed ELSE Keys) \cap Keys
  <1>3. ASSUME NEW found \in SUBSET Keys, Cardinality(found) =< ScanItems,
               Len(state.keys) =< PendingKeys - ScanItems,
               NEW left, left = owed \ found,
               NEW st, st = [state EXCEPT !.keys = @ \o SetToSeq(found \ ToSet(state.keys)),
                                          !.keysOwed = left, !.keyScan = left # {}],
               NEW stp, stp = [step EXCEPT !.calls = @ + 1]
        PROVE  Paused(st, stp) /\ stp.pc = "fill"
    <2> DEFINE fresh == found \ ToSet(state.keys)
               q == SetToSeq(fresh)
               k == state.keys \o q
    <2>1. Keys \subseteq Target /\ left \in SUBSET Target
      BY <1>3 DEF Keys
    <2>2. /\ IsFiniteSet(fresh) /\ Cardinality(fresh) =< Cardinality(found)
          /\ Cardinality(found) \in Nat /\ Cardinality(fresh) \in Nat
      <3>1. IsFiniteSet(found)
        <4>1. found \in SUBSET Target
          BY <2>1
        <4> QED
          BY <4>1, Sizes, FS_Subset
      <3>2. fresh \in SUBSET found
        OBVIOUS
      <3>3. IsFiniteSet(fresh) /\ Cardinality(fresh) =< Cardinality(found)
        BY <3>1, <3>2, FS_Subset
      <3> QED
        BY <3>1, <3>3, FS_CardinalityType
    <2>3. q \in Seq(fresh) /\ Len(q) = Cardinality(fresh) /\ IsInjective(q)
      BY <2>2, SetToSeqFacts
    <2>4. q \in Seq(Target)
      <3>1. fresh \subseteq Target
        BY <2>1
      <3> HIDE DEF q, fresh
      <3>2. \A i \in 1 .. Len(q) : q[i] \in Target
        BY <2>3, <3>1
      <3> QED
        BY <2>3, <3>2
    <2>5. \A i \in 1 .. Len(state.keys), j \in 1 .. Len(q) : state.keys[i] # q[j]
      <3> SUFFICES ASSUME NEW i \in 1 .. Len(state.keys), NEW j \in 1 .. Len(q)
                   PROVE  state.keys[i] # q[j]
        OBVIOUS
      <3>1. q[j] \in fresh
        BY <2>3
      <3>2. state.keys[i] \in ToSet(state.keys)
        BY <1>2 DEF ToSet
      <3> HIDE DEF q
      <3> QED
        BY <3>1, <3>2
    <2>6. /\ k \in Seq(Target) /\ Len(k) = Len(state.keys) + Len(q) /\ IsInjective(k)
          /\ \A e : Contains(k, e) <=> Contains(state.keys, e) \/ Contains(q, e)
      <3> HIDE DEF q
      <3> QED
        BY <1>2, <2>3, <2>4, <2>5, JoinDistinct
    <2> HIDE DEF k
    <2>7. st \in State /\ st.keys = k /\ st.targets = state.targets
      <3>1. st = [state EXCEPT !.keys = k, !.keysOwed = left, !.keyScan = left # {}]
        BY <1>3 DEF k
      <3>2. (left # {}) \in BOOLEAN
        OBVIOUS
      <3> QED
        BY <1>2, <2>1, <2>6, <3>1, <3>2 DEF State
    <2>8. Len(k) =< PendingKeys
      <3> DEFINE a == Len(state.keys)
                 b == Cardinality(fresh)
                 c == Cardinality(found)
                 d == Len(k)
      <3>1. /\ d = a + b /\ b =< c /\ c =< ScanItems /\ a =< PendingKeys - ScanItems
            /\ a \in Nat /\ b \in Nat /\ c \in Nat
        BY <1>2, <1>3, <2>2, <2>3, <2>6
      <3> HIDE DEF a, b, c, d
      <3>2. d =< PendingKeys
        BY <1>2, <3>1
      <3> QED
        BY <3>2 DEF d
    <2>9. Buffered(st) = Buffered(state)
      BY <1>2, <2>7, BufferedSame
    <2>10. stp \in Step /\ stp.pc = "fill" /\ stp.target = step.target /\ stp.batch = step.batch
           /\ stp.bytes = step.bytes
      BY SMTT(60), <1>1, <1>2, <1>3 DEF Step
    <2> HIDE DEF q, fresh
    <2> QED
      BY <1>1, <1>2, <2>6, <2>7, <2>8, <2>9, <2>10 DEF Paused
  <1>4. CASE /\ step.calls < ScanCalls /\ Len(state.keys) =< PendingKeys - ScanItems
             /\ \E found \in SUBSET Keys :
                    LET left == owed \ found
                        new  == found \ ToSet(state.keys)
                        st1  == [state EXCEPT !.keys = @ \o SetToSeq(new),
                                              !.keysOwed = left, !.keyScan = left # {}]
                        stp  == [step EXCEPT !.calls = @ + 1]
                    IN  /\ Cardinality(found) <= ScanItems
                        /\ state' = st1
                        /\ step' = IF left = {} \/ Len(st1.keys) >= TargetsPerCycle
                                   THEN BeginTargets(stp, st1) ELSE stp
                        /\ Advances(owed, left)
    <2>1. PICK found \in SUBSET Keys :
                    LET left == owed \ found
                        new  == found \ ToSet(state.keys)
                        st1  == [state EXCEPT !.keys = @ \o SetToSeq(new),
                                              !.keysOwed = left, !.keyScan = left # {}]
                        stp  == [step EXCEPT !.calls = @ + 1]
                    IN  /\ Cardinality(found) <= ScanItems
                        /\ state' = st1
                        /\ step' = IF left = {} \/ Len(st1.keys) >= TargetsPerCycle
                                   THEN BeginTargets(stp, st1) ELSE stp
      BY <1>4
    <2> DEFINE left == owed \ found
               st1  == [state EXCEPT !.keys = @ \o SetToSeq(found \ ToSet(state.keys)),
                                     !.keysOwed = left, !.keyScan = left # {}]
               stp  == [step EXCEPT !.calls = @ + 1]
    <2>2. state' = st1 /\ (step' = BeginTargets(stp, st1) \/ step' = stp)
      BY <2>1
    <2>3. Paused(st1, stp) /\ stp.pc = "fill"
      <3>1. Cardinality(found) =< ScanItems /\ Len(state.keys) =< PendingKeys - ScanItems
        BY <1>4, <2>1
      <3> HIDE DEF owed
      <3> QED
        BY <1>3, <3>1
    <2> HIDE DEF st1, stp
    <2>4. Paused(st1, BeginTargets(stp, st1))
      BY <2>3, TargetsBook
    <2> QED
      BY <2>2, <2>3, <2>4
  <1>5. CASE state' = state /\ step' = BeginTargets(step, state)
    BY <1>1, <1>2, <1>5, TargetsBook
  <1> QED
    BY <1>4, <1>5 DEF FillPendingKeys

\* A product grows with its first factor.
LEMMA ProductGrows ==
    ASSUME NEW a \in Nat, NEW b \in Nat, NEW c \in Nat, a =< b
    PROVE  a * c =< b * c /\ a * c \in Nat
  <1>1. PICK d \in Nat : b = a + d
    <2>1. b - a \in Nat /\ b = a + (b - a)
      OBVIOUS
    <2> QED
      BY <2>1
  <1>2. b * c = a * c + d * c
    BY <1>1
  <1>3. a * c \in Nat /\ d * c \in Nat
    BY <1>1
  <1> QED
    BY <1>2, <1>3

\* The first key of the queue, and what remains when it is taken.
LEMMA Taken ==
    ASSUME Book, step.pc = "next", step.todo > 0
    PROVE  /\ Head(state.keys) \in Target
           /\ Popped \in State /\ Popped.keys = Tail(state.keys)
           /\ Popped.targets = state.targets
           /\ Popped.keys \in Seq(Target) /\ Len(Popped.keys) \in Nat
           /\ Len(Popped.keys) < PendingKeys /\ IsInjective(Popped.keys)
           /\ ~Contains(Popped.keys, Head(state.keys))
           /\ \A u \in Target : state.targets[u].pending # <<>> =>
                u \notin BadTarget /\ (Contains(Popped.keys, u) \/ u = Head(state.keys))
           /\ Buffered(Popped) = Buffered(state)
           /\ Next1 \in Step /\ Next1.todo =< Len(Popped.keys)
           /\ Next1.pc = "next" /\ Next1.target = "none" /\ Next1.batch = <<>>
           /\ Next1.bytes = Buffered(state) /\ Next1.before = step.before
           /\ Buffered(state) =< PendingBytes
  <1>1. ~Visiting
    BY DEF Visiting
  <1>2. /\ Paused(state, step) /\ state.keys \in Seq(Target) /\ Len(state.keys) \in Nat
        /\ step.todo \in Nat /\ Buffered(state) \in Nat /\ PendingKeys \in Nat
    BY <1>1, BookPaused, Sizes
  <1>3. step.todo =< Len(state.keys) /\ Len(state.keys) > 0 /\ Len(state.keys) =< PendingKeys
    BY <1>2 DEF Paused
  <1> DEFINE k == Tail(state.keys)
             h == Head(state.keys)
  <1>4. /\ h \in Target /\ k \in Seq(Target) /\ Len(k) = Len(state.keys) - 1 /\ IsInjective(k)
        /\ ~Contains(k, h) /\ \A u : Contains(state.keys, u) <=> u = h \/ Contains(k, u)
    BY <1>2, <1>3, PopKey DEF Paused
  <1>5. Popped = KeysSet(state, k)
    BY DEF Popped, KeysSet
  <1> HIDE DEF k, h
  <1>6. Popped \in State /\ Popped.keys = k /\ Popped.targets = state.targets
    BY <1>4, <1>5, WithKeys DEF Book
  <1>7. Buffered(Popped) = Buffered(state)
    BY <1>6, BufferedSame DEF Book
  <1>8. Next1 \in Step /\ Next1.todo = step.todo - 1 /\ Next1.pc = step.pc
        /\ Next1.target = step.target /\ Next1.batch = step.batch
        /\ Next1.bytes = step.bytes /\ Next1.before = step.before
    BY <1>2 DEF Next1, Step, Book
  <1>9. Len(k) \in Nat /\ Len(k) < PendingKeys /\ step.todo - 1 =< Len(k)
    BY <1>2, <1>3, <1>4
  <1>10. \A u \in Target : state.targets[u].pending # <<>> =>
                u \notin BadTarget /\ (Contains(k, u) \/ u = h)
    BY <1>2, <1>4 DEF Paused
  <1> QED
    BY <1>2, <1>4, <1>6, <1>7, <1>8, <1>9, <1>10 DEF Paused, h, k

\* A target that is rejected, or that must wait for room.
LEMMA PassBook ==
    ASSUME Book, (RejectTarget \/ WaitForRoom)
    PROVE  Paused(state', step')
  <1> DEFINE h == Head(state.keys)
  <1>1. step.pc = "next" /\ step.todo > 0 /\ step' = Next1
    BY DEF RejectTarget, WaitForRoom
  <1> USE <1>1
  <1>2. CASE RejectTarget
    <2>1. h \in BadTarget /\ state' = Popped
      BY <1>2 DEF RejectTarget
    <2>2. \A u \in Target : Popped.targets[u].pending # <<>> =>
                u \notin BadTarget /\ Contains(Popped.keys, u)
      BY <2>1, Taken
    <2>3. Len(Popped.keys) =< PendingKeys
      BY Taken, Sizes
    <2> QED
      BY <2>1, <2>2, <2>3, Taken DEF Paused
  <1>3. CASE WaitForRoom
    <2> DEFINE st == QueueKey(Popped, h)
               new == [st EXCEPT !.waiter = IF @ = "none" THEN h ELSE @]
    <2>1. h \notin BadTarget /\ state' = new
      BY <1>3 DEF WaitForRoom
    <2>2. /\ h \in Target \ BadTarget
          /\ Popped \in State /\ IsInjective(Popped.keys) /\ Len(Popped.keys) < PendingKeys
          /\ ~Contains(Popped.keys, h)
          /\ \A u \in Target : Popped.targets[u].pending # <<>> =>
                u \notin BadTarget /\ (Contains(Popped.keys, u) \/ u = h)
      BY <2>1, Taken
    <2>3. st = Requeued(Popped, h, TRUE)
      BY DEF Requeued
    <2> HIDE DEF st
    <2>4. /\ st \in State /\ IsInjective(st.keys) /\ Len(st.keys) =< PendingKeys
          /\ Len(Popped.keys) =< Len(st.keys)
          /\ \A u \in Target : st.targets[u].pending # <<>> =>
                   u \notin BadTarget /\ Contains(st.keys, u)
          /\ Buffered(st) = Buffered(Popped)
      BY <2>2, <2>3, QueuedAgain
    <2>5. new \in State /\ new.keys = st.keys /\ new.targets = st.targets
      BY <2>2, <2>4 DEF State
    <2> HIDE DEF new
    <2>6. Buffered(new) = Buffered(st)
      BY <2>4, <2>5, BufferedSame
    <2>7. Next1.todo =< Len(st.keys)
      <3>1. Next1.todo \in Nat /\ Len(st.keys) \in Nat /\ Len(Popped.keys) \in Nat
        BY <2>4, Taken, StepFields, StateFields
      <3> QED
        BY <2>4, <3>1, Taken
    <2> QED
      BY <2>1, <2>4, <2>5, <2>6, <2>7, Taken DEF Paused
  <1> QED
    BY <1>2, <1>3

\* A visit begins with a scan, or with the members that are pending.
LEMMA VisitBook ==
    ASSUME Book, VisitTarget
    PROVE  Book' /\ step'.pc \in {"scan", "find", "next"}
  <1> DEFINE t == Head(state.keys)
             old == state.targets[t].pending
             stp == [Next1 EXCEPT !.target = t, !.before = SeqBytes(old)]
  <1>1. /\ step.pc = "next" /\ step.todo > 0 /\ t \notin BadTarget
        /\ IF NeedsScan(state.targets[t])
             THEN /\ HasRoom(t)
                  /\ state' = [Popped EXCEPT !.waiter = "none"]
                  /\ step' = [stp EXCEPT !.pc = "scan"]
             ELSE VisitMembers(Popped, t, stp)
    BY DEF VisitTarget
  <1>2. /\ t \in Target \ BadTarget
        /\ Popped \in State /\ IsInjective(Popped.keys) /\ Len(Popped.keys) < PendingKeys
        /\ ~Contains(Popped.keys, t) /\ Popped.targets = state.targets
        /\ \A u \in Target : Popped.targets[u].pending # <<>> =>
              u \notin BadTarget /\ (Contains(Popped.keys, u) \/ u = t)
        /\ Buffered(Popped) = Buffered(state) /\ Buffered(state) =< PendingBytes
    BY <1>1, Taken
  <1>3. old \in Seq(Source) /\ SeqBytes(old) \in Nat /\ Buffered(state) \in Nat
    BY <1>2, StateFields, SeqBytesBasics, BufferedIsSum DEF Book
  <1>4. /\ stp \in Step /\ stp.target = t /\ stp.batch = <<>> /\ stp.todo =< Len(Popped.keys)
        /\ stp.before = SeqBytes(old) /\ stp.bytes = Buffered(state)
    <2>1. stp \in Step /\ stp.target = t /\ stp.before = SeqBytes(old)
          /\ stp.todo = Next1.todo /\ stp.bytes = Next1.bytes /\ stp.batch = Next1.batch
      <3> DEFINE b == SeqBytes(old)
      <3>1. b \in Nat
        BY <1>3
      <3>2. Next1 \in Step /\ t \in Target
        BY <1>1, Taken
      <3> HIDE DEF b, t
      <3>3. [Next1 EXCEPT !.target = t, !.before = b] \in Step
        BY <3>1, <3>2 DEF Step
      <3> QED
        BY <3>2, <3>3 DEF b, Step
    <2> QED
      BY <1>1, <2>1, Taken
  <1>5. CASE NeedsScan(state.targets[t])
    <2> DEFINE new == [Popped EXCEPT !.waiter = "none"]
               go == [stp EXCEPT !.pc = "scan"]
    <2>1. state' = new /\ step' = go /\ HasRoom(t) /\ old = <<>>
      BY <1>1, <1>5 DEF NeedsScan
    <2>2. new \in State /\ new.keys = Popped.keys /\ new.targets = Popped.targets
      BY <1>2 DEF State
    <2>3. SeqBytes(old) = 0
      BY <1>3, <2>1, SeqBytesBasics
    <2> HIDE DEF stp
    <2>4. go \in Step /\ go.pc = "scan" /\ go.target = t /\ go.batch = <<>>
          /\ go.todo = stp.todo /\ go.before = 0 /\ go.bytes = Buffered(state)
      BY <1>4, <2>3 DEF Step
    <2> HIDE DEF new, go
    <2>5. Buffered(new) = Buffered(state)
      BY <1>2, <2>2, BufferedSame
    <2>6. Buffered(state) + ScanItems * MaxSize =< PendingBytes
      <3>1. step.bytes = Buffered(state)
        BY <1>1 DEF Book, BytesInv, BytesCounted
      <3> QED
        BY <2>1, <3>1 DEF HasRoom
    <2>7. KeysInv'
      <3>1. Visiting'
        BY <2>1, <2>4 DEF Visiting
      <3>2. Len(new.keys) =< PendingKeys
        BY <1>1, <2>2, Taken, Sizes
      <3> QED
        BY <1>2, <1>4, <2>1, <2>2, <2>4, <3>1, <3>2 DEF KeysInv, QueuedOnce
    <2>8. BytesInv'
      <3>1. SeqBytes(<<>>) = 0
        BY <2>1, <2>3
      <3>2. BufferBounded'
        <4> DEFINE b == Buffered(state)
        <4>1. b \in Nat /\ b =< PendingBytes /\ PendingBytes \in Nat
          BY <1>2, <1>3, Sizes
        <4> HIDE DEF b
        <4>2. b + 0 =< PendingBytes
          BY <4>1
        <4>3. Buffered(new) + SeqBytes(go.batch) =< PendingBytes
          BY <2>4, <2>5, <3>1, <4>2 DEF b
        <4> QED
          BY <2>1, <4>3 DEF BufferBounded
      <3>3. new.targets[t].pending = <<>>
        BY <1>2, <2>1, <2>2
      <3> QED
        BY <2>1, <2>4, <2>5, <2>6, <3>2, <3>3 DEF BytesInv, BytesCounted, Batching
    <2> QED
      BY <2>1, <2>2, <2>4, <2>7, <2>8 DEF Book
  <1>6. CASE ~NeedsScan(state.targets[t])
    <2>1. VisitMembers(Popped, t, stp)
      BY <1>1, <1>6
    <2>2. stp.bytes - stp.before + SeqBytes(Popped.targets[t].pending) = Buffered(Popped)
      <3> DEFINE b == Buffered(state)
                 o == SeqBytes(old)
      <3>1. b \in Nat /\ o \in Nat
        BY <1>3
      <3>2. stp.bytes = b /\ stp.before = o /\ SeqBytes(Popped.targets[t].pending) = o
            /\ Buffered(Popped) = b
        BY <1>2, <1>4
      <3> HIDE DEF b, o, stp
      <3> QED
        BY <3>1, <3>2
    <2>3. stp.todo =< Len(Popped.keys) /\ Buffered(Popped) =< PendingBytes
      BY <1>2, <1>4
    <2> HIDE DEF stp, t
    <2>4. Book' /\ step'.pc \in {"find", "next"}
      BY <1>2, <1>4, <2>1, <2>2, <2>3, VisitKeeps
    <2> QED
      BY <2>4
  <1> QED
    BY <1>5, <1>6

\* A page that arrives fits into the room that was reserved for it.
LEMMA ScanBook ==
    ASSUME TypeOK, Book, ScanMembers
    PROVE  Book' /\ step'.pc \in {"find", "next", "idle"}
  <1> DEFINE t == step.target
             s == state.targets[t]
             owed == (IF s.started THEN s.owed ELSE sets[t]) \cap sets[t]
  <1>1. step.pc = "scan" /\ Visiting /\ ~Batching
    BY DEF ScanMembers, Visiting, Batching
  <1>2. /\ t \in Target \ BadTarget /\ state \in State /\ step \in Step
        /\ state.keys \in Seq(Target) /\ Len(state.keys) \in Nat /\ step.todo =< Len(state.keys)
        /\ IsInjective(state.keys) /\ Len(state.keys) < PendingKeys
        /\ ~Contains(state.keys, t)
        /\ \A u \in Target : state.targets[u].pending # <<>> =>
             u \notin BadTarget /\ (Contains(state.keys, u) \/ u = t)
        /\ Buffered(state) \in Nat /\ Buffered(state) =< PendingBytes
    BY <1>1, BookVisiting DEF Book
  <1>3. /\ s.pending = <<>> /\ step.before = 0 /\ step.batch = <<>>
        /\ step.bytes = Buffered(state)
        /\ Buffered(state) + ScanItems * MaxSize =< PendingBytes
    BY <1>1 DEF Book, BytesInv
  <1>4. s \in Scan /\ sets[t] \in SUBSET Source
    BY <1>2, StateFields DEF TypeOK
  <1>5. ASSUME NEW page \in SUBSET sets[t], Cardinality(page) =< ScanItems,
               NEW left, left = owed \ page, NEW done \in BOOLEAN,
               VisitMembers([state EXCEPT !.targets[t] =
                                [started |-> ~done, owed |-> left, complete |-> done,
                                 pending |-> SetToSeq(page)]], t, step)
        PROVE  Book' /\ step'.pc \in {"find", "next"}
    <2> DEFINE p == SetToSeq(page)
               scan == [started |-> ~done, owed |-> left, complete |-> done, pending |-> p]
               st == ScanSet(state, t, scan)
    <2>1. IsFiniteSet(page) /\ page \subseteq Source /\ Cardinality(page) \in Nat
      <3>1. page \in SUBSET Source
        BY <1>4
      <3> QED
        BY <3>1, Sizes, FS_Subset, FS_CardinalityType
    <2>2. p \in Seq(page) /\ Len(p) = Cardinality(page)
      BY <2>1, SetToSeqFacts
    <2>3. p \in Seq(Source)
      <3> HIDE DEF p
      <3>1. \A i \in 1 .. Len(p) : p[i] \in Source
        BY <2>1, <2>2
      <3> QED
        BY <2>2, <3>1
    <2>4. SeqBytes(p) =< ScanItems * MaxSize /\ SeqBytes(p) \in Nat /\ ScanItems * MaxSize \in Nat
      <3> DEFINE n == Cardinality(page)
      <3>1. SeqBytes(p) =< n * MaxSize /\ SeqBytes(p) \in Nat
        <4> HIDE DEF p
        <4> QED
          BY <2>2, <2>3, SeqBytesBasics
      <3>2. n \in Nat /\ MaxSize \in Nat /\ ScanItems \in Nat /\ n =< ScanItems
        BY <1>5, <2>1, Sizes
      <3> HIDE DEF n, p
      <3>3. n * MaxSize =< ScanItems * MaxSize /\ n * MaxSize \in Nat
        BY <3>2, ProductGrows
      <3>4. ScanItems * MaxSize \in Nat
        <4>1. ScanItems =< ScanItems
          BY <3>2
        <4> QED
          BY <3>2, <4>1, ProductGrows
      <3> DEFINE x == n * MaxSize
                 y == ScanItems * MaxSize
                 z == SeqBytes(p)
      <3>5. z =< x /\ x =< y /\ x \in Nat /\ y \in Nat /\ z \in Nat
        BY <3>1, <3>3, <3>4
      <3> HIDE DEF x, y, z
      <3>6. z =< y
        BY <3>5
      <3> QED
        BY <3>5, <3>6 DEF y, z
    <2> HIDE DEF p
    <2>5. scan \in Scan /\ scan.pending = p
      <3>1. left \in SUBSET Source
        BY <1>4, <1>5 DEF Scan
      <3> QED
        BY <2>3, <3>1 DEF Scan
    <2>6. VisitMembers(st, t, step)
      BY <1>5 DEF ScanSet, p
    <2> HIDE DEF scan
    <2>7. /\ st \in State /\ st.keys = state.keys /\ st.targets[t] = scan
          /\ \A u \in Target \ {t} : st.targets[u] = state.targets[u]
      <3> HIDE DEF t
      <3> QED
        BY <1>2, <2>5, WithScan
    <2> HIDE DEF st
    <2>8. \A u \in Target : st.targets[u].pending # <<>> =>
             u \notin BadTarget /\ (Contains(st.keys, u) \/ u = t)
      BY <1>2, <2>7
    <2>9. Buffered(st) - SeqBytes(p) = Buffered(state) - SeqBytes(s.pending) /\ Buffered(st) \in Nat
      BY <1>2, <2>5, <2>7, BufferedChange, BufferedIsSum
    <2>10. SeqBytes(s.pending) = 0
      <3>1. s.pending \in Seq(Source)
        BY <1>4 DEF Scan
      <3> QED
        BY <1>3, <3>1, SeqBytesBasics
    <2> DEFINE B == Buffered(state)
               B1 == Buffered(st)
               y == SeqBytes(p)
               z == ScanItems * MaxSize
    <2>11. /\ B1 - y = B - 0 /\ B + z =< PendingBytes /\ y =< z
           /\ B \in Nat /\ B1 \in Nat /\ y \in Nat /\ z \in Nat /\ PendingBytes \in Nat
      BY <1>2, <1>3, <2>4, <2>9, <2>10, Sizes
    <2>12. B - 0 + y = B1 /\ B1 =< PendingBytes
      <3> HIDE DEF B, B1, y, z
      <3> QED
        BY <2>11
    <2>13. step.bytes - step.before + SeqBytes(st.targets[t].pending) = Buffered(st)
      BY <1>3, <2>5, <2>7, <2>12
    <2>14. step.todo =< Len(st.keys) /\ IsInjective(st.keys) /\ Len(st.keys) < PendingKeys
           /\ ~Contains(st.keys, t)
      BY <1>2, <2>7
    <2> QED
      BY <1>2, <1>3, <2>6, <2>7, <2>8, <2>12, <2>13, <2>14, VisitKeeps
  <1>6. CASE state' = QueueKey(state, t) /\ step' = Idle
    <2>1. state' = Requeued(state, t, TRUE)
      BY <1>6 DEF Requeued
    <2>2. /\ state' \in State /\ IsInjective(state'.keys) /\ Len(state'.keys) =< PendingKeys
          /\ \A u \in Target : state'.targets[u].pending # <<>> =>
                   u \notin BadTarget /\ Contains(state'.keys, u)
          /\ Buffered(state') = Buffered(state)
      BY <1>2, <2>1, QueuedAgain
    <2>3. Paused(state', Idle)
      <3>1. Idle \in Step /\ Idle.pc = "idle" /\ Idle.target = "none" /\ Idle.batch = <<>>
        BY DEF Idle, Step, Documents
      <3> QED
        BY <1>2, <2>2, <3>1 DEF Paused
    <2> QED
      BY <1>6, <2>3, PausedKeeps DEF Idle
  <1>7. CASE \E page \in SUBSET sets[t] :
                    LET left == owed \ page
                        done == left = {}
                    IN  /\ Cardinality(page) <= ScanItems
                        /\ VisitMembers([state EXCEPT !.targets[t] =
                                [started |-> ~done, owed |-> left, complete |-> done,
                                 pending |-> SetToSeq(page)]], t, step)
    <2>1. PICK page \in SUBSET sets[t] :
                    LET left == owed \ page
                        done == left = {}
                    IN  /\ Cardinality(page) <= ScanItems
                        /\ VisitMembers([state EXCEPT !.targets[t] =
                                [started |-> ~done, owed |-> left, complete |-> done,
                                 pending |-> SetToSeq(page)]], t, step)
      BY <1>7
    <2> DEFINE left == owed \ page
               done == left = {}
    <2>2. done \in BOOLEAN
      OBVIOUS
    <2>3. /\ Cardinality(page) <= ScanItems
          /\ VisitMembers([state EXCEPT !.targets[t] =
                                [started |-> ~done, owed |-> left, complete |-> done,
                                 pending |-> SetToSeq(page)]], t, step)
      BY <2>1
    <2>4. left = owed \ page
      OBVIOUS
    <2> HIDE DEF done, left, owed
    <2> QED
      BY <1>5, <2>2, <2>3, <2>4
  <1>8. \/ \E page \in SUBSET sets[t] :
                    LET left == owed \ page
                        done == left = {}
                    IN  /\ Cardinality(page) <= ScanItems
                        /\ VisitMembers([state EXCEPT !.targets[t] =
                                [started |-> ~done, owed |-> left, complete |-> done,
                                 pending |-> SetToSeq(page)]], t, step)
        \/ state' = QueueKey(state, t) /\ step' = Idle
    BY DEF ScanMembers
  <1> QED
    BY <1>6, <1>7, <1>8

-----------------------------------------------------------------------------
(* The documents, and who is about to write them.                          *)

\* The bytes of a set of members are a number.
LEMMA BytesIsNat ==
    ASSUME NEW S \in SUBSET Source
    PROVE  Bytes(S) \in Nat
  <1>1. IsFiniteSet(S) /\ \A m \in S : Size[m] \in Nat
    BY Sizes, FS_Subset
  <1>2. Bytes(S) = Sum(Size, S)
    BY DEF Bytes, Sum
  <1> QED
    BY <1>1, <1>2, SumBasics

\* A document has the members that were written to it.
LEMMA DocumentFacts ==
    /\ NoDoc \in Documents /\ Links(NoDoc) = {}
    /\ \A d \in Documents : Links(d) \in SUBSET Source
    /\ \A d \in Documents, S \in SUBSET Source :
          Projected(d, S) \in Documents /\ Links(Projected(d, S)) = Links(d) \cup S
  <1>1. \A S : Links({S}) = S
    BY DEF Links
  <1>2. Links(NoDoc) = {}
    BY DEF Links, NoDoc
  <1>3. \A d \in Documents : Links(d) \in SUBSET Source
    BY <1>1, <1>2 DEF Documents
  <1> QED
    BY <1>1, <1>2, <1>3 DEF Documents, Projected

\* A checked write that finds the document that was read.
LEMMA StoreIsChecked ==
    ASSUME mongo \in [Target -> Documents], BelowCeiling,
           NEW t \in Target, NEW S \in SUBSET Source, NEW doc,
           ~TooLarge(doc, S), Matches(t, doc), Store(t, mongo[t], S)
    PROVE  /\ mongo' \in [Target -> Documents] /\ BelowCeiling'
           /\ S \subseteq Links(mongo'[t])
           /\ \A u \in Target : Links(mongo[u]) \subseteq Links(mongo'[u])
  <1>1. doc = mongo[t] /\ doc \in Documents
    BY DEF Matches
  <1> DEFINE new == Projected(doc, S)
  <1>2. new \in Documents /\ Links(new) = Links(doc) \cup S /\ Links(doc) \in SUBSET Source
    BY <1>1, DocumentFacts
  <1>3. mongo' = [mongo EXCEPT ![t] = new]
    BY <1>1 DEF Store
  <1> HIDE DEF new
  <1>4. mongo' \in [Target -> Documents] /\ mongo'[t] = new /\ \A u \in Target \ {t} : mongo'[u] = mongo[u]
    BY <1>2, <1>3
  <1>5. Bytes(Links(new)) < Ceiling
    <2>1. CASE S \subseteq Links(doc)
      <3>1. Links(new) = Links(doc)
        BY <1>2, <2>1
      <3> QED
        BY <1>1, <3>1 DEF BelowCeiling
    <2>2. CASE ~(S \subseteq Links(doc))
      <3>1. ~(Bytes(Links(doc) \cup S) >= Ceiling)
        BY <2>2 DEF TooLarge
      <3>2. Bytes(Links(doc) \cup S) \in Nat /\ Ceiling \in Nat
        <4>1. Links(doc) \cup S \in SUBSET Source
          BY <1>2
        <4> QED
          BY <4>1, BytesIsNat, LimitsAssumption
      <3> QED
        BY <1>2, <3>1, <3>2
    <2> QED
      BY <2>1, <2>2
  <1>6. BelowCeiling'
    BY <1>4, <1>5 DEF BelowCeiling
  <1> QED
    BY <1>1, <1>2, <1>4, <1>6

\* What the invariants of the documents need of a step.
Grows ==
    /\ mongo' \in [Target -> Documents] /\ BelowCeiling'
    /\ \A u \in Target : Links(mongo[u]) \subseteq Links(mongo'[u])

\* A step that leaves the documents alone.
LEMMA SameGrows ==
    ASSUME TypeOK, DocsInv, mongo' = mongo
    PROVE  Grows
  BY DEF TypeOK, DocsInv, BelowCeiling, Grows

\* What the processor writes.
LEMMA WriteGrows ==
    ASSUME TypeOK, Book, DocsInv, WriteTarget
    PROVE  /\ Grows
           /\ step'.pc = "ack" =>
                ToSet(step.batch) \subseteq Links(mongo'[step.target])
           /\ \/ step' = [step EXCEPT !.pc = "ack"] /\ state' = state
              \/ GivenUp
           /\ rec' = rec /\ sets' = sets
  <1> DEFINE t == step.target
             S == ToSet(step.batch)
  <1>1. step.pc = "write" /\ Visiting
    BY DEF WriteTarget, Visiting
  <1>8. \/ /\ Matches(step.target, step.doc)
           /\ Store(step.target, mongo[step.target], ToSet(step.batch))
           /\ step' = [step EXCEPT !.pc = "ack"] /\ state' = state
        \/ GivenUp /\ mongo' = mongo
        \/ /\ GivenUp /\ Matches(step.target, step.doc)
           /\ Store(step.target, mongo[step.target], ToSet(step.batch))
    BY Zenon DEF WriteTarget, GivenUp
  <1>2. t \in Target /\ S \in SUBSET Source /\ mongo \in [Target -> Documents]
    <2>1. step.batch \in Seq(Source)
      BY StepFields DEF Book
    <2>2. S \in SUBSET Source
      BY <2>1 DEF ToSet
    <2> QED
      BY <1>1, <2>2, BookVisiting DEF TypeOK
  <1>3. ~TooLarge(step.doc, S) /\ BelowCeiling
    BY <1>1 DEF DocsInv
  <1> HIDE DEF S, t
  <1>4. ASSUME Matches(t, step.doc), Store(t, mongo[t], S)
        PROVE  Grows /\ S \subseteq Links(mongo'[t])
    BY <1>2, <1>3, <1>4, StoreIsChecked DEF Grows
  <1>5. ASSUME mongo' = mongo
        PROVE  Grows
    BY <1>5, SameGrows
  <1>6. CASE /\ Matches(t, step.doc) /\ Store(t, mongo[t], S)
             /\ step' = [step EXCEPT !.pc = "ack"] /\ state' = state
    BY <1>4, <1>6 DEF WriteTarget, t, S
  <1>7. CASE GivenUp /\ (mongo' = mongo \/ (Matches(t, step.doc) /\ Store(t, mongo[t], S)))
    <2>1. step'.pc # "ack"
      <3>1. Batching
        BY <1>1 DEF Batching
      <3> QED
        BY <1>7, <3>1, GivenUpEnds DEF Paused
    <2> QED
      BY <1>4, <1>5, <1>7, <2>1 DEF WriteTarget
  <1>9. \/ /\ Matches(t, step.doc) /\ Store(t, mongo[t], S)
           /\ step' = [step EXCEPT !.pc = "ack"] /\ state' = state
        \/ GivenUp /\ (mongo' = mongo \/ (Matches(t, step.doc) /\ Store(t, mongo[t], S)))
    BY <1>8, Zenon DEF t, S
  <1> QED
    BY <1>6, <1>7, <1>9, Zenon

\* The record of reconcile.py.
LEMMA RecFields ==
    ASSUME rec \in Rec
    PROVE  /\ rec.todo \in SUBSET (Target \X Source) /\ rec.doc \in Documents
           /\ rec.missing \in Nat /\ rec.added \in Nat
           /\ rec.edge # <<>> => rec.edge \in Target \X Source
  BY DEF Rec

\* The edges of the outlinks are finitely many pairs of a target and a source.
LEMMA Outlinks ==
    ASSUME workload \in Workloads
    PROVE  workload.outlinks \subseteq Target \X Source /\ IsFiniteSet(workload.outlinks)
  <1>1. workload.outlinks \in SUBSET (Target \X Source)
    BY LimitsAssumption
  <1>2. IsFiniteSet(Target \X Source)
    BY Sizes, FS_Product
  <1> QED
    BY <1>1, <1>2, FS_Subset

\* What reconcile.py writes.
LEMMA AddGrows ==
    ASSUME TypeOK, DocsInv, AddEdge
    PROVE  Grows
  <1> DEFINE t == rec.edge[1]
             S == {rec.edge[2]}
  <1>1. rec.pc = "add" /\ rec \in Rec
    BY DEF AddEdge, TypeOK
  <1>2. rec.edge \in Target \X Source /\ ~TooLarge(rec.doc, S) /\ BelowCeiling
    BY <1>1, RecFields DEF DocsInv
  <1>3. t \in Target /\ S \in SUBSET Source /\ mongo \in [Target -> Documents]
    BY <1>2 DEF TypeOK
  <1> HIDE DEF t, S
  <1>4. ASSUME Matches(t, rec.doc), Store(t, mongo[t], S)
        PROVE  Grows
    BY <1>2, <1>3, <1>4, StoreIsChecked DEF Grows
  <1> QED
    BY <1>4, SameGrows DEF AddEdge, t, S

-----------------------------------------------------------------------------
(* The steps that read, write and acknowledge a batch.                     *)

\* What is read is checked before it is written.
LEMMA FindBook ==
    ASSUME TypeOK, Book, FindTarget
    PROVE  /\ Book' /\ step'.pc # "ack"
           /\ step'.pc = "write" => ~TooLarge(step'.doc, ToSet(step'.batch))
  <1>1. Batching /\ Visiting
    BY DEF FindTarget, Batching, Visiting
  <1> DEFINE doc == mongo[step.target]
  <1>2. doc \in Documents
    BY <1>1, BookVisiting DEF TypeOK
  <1>3. \/ Settle(state)
        \/ /\ ~TooLarge(doc, ToSet(step.batch))
           /\ step' = [step EXCEPT !.pc = "write", !.doc = doc] /\ state' = state
        \/ RetryLater
    BY Zenon DEF FindTarget, Rejected
  <1>4. CASE Settle(state)
    BY <1>1, <1>4, DoneEnds, PausedKeeps DEF Paused
  <1>5. CASE RetryLater
    BY <1>1, <1>5, RetryEnds, PausedKeeps DEF Paused
  <1>6. CASE /\ ~TooLarge(doc, ToSet(step.batch))
             /\ step' = [step EXCEPT !.pc = "write", !.doc = doc] /\ state' = state
    <2>1. Book'
      <3> HIDE DEF doc
      <3> QED
        BY <1>1, <1>2, <1>6, SameBook
    <2>2. step'.pc = "write" /\ step'.doc = doc /\ step'.batch = step.batch
      BY <1>6 DEF Book, Step
    <2> QED
      BY <1>6, <2>1, <2>2
  <1> QED
    BY <1>3, <1>4, <1>5, <1>6

\* What is written is either acknowledged next or pending again.
LEMMA WriteBook ==
    ASSUME TypeOK, Book, DocsInv, WriteTarget
    PROVE  Book' /\ step'.pc # "write"
  <1>1. Batching
    BY DEF WriteTarget, Batching
  <1>2. CASE GivenUp
    BY <1>1, <1>2, GivenUpEnds, PausedKeeps DEF Paused
  <1>3. CASE step' = [step EXCEPT !.pc = "ack"] /\ state' = state
    <2> DEFINE doc == step.doc
    <2>1. doc \in Documents /\ step \in Step
      BY StepFields DEF Book
    <2>2. step' = [step EXCEPT !.pc = "ack", !.doc = doc] /\ step'.pc = "ack"
      BY <1>3, <2>1 DEF Step
    <2> HIDE DEF doc
    <2> QED
      BY <1>1, <1>3, <2>1, <2>2, SameBook
  <1> QED
    BY <1>2, <1>3, WriteGrows

\* The end of a batch, and what it takes from Redis.
LEMMA AckBook ==
    ASSUME TypeOK, Book, AckInv, AckMembers
    PROVE  /\ Book' /\ step'.pc \notin {"write", "ack"}
           /\ sets' \in [Target -> SUBSET Source]
           /\ \A u \in Target : sets[u] \ sets'[u] \subseteq Links(mongo[u])
  <1>1. Batching /\ step.pc = "ack" /\ Visiting
    BY DEF AckMembers, Batching, Visiting
  <1> DEFINE t == step.target
             S == ToSet(step.batch)
  <1>2. t \in Target /\ S \subseteq Links(mongo[t])
    BY <1>1, BookVisiting DEF AckInv
  <1>3. \/ Settle(state)
        \/ RetryLater
    BY Zenon DEF AckMembers
  <1>4. sets' = sets \/ sets' = [sets EXCEPT ![t] = @ \ S]
    BY Zenon DEF AckMembers, RemoveMembers, t, S
  <1>5. Book' /\ step'.pc \notin {"write", "ack"}
    BY <1>1, <1>3, DoneEnds, RetryEnds, PausedKeeps DEF Paused
  <1> HIDE DEF t, S
  <1>6. sets \in [Target -> SUBSET Source]
    BY DEF TypeOK
  <1>7. CASE sets' = sets
    BY <1>5, <1>6, <1>7
  <1>8. CASE sets' = [sets EXCEPT ![t] = @ \ S]
    <2>1. /\ sets'[t] = sets[t] \ S
          /\ \A u \in Target \ {t} : sets'[u] = sets[u]
          /\ sets' \in [Target -> SUBSET Source]
      BY <1>2, <1>6, <1>8
    <2>2. \A u \in Target : sets[u] \ sets'[u] \subseteq Links(mongo[u])
      BY <1>2, <2>1
    <2> QED
      BY <1>5, <2>1, <2>2
  <1> QED
    BY <1>4, <1>7, <1>8

\* A new process.
LEMMA RestartBook ==
    ASSUME Restart
    PROVE  Book' /\ step'.pc = "idle"
  <1>1. state' = NewState /\ step' = Idle
    BY DEF Restart
  <1>2. Idle.pc = "idle"
    BY DEF Idle
  <1> QED
    BY <1>1, <1>2, NewProcess, PausedKeeps

\* The steps of others.
LEMMA OtherBook ==
    ASSUME Book, state' = state, step' = step
    PROVE  Book'
  BY DEF Book, KeysInv, QueuedOnce, Visiting, BytesInv, BufferBounded, BytesCounted, Batching

-----------------------------------------------------------------------------
(* What every step keeps.                                                  *)

\* What the processor's own steps do to the rest.
Served ==
    /\ Book' /\ Grows
    /\ step'.pc = "write" => ~TooLarge(step'.doc, ToSet(step'.batch))
    /\ step'.pc = "ack" => ToSet(step'.batch) \subseteq Links(mongo'[step'.target])
    /\ sets' \in [Target -> SUBSET Source]
    /\ \A u \in Target : sets[u] \ sets'[u] \subseteq Links(mongo[u])

\* A step of the processor that touches neither Redis nor MongoDB.
LEMMA ServedInMemory ==
    ASSUME TypeOK, DocsInv, Book', step'.pc \notin {"write", "ack"},
           mongo' = mongo, sets' = sets
    PROVE  Served
  <1>1. Grows
    BY SameGrows
  <1>2. sets' \in [Target -> SUBSET Source] /\ \A u \in Target : sets[u] \ sets'[u] = {}
    BY DEF TypeOK
  <1> QED
    BY <1>1, <1>2 DEF Served

\* Every step of process_cycle.
LEMMA CycleServes ==
    ASSUME Inv, ProcessCycle
    PROVE  Served
  <1>1. TypeOK /\ Book /\ DocsInv /\ AckInv
    BY DEF Inv, Book, TypeOK
  <1>2. CASE BeginCycle \/ EndCycle
    <2>1. Paused(state', step')
      BY <1>1, <1>2, CycleBook
    <2>2. Book' /\ step'.pc \notin {"write", "ack"}
      BY <2>1, PausedKeeps DEF Paused
    <2> QED
      BY <1>1, <1>2, <2>2, ServedInMemory DEF BeginCycle, EndCycle
  <1>3. CASE FillPendingKeys
    <2>1. Paused(state', step')
      BY <1>1, <1>3, FillBook
    <2>2. Book' /\ step'.pc \notin {"write", "ack"}
      BY <2>1, PausedKeeps DEF Paused
    <2>3. mongo' = mongo /\ sets' = sets
      BY <1>3 DEF FillPendingKeys
    <2> QED
      BY <1>1, <2>2, <2>3, ServedInMemory
  <1>4. CASE RejectTarget \/ WaitForRoom
    <2>1. Paused(state', step')
      BY <1>1, <1>4, PassBook
    <2>2. Book' /\ step'.pc \notin {"write", "ack"}
      BY <2>1, PausedKeeps DEF Paused
    <2> QED
      BY <1>1, <1>4, <2>2, ServedInMemory DEF RejectTarget, WaitForRoom
  <1>5. CASE VisitTarget
    <2>1. Book' /\ step'.pc \notin {"write", "ack"}
      BY <1>1, <1>5, VisitBook
    <2> QED
      BY <1>1, <1>5, <2>1, ServedInMemory DEF VisitTarget
  <1>6. CASE ScanMembers
    <2>1. Book' /\ step'.pc \notin {"write", "ack"}
      BY <1>1, <1>6, ScanBook
    <2> QED
      BY <1>1, <1>6, <2>1, ServedInMemory DEF ScanMembers
  <1>7. CASE FindTarget
    <2>1. mongo' = mongo /\ sets' = sets
      BY <1>7 DEF FindTarget
    <2>2. Grows
      BY <1>1, <2>1, SameGrows
    <2>3. sets' \in [Target -> SUBSET Source] /\ \A u \in Target : sets[u] \ sets'[u] = {}
      BY <1>1, <2>1 DEF TypeOK
    <2> QED
      BY <1>1, <1>7, <2>2, <2>3, FindBook DEF Served
  <1>8. CASE WriteTarget
    <2>1. Book' /\ step'.pc # "write"
      BY <1>1, <1>8, WriteBook
    <2>2. /\ Grows /\ sets' = sets
          /\ step'.pc = "ack" => ToSet(step.batch) \subseteq Links(mongo'[step.target])
      BY <1>1, <1>8, WriteGrows
    <2>3. step'.pc = "ack" => step'.batch = step.batch /\ step'.target = step.target
      <3>1. CASE step' = [step EXCEPT !.pc = "ack"]
        BY <1>1, <3>1 DEF Book, Step
      <3>2. CASE GivenUp
        <4>1. Batching
          BY <1>8 DEF WriteTarget, Batching
        <4> QED
          BY <1>1, <3>2, <4>1, GivenUpEnds DEF Paused
      <3> QED
        BY <1>1, <1>8, <3>1, <3>2, WriteGrows
    <2>4. sets' \in [Target -> SUBSET Source] /\ \A u \in Target : sets[u] \ sets'[u] = {}
      BY <1>1, <2>2 DEF TypeOK
    <2> QED
      BY <2>1, <2>2, <2>3, <2>4 DEF Served
  <1>9. CASE AckMembers
    <2>1. mongo' = mongo
      BY <1>9 DEF AckMembers
    <2>2. Grows
      BY <1>1, <2>1, SameGrows
    <2> QED
      BY <1>1, <1>9, <2>2, AckBook DEF Served
  <1> QED
    BY <1>2, <1>3, <1>4, <1>5, <1>6, <1>7, <1>8, <1>9 DEF ProcessCycle

\* Every step of anybody.
LEMMA StepServes ==
    ASSUME Inv, [Next]_vars
    PROVE  Served
  <1>1. TypeOK /\ Book /\ DocsInv /\ AckInv
    BY DEF Inv, Book, TypeOK
  <1>2. ASSUME UNCHANGED <<state, step>>, Grows, sets' \in [Target -> SUBSET Source],
               \A u \in Target : sets[u] \subseteq sets'[u]
        PROVE  Served
    <2>1. Book'
      BY <1>1, <1>2, OtherBook
    <2>2. step'.pc = "write" => ~TooLarge(step'.doc, ToSet(step'.batch))
      BY <1>1, <1>2 DEF DocsInv
    <2>3. step'.pc = "ack" => ToSet(step'.batch) \subseteq Links(mongo'[step'.target])
      <3> SUFFICES ASSUME step.pc = "ack"
                   PROVE  ToSet(step.batch) \subseteq Links(mongo'[step.target])
        BY <1>2
      <3>1. step.target \in Target
        <4>1. Visiting
          BY DEF Visiting
        <4> QED
          BY <1>1, <4>1, BookVisiting
      <3>2. Links(mongo[step.target]) \subseteq Links(mongo'[step.target])
        BY <1>2, <3>1 DEF Grows
      <3> QED
        BY <1>1, <3>2 DEF AckInv
    <2>4. \A u \in Target : sets[u] \ sets'[u] = {}
      BY <1>2
    <2> QED
      BY <1>2, <2>1, <2>2, <2>3, <2>4 DEF Served
  <1>3. CASE ProcessCycle
    BY <1>3, CycleServes
  <1>4. CASE Restart
    <2>1. Book' /\ step'.pc \notin {"write", "ack"}
      BY <1>4, RestartBook
    <2>2. mongo' = mongo /\ sets' = sets
      BY <1>4 DEF Restart
    <2> QED
      BY <1>1, <2>1, <2>2, ServedInMemory
  <1>5. ASSUME NEW t \in Target, NEW m \in Source, Produce(t, m)
        PROVE  Served
    <2>1. /\ UNCHANGED <<state, step>> /\ mongo' = mongo
          /\ sets' = [sets EXCEPT ![t] = @ \cup {m}]
      BY <1>5 DEF Produce
    <2>2. Grows
      BY <1>1, <2>1, SameGrows
    <2>3. sets' \in [Target -> SUBSET Source] /\ \A u \in Target : sets[u] \subseteq sets'[u]
      BY <1>1, <2>1 DEF TypeOK
    <2> QED
      BY <1>2, <2>1, <2>2, <2>3
  <1>6. CASE Reconcile
    <2>1. UNCHANGED <<state, step, sets>>
      BY <1>6 DEF Reconcile, StartReconcile, CountMissing, ApplyEdge, AddEdge
    <2>2. Grows
      <3>1. CASE AddEdge
        BY <1>1, <3>1, AddGrows
      <3>2. CASE StartReconcile \/ CountMissing \/ ApplyEdge
        <4>1. mongo' = mongo
          BY <3>2 DEF StartReconcile, CountMissing, ApplyEdge
        <4> QED
          BY <1>1, <4>1, SameGrows
      <3> QED
        BY <1>6, <3>1, <3>2 DEF Reconcile
    <2>3. sets' \in [Target -> SUBSET Source] /\ \A u \in Target : sets[u] \subseteq sets'[u]
      BY <1>1, <2>1 DEF TypeOK
    <2> QED
      BY <1>2, <2>1, <2>2, <2>3
  <1>7. CASE UNCHANGED vars
    <2>1. UNCHANGED <<state, step, sets, mongo>>
      BY <1>7 DEF vars
    <2>2. Grows
      BY <1>1, <2>1, SameGrows
    <2>3. sets' \in [Target -> SUBSET Source] /\ \A u \in Target : sets[u] \subseteq sets'[u]
      BY <1>1, <2>1 DEF TypeOK
    <2> QED
      BY <1>2, <2>1, <2>2, <2>3
  <1> QED
    BY <1>3, <1>4, <1>5, <1>6, <1>7 DEF Next

-----------------------------------------------------------------------------
(* The count of the reconciliation.                                        *)

\* The edges, of those already looked at, that the documents m lack.
Lacking(edges, todo, m) == {e \in edges \ todo : e[2] \notin Links(m[e[1]])}

\* Documents that grow lack fewer edges.
LEMMA FewerLacking ==
    ASSUME workload \in Workloads, NEW todo, NEW m, NEW n,
           \A u \in Target : Links(m[u]) \subseteq Links(n[u])
    PROVE  /\ Cardinality(Lacking(workload.outlinks, todo, m)) \in Nat
           /\ Cardinality(Lacking(workload.outlinks, todo, n)) \in Nat
           /\ Cardinality(Lacking(workload.outlinks, todo, n))
                =< Cardinality(Lacking(workload.outlinks, todo, m))
  <1> DEFINE E == workload.outlinks
             M == Lacking(E, todo, m)
             N == Lacking(E, todo, n)
  <1>1. M \subseteq E /\ N \subseteq M
    <2>1. E \subseteq Target \X Source
      BY Outlinks
    <2>2. \A e \in E : e[1] \in Target
      BY <2>1
    <2> HIDE DEF E
    <2> QED
      BY <2>2 DEF Lacking
  <1>2. IsFiniteSet(M) /\ IsFiniteSet(N)
    BY <1>1, Outlinks, FS_Subset
  <1> HIDE DEF M, N
  <1>3. Cardinality(M) \in Nat /\ Cardinality(N) \in Nat /\ Cardinality(N) =< Cardinality(M)
    BY <1>1, <1>2, FS_Subset, FS_CardinalityType
  <1> QED
    BY <1>3 DEF M, N

\* One more edge that is looked at.
LEMMA OneMoreLacking ==
    ASSUME workload \in Workloads, NEW m, NEW todo \in SUBSET workload.outlinks, NEW e \in todo
    PROVE  Cardinality(Lacking(workload.outlinks, todo \ {e}, m))
             =< Cardinality(Lacking(workload.outlinks, todo, m))
                   + (IF e[2] \in Links(m[e[1]]) THEN 0 ELSE 1)
  <1> DEFINE E == workload.outlinks
             M == Lacking(E, todo, m)
             N == Lacking(E, todo \ {e}, m)
  <1>1. IsFiniteSet(M) /\ Cardinality(M) \in Nat /\ e \notin M /\ e \in E
    <2>1. M \subseteq E /\ e \notin M
      BY DEF Lacking
    <2> HIDE DEF M
    <2> QED
      BY <2>1, Outlinks, FS_Subset, FS_CardinalityType
  <1>2. CASE e[2] \in Links(m[e[1]])
    <2>1. N = M
      BY <1>2 DEF Lacking
    <2> HIDE DEF M, N
    <2>2. Cardinality(N) =< Cardinality(M) + 0
      BY <1>1, <2>1
    <2> QED
      BY <1>2, <2>2 DEF M, N
  <1>3. CASE e[2] \notin Links(m[e[1]])
    <2>1. N = M \cup {e}
      BY <1>1, <1>3 DEF Lacking
    <2> HIDE DEF M, N
    <2>2. Cardinality(N) = Cardinality(M) + 1
      BY <1>1, <2>1, FS_AddElement
    <2>3. Cardinality(N) =< Cardinality(M) + 1
      BY <1>1, <2>2
    <2> QED
      BY <1>3, <2>3 DEF M, N
  <1> QED
    BY <1>2, <1>3

\* A count that has yet to look at anything.
LEMMA NoneLacking ==
    ASSUME NEW edges, NEW m
    PROVE  Cardinality(Lacking(edges, edges, m)) = 0
  <1>1. Lacking(edges, edges, m) = {}
    BY DEF Lacking
  <1> QED
    BY <1>1, FS_EmptySet

\* Where reconcile.py is, whatever it will do next.
Reconciling(r, m) ==
    /\ r \in Rec /\ r.todo \subseteq workload.outlinks
    /\ r.pc = "reported" => r.todo = {}
    /\ r.pc = "add" => r.edge # <<>> /\ ~TooLarge(r.doc, {r.edge[2]})
    /\ r.pc \in {"after", "reported"} =>
          Cardinality(Lacking(workload.outlinks, r.todo, m)) =< r.missing

\* The invariant says so of the record and the documents of a state.
LEMMA CountIsReconciling ==
    /\ TypeOK /\ DocsInv /\ CountInv => Reconciling(rec, mongo)
    /\ workload' = workload /\ Reconciling(rec', mongo') =>
          /\ rec' \in Rec /\ CountInv'
          /\ rec'.pc = "add" => rec'.edge # <<>> /\ ~TooLarge(rec'.doc, {rec'.edge[2]})
  BY DEF TypeOK, DocsInv, CountInv, Reconciling, Lacking, HasBacklink

\* The records that a run begins and ends with.
LEMMA RecordsMade ==
    ASSUME workload \in Workloads
    PROVE  /\ \A m : Reconciling(NotRunning, m)
           /\ \A m : Reconciling([Count(NotRunning) EXCEPT !.pc = "before"], m)
           /\ \A m : \A r \in Rec : Reconciling([Count(r) EXCEPT !.pc = "after"], m)
           /\ \A m : \A r \in Rec : r.todo \subseteq workload.outlinks =>
                 Reconciling(AfterEdge(r), m)
  <1>1. workload.outlinks \in SUBSET (Target \X Source)
    BY Outlinks
  <1>2. NotRunning \in Rec
    BY DocumentFacts DEF NotRunning, Rec
  <1>3. \A m : Reconciling(NotRunning, m)
    BY <1>2 DEF NotRunning, Reconciling
  <1>4. \A m : Reconciling([Count(NotRunning) EXCEPT !.pc = "before"], m)
    <2> DEFINE r == [Count(NotRunning) EXCEPT !.pc = "before"]
    <2>1. r \in Rec /\ r.pc = "before" /\ r.todo = workload.outlinks
      BY <1>1, <1>2 DEF Count, Rec
    <2> HIDE DEF r
    <2>2. \A m : Reconciling(r, m)
      BY <2>1 DEF Reconciling
    <2> QED
      BY <2>2 DEF r
  <1>5. ASSUME NEW m, NEW r \in Rec
        PROVE  Reconciling([Count(r) EXCEPT !.pc = "after"], m)
    <2> DEFINE new == [Count(r) EXCEPT !.pc = "after"]
    <2>1. new \in Rec /\ new.pc = "after" /\ new.todo = workload.outlinks /\ new.missing = 0
      BY <1>1 DEF Count, Rec
    <2> HIDE DEF new
    <2>2. Cardinality(Lacking(workload.outlinks, new.todo, m)) =< new.missing
      BY <2>1, NoneLacking
    <2>3. Reconciling(new, m)
      BY <2>1, <2>2 DEF Reconciling
    <2> QED
      BY <2>3 DEF new
  <1>6. ASSUME NEW m, NEW r \in Rec, r.todo \subseteq workload.outlinks
        PROVE  Reconciling(AfterEdge(r), m)
    <2>1. CASE r.todo = {}
      BY <1>5, <2>1 DEF AfterEdge
    <2>2. CASE r.todo # {}
      <3> DEFINE new == [r EXCEPT !.pc = "apply"]
      <3>1. new \in Rec /\ new.pc = "apply" /\ new.todo = r.todo
        BY DEF Rec
      <3>2. AfterEdge(r) = new
        BY <2>2 DEF AfterEdge
      <3> HIDE DEF new
      <3> QED
        BY <1>6, <3>1, <3>2 DEF Reconciling
    <2> QED
      BY <2>1, <2>2
  <1> QED
    BY <1>3, <1>4, <1>5, <1>6

\* One edge counted, and what follows the last one.
LEMMA CountReconciles ==
    ASSUME TypeOK, DocsInv, CountInv, CountMissing
    PROVE  Reconciling(rec', mongo)
  <1>1. PICK e \in rec.todo :
          LET r == [rec EXCEPT !.todo = @ \ {e},
                               !.missing = IF HasBacklink(e) THEN @ ELSE @ + 1]
          IN  rec' = CASE r.todo # {}                      -> r
                       [] r.todo = {} /\ r.pc = "after"    -> [r EXCEPT !.pc = "reported"]
                       [] r.todo = {} /\ r.missing = 0     -> [Count(r) EXCEPT !.pc = "after"]
                       [] OTHER -> [r EXCEPT !.pc = "apply", !.todo = workload.outlinks]
    BY Zenon DEF CountMissing
  <1> DEFINE r == [rec EXCEPT !.todo = @ \ {e},
                              !.missing = IF HasBacklink(e) THEN @ ELSE @ + 1]
  <1>2. rec.pc \in {"before", "after"} /\ rec \in Rec /\ rec.missing \in Nat
        /\ rec.todo \in SUBSET (Target \X Source) /\ rec.todo \subseteq workload.outlinks
        /\ workload \in Workloads
    BY RecFields DEF CountMissing, TypeOK, CountInv
  <1> DEFINE k == IF e[2] \in Links(mongo[e[1]]) THEN 0 ELSE 1
  <1>3. /\ r \in Rec /\ r.pc = rec.pc /\ r.todo = rec.todo \ {e}
        /\ r.missing = rec.missing + k
    <2> DEFINE n == IF HasBacklink(e) THEN rec.missing ELSE rec.missing + 1
               left == rec.todo \ {e}
               edges == Target \X Source
    <2>1. n \in Nat /\ n = rec.missing + k
      BY <1>2 DEF HasBacklink
    <2>2. r = [rec EXCEPT !.todo = left, !.missing = n]
      BY <1>2 DEF Rec
    <2>3. left \in SUBSET edges
      BY <1>2
    <2> HIDE DEF n, left, r, edges
    <2>4. Rec = [pc : {"off", "before", "apply", "add", "after", "reported"},
                 todo : SUBSET edges, edge : {<<>>} \cup edges,
                 doc : Documents, missing : Nat, added : Nat]
      BY DEF Rec, edges
    <2>5. /\ r \in Rec /\ r.pc = rec.pc /\ r.todo = left /\ r.missing = n
      BY <1>2, <2>1, <2>2, <2>3, <2>4
    <2> QED
      BY <2>1, <2>5 DEF left
  <1>4. \/ r.todo # {} /\ rec' = r
        \/ r.todo = {} /\ r.pc = "after" /\ rec' = [r EXCEPT !.pc = "reported"]
        \/ rec' = [Count(r) EXCEPT !.pc = "after"]
        \/ rec' = [r EXCEPT !.pc = "apply", !.todo = workload.outlinks]
    <2> HIDE DEF r
    <2>1. rec' = CASE r.todo # {}                      -> r
                   [] r.todo = {} /\ r.pc = "after"    -> [r EXCEPT !.pc = "reported"]
                   [] r.todo = {} /\ r.missing = 0     -> [Count(r) EXCEPT !.pc = "after"]
                   [] OTHER -> [r EXCEPT !.pc = "apply", !.todo = workload.outlinks]
      BY <1>1 DEF r
    <2> QED
      BY <2>1
  <1> HIDE DEF r
  <1>5. r.pc = "after" =>
            Cardinality(Lacking(workload.outlinks, r.todo, mongo)) =< r.missing
    <2> DEFINE c == Cardinality(Lacking(workload.outlinks, rec.todo, mongo))
               d == Cardinality(Lacking(workload.outlinks, rec.todo \ {e}, mongo))
    <2>1. c \in Nat /\ d \in Nat
      BY <1>2, FewerLacking
    <2>2. d =< c + k
      BY <1>2, OneMoreLacking
    <2>3. r.pc = "after" => c =< rec.missing
      BY <1>3, CountIsReconciling DEF Reconciling
    <2>4. k \in Nat
      OBVIOUS
    <2>5. d = Cardinality(Lacking(workload.outlinks, r.todo, mongo))
      BY <1>3
    <2> HIDE DEF c, d, k
    <2>6. r.pc = "after" => d =< rec.missing + k
      BY <1>2, <2>1, <2>2, <2>3, <2>4
    <2> QED
      BY <1>3, <2>5, <2>6
  <1> HIDE DEF k
  <1>6. CASE r.todo # {} /\ rec' = r
    BY <1>2, <1>3, <1>5, <1>6 DEF Reconciling
  <1>7. CASE r.todo = {} /\ r.pc = "after" /\ rec' = [r EXCEPT !.pc = "reported"]
    <2> DEFINE new == [r EXCEPT !.pc = "reported"]
    <2>1. new \in Rec /\ new.pc = "reported" /\ new.todo = r.todo /\ new.missing = r.missing
      BY <1>3 DEF Rec
    <2>2. rec' = new
      BY <1>7
    <2> HIDE DEF new
    <2> QED
      BY <1>2, <1>3, <1>5, <1>7, <2>1, <2>2 DEF Reconciling
  <1>8. CASE rec' = [Count(r) EXCEPT !.pc = "after"]
    BY <1>2, <1>3, <1>8, RecordsMade
  <1>9. CASE rec' = [r EXCEPT !.pc = "apply", !.todo = workload.outlinks]
    <2> DEFINE new == [r EXCEPT !.pc = "apply", !.todo = workload.outlinks]
    <2>1. workload.outlinks \in SUBSET (Target \X Source)
      BY <1>2, Outlinks
    <2>2. new \in Rec /\ new.pc = "apply" /\ new.todo = workload.outlinks
      BY <1>3, <2>1 DEF Rec
    <2>3. rec' = new
      BY <1>9
    <2> HIDE DEF new
    <2> QED
      BY <2>2, <2>3 DEF Reconciling
  <1> QED
    BY <1>4, <1>6, <1>7, <1>8, <1>9

\* An edge found, or read and checked.
LEMMA ApplyReconciles ==
    ASSUME TypeOK, DocsInv, CountInv, ApplyEdge
    PROVE  Reconciling(rec', mongo)
  <1>1. PICK e \in rec.todo :
          rec' = IF HasBacklink(e) THEN AfterEdge([rec EXCEPT !.todo = @ \ {e}])
                 ELSE IF TooLarge(mongo[e[1]], {e[2]}) THEN NotRunning
                 ELSE [rec EXCEPT !.pc = "add", !.edge = e, !.todo = @ \ {e},
                                  !.doc = mongo[e[1]]]
    BY Zenon DEF ApplyEdge
  <1>2. rec \in Rec /\ rec.todo \in SUBSET (Target \X Source)
        /\ rec.todo \subseteq workload.outlinks /\ workload \in Workloads
        /\ mongo \in [Target -> Documents]
    BY RecFields DEF TypeOK, CountInv
  <1>3. e \in Target \X Source /\ mongo[e[1]] \in Documents
    BY <1>2
  <1>4. CASE rec' = AfterEdge([rec EXCEPT !.todo = @ \ {e}])
    <2> DEFINE r == [rec EXCEPT !.todo = @ \ {e}]
    <2>1. r \in Rec /\ r.todo \subseteq workload.outlinks
      BY <1>2 DEF Rec
    <2>2. rec' = AfterEdge(r)
      BY <1>4
    <2> HIDE DEF r
    <2> QED
      BY <1>2, <2>1, <2>2, RecordsMade
  <1>5. CASE rec' = NotRunning
    BY <1>2, <1>5, RecordsMade
  <1>6. CASE /\ ~TooLarge(mongo[e[1]], {e[2]})
             /\ rec' = [rec EXCEPT !.pc = "add", !.edge = e, !.todo = @ \ {e},
                                   !.doc = mongo[e[1]]]
    <2> DEFINE d == mongo[e[1]]
    <2>1. d \in Documents /\ ~TooLarge(d, {e[2]})
      BY <1>3, <1>6
    <2> DEFINE new == [rec EXCEPT !.pc = "add", !.edge = e, !.todo = @ \ {e}, !.doc = d]
    <2>2. rec' = new
      BY <1>6
    <2> HIDE DEF d
    <2>3. /\ new \in Rec /\ new.pc = "add" /\ new.edge = e /\ new.doc = d
          /\ new.todo \subseteq workload.outlinks
      BY <1>2, <1>3, <2>1 DEF Rec
    <2>4. e # <<>>
      BY SMTT(60), <1>3
    <2> HIDE DEF new
    <2> QED
      BY <2>1, <2>2, <2>3, <2>4 DEF Reconciling
  <1> QED
    BY <1>1, <1>4, <1>5, <1>6

\* An edge written, or not.
LEMMA AddReconciles ==
    ASSUME TypeOK, DocsInv, CountInv, AddEdge
    PROVE  \A m : Reconciling(rec', m)
  <1>1. \/ rec' = AfterEdge([rec EXCEPT !.edge = <<>>, !.doc = NoDoc, !.added = @ + 1])
        \/ rec' = NotRunning
    BY Zenon DEF AddEdge
  <1>2. /\ rec \in Rec /\ rec.added \in Nat /\ rec.todo \subseteq workload.outlinks
        /\ workload \in Workloads
    BY RecFields DEF TypeOK, CountInv
  <1> DEFINE r == [rec EXCEPT !.edge = <<>>, !.doc = NoDoc, !.added = @ + 1]
  <1>3. r \in Rec /\ r.todo = rec.todo
    <2> DEFINE none == <<>>
               edges == {none} \cup (Target \X Source)
               added == rec.added + 1
    <2>1. none \in edges /\ NoDoc \in Documents /\ added \in Nat
      BY <1>2, DocumentFacts
    <2>2. Rec = [pc : {"off", "before", "apply", "add", "after", "reported"},
                 todo : SUBSET (Target \X Source), edge : edges,
                 doc : Documents, missing : Nat, added : Nat]
      BY DEF Rec
    <2>3. r = [rec EXCEPT !.edge = none, !.doc = NoDoc, !.added = added]
      BY <1>2 DEF Rec
    <2> HIDE DEF none, edges, added
    <2> QED
      BY <1>2, <2>1, <2>2, <2>3
  <1>4. rec' = AfterEdge(r) \/ rec' = NotRunning
    BY <1>1
  <1> HIDE DEF r
  <1> QED
    BY <1>2, <1>3, <1>4, RecordsMade

\* Documents that grow leave a count as right as it was.
LEMMA GrowthReconciles ==
    ASSUME TypeOK, Grows, Reconciling(rec, mongo)
    PROVE  Reconciling(rec, mongo')
  <1> DEFINE c == Cardinality(Lacking(workload.outlinks, rec.todo, mongo))
             d == Cardinality(Lacking(workload.outlinks, rec.todo, mongo'))
  <1>1. c \in Nat /\ d \in Nat /\ d =< c
    BY FewerLacking DEF TypeOK, Grows
  <1>2. rec.missing \in Nat
    BY RecFields DEF TypeOK
  <1>3. rec.pc \in {"after", "reported"} => c =< rec.missing
    BY DEF Reconciling
  <1>4. rec.pc \in {"after", "reported"} => d =< rec.missing
    <2> HIDE DEF c, d
    <2> QED
      BY <1>1, <1>2, <1>3
  <1> QED
    BY <1>4 DEF Reconciling

-----------------------------------------------------------------------------
(* The theorems.                                                           *)

\* What surrounds the processor is chosen once, and its bounds are counted.
LEMMA StepCounts ==
    ASSUME TypeOK, [Next]_vars
    PROVE  workload' = workload /\ produced' \in Nat /\ faults' \in Nat
  <1>1. produced \in Nat /\ faults \in Nat
    BY DEF TypeOK
  <1>2. ASSUME faults' = faults \/ Spend
        PROVE  faults' \in Nat
    BY <1>1, <1>2 DEF Spend
  <1>3. ASSUME NEW owed, NEW left, Advances(owed, left)
        PROVE  faults' = faults \/ Spend
    BY <1>3, Zenon DEF Advances
  <1>4. CASE ProcessCycle
    <2>1. workload' = workload /\ produced' = produced
      BY <1>4 DEF ProcessCycle, BeginCycle, FillPendingKeys, EndCycle, RejectTarget, WaitForRoom,
                  VisitTarget, ScanMembers, FindTarget, WriteTarget, AckMembers
    <2>2. faults' = faults \/ Spend
      <3>1. CASE FillPendingKeys
        BY <1>3, <3>1, Zenon DEF FillPendingKeys
      <3>2. CASE ScanMembers
        BY <1>3, <3>2, Zenon DEF ScanMembers
      <3>3. CASE FindTarget \/ WriteTarget \/ AckMembers
        BY <3>3, Zenon DEF FindTarget, WriteTarget, AckMembers
      <3>4. CASE BeginCycle \/ EndCycle \/ RejectTarget \/ WaitForRoom \/ VisitTarget
        BY <3>4 DEF BeginCycle, EndCycle, RejectTarget, WaitForRoom, VisitTarget
      <3> QED
        BY <1>4, <3>1, <3>2, <3>3, <3>4 DEF ProcessCycle
    <2> QED
      BY <1>1, <1>2, <2>1, <2>2
  <1>5. CASE Restart
    <2>1. workload' = workload /\ produced' = produced /\ Spend
      BY <1>5 DEF Restart
    <2> QED
      BY <1>1, <1>2, <2>1
  <1>6. ASSUME NEW t \in Target, NEW m \in Source, Produce(t, m)
        PROVE  workload' = workload /\ produced' \in Nat /\ faults' \in Nat
    BY <1>1, <1>6 DEF Produce
  <1>7. CASE Reconcile
    <2>1. workload' = workload /\ produced' = produced
      BY <1>7 DEF Reconcile, StartReconcile, CountMissing, ApplyEdge, AddEdge
    <2>2. faults' = faults \/ Spend
      <3>1. CASE AddEdge
        BY <3>1, Zenon DEF AddEdge
      <3>2. CASE StartReconcile \/ CountMissing \/ ApplyEdge
        BY <3>2 DEF StartReconcile, CountMissing, ApplyEdge
      <3> QED
        BY <1>7, <3>1, <3>2 DEF Reconcile
    <2> QED
      BY <1>1, <1>2, <2>1, <2>2
  <1>8. CASE UNCHANGED vars
    BY <1>1, <1>8 DEF vars
  <1> QED
    BY <1>4, <1>5, <1>6, <1>7, <1>8 DEF Next

\* The reconciliation keeps its count, whoever moves.
LEMMA StepReconciles ==
    ASSUME Inv, [Next]_vars, Grows
    PROVE  Reconciling(rec', mongo')
  <1>1. TypeOK /\ DocsInv /\ CountInv /\ workload \in Workloads
    BY DEF Inv, TypeOK
  <1>2. Reconciling(rec, mongo')
    BY <1>1, CountIsReconciling, GrowthReconciles
  <1>3. CASE Reconcile
    <2>1. CASE StartReconcile
      BY <1>1, <2>1, RecordsMade DEF StartReconcile
    <2>2. CASE CountMissing
      <3>1. mongo' = mongo
        BY <2>2 DEF CountMissing
      <3> QED
        BY <1>1, <2>2, <3>1, CountReconciles
    <2>3. CASE ApplyEdge
      <3>1. mongo' = mongo
        BY <2>3 DEF ApplyEdge
      <3> QED
        BY <1>1, <2>3, <3>1, ApplyReconciles
    <2>4. CASE AddEdge
      BY <1>1, <2>4, AddReconciles
    <2> QED
      BY <1>3, <2>1, <2>2, <2>3, <2>4 DEF Reconcile
  <1>4. CASE ProcessCycle
    <2>1. rec' = rec
      BY <1>4 DEF ProcessCycle, BeginCycle, FillPendingKeys, EndCycle, RejectTarget, WaitForRoom,
                  VisitTarget, ScanMembers, FindTarget, WriteTarget, AckMembers
    <2> QED
      BY <1>2, <2>1
  <1>5. CASE Restart \/ UNCHANGED vars \/ \E t \in Target, m \in Source : Produce(t, m)
    <2>1. rec' = rec
      BY <1>5 DEF Restart, vars, Produce
    <2> QED
      BY <1>2, <2>1
  <1> QED
    BY <1>3, <1>4, <1>5 DEF Next

\* Nothing is held, stored or counted when the system starts.
LEMMA InvInit == Init => Inv
  <1> SUFFICES ASSUME Init
               PROVE  Inv
    OBVIOUS
  <1>1. /\ workload \in Workloads /\ state = NewState /\ step = Idle /\ rec = NotRunning
        /\ sets = [t \in Target |-> {}] /\ mongo = [t \in Target |-> NoDoc]
        /\ produced = 0 /\ faults = 0
    BY DEF Init
  <1>2. NotRunning \in Rec /\ Idle.pc = "idle" /\ NotRunning.pc = "off" /\ NotRunning.todo = {}
    <2>1. \A m : Reconciling(NotRunning, m)
      BY <1>1, RecordsMade
    <2> QED
      BY <2>1 DEF Reconciling, Idle, NotRunning
  <1>3. NewState \in State /\ Idle \in Step /\ KeysInv /\ BytesInv
    <2>1. Paused(state, step)
      BY <1>1, NewProcess
    <2>2. step.pc = "idle" /\ step.batch = <<>> /\ SeqBytes(<<>>) = 0
      <3>1. \A s \in Seq(Source) : s = <<>> => SeqBytes(s) = 0
        BY SeqBytesBasics
      <3>2. <<>> \in Seq(Source)
        OBVIOUS
      <3> QED
        BY <1>1, <1>2, <2>1, <3>1, <3>2 DEF Paused
    <2>3. KeysInv
      BY <2>1, <2>2 DEF Paused, KeysInv, QueuedOnce, Visiting
    <2>4. BytesInv
      <3>1. Buffered(state) = 0 /\ PendingBytes \in Nat
        BY <1>1, NewProcess, BufferedNothing, Sizes
      <3> QED
        BY <2>2, <3>1 DEF BytesInv, BufferBounded, BytesCounted, Batching
    <2> QED
      BY <1>1, <2>1, <2>3, <2>4 DEF Paused
  <1>4. TypeOK
    <2>1. sets \in [Target -> SUBSET Source] /\ mongo \in [Target -> Documents]
      BY <1>1, DocumentFacts
    <2> QED
      BY <1>1, <1>2, <1>3, <2>1 DEF TypeOK
  <1>5. DocsInv
    <2>1. Bytes({}) = 0 /\ Ceiling \in Nat \ {0}
      <3>1. Bytes({}) = Sum(Size, {})
        BY DEF Bytes, Sum
      <3> QED
        BY <3>1, SumBasics, FS_EmptySet, LimitsAssumption
    <2>2. BelowCeiling
      BY <1>1, <2>1, DocumentFacts DEF BelowCeiling
    <2> QED
      BY <1>1, <1>2, <2>2 DEF DocsInv
  <1>6. AckInv /\ CountInv
    BY <1>1, <1>2 DEF AckInv, CountInv
  <1> QED
    BY <1>3, <1>4, <1>5, <1>6 DEF Inv

\* Every step keeps the inductive invariant.
LEMMA InvNext == Inv /\ [Next]_vars => Inv'
  <1> SUFFICES ASSUME Inv, [Next]_vars
               PROVE  Inv'
    OBVIOUS
  <1>1. Served
    BY StepServes
  <1>2. workload' = workload /\ produced' \in Nat /\ faults' \in Nat
    BY StepCounts DEF Inv
  <1>3. /\ rec' \in Rec /\ CountInv'
        /\ rec'.pc = "add" => rec'.edge # <<>> /\ ~TooLarge(rec'.doc, {rec'.edge[2]})
    BY <1>1, <1>2, StepReconciles, CountIsReconciling DEF Served
  <1>4. Book' /\ Grows
    BY <1>1 DEF Served
  <1>5. TypeOK'
    BY <1>1, <1>2, <1>3, <1>4 DEF Inv, TypeOK, Served, Grows, Book
  <1>6. DocsInv'
    BY <1>1, <1>3, <1>4 DEF DocsInv, Served, Grows
  <1>7. AckInv'
    BY <1>1 DEF AckInv, Served
  <1> QED
    BY <1>3, <1>4, <1>5, <1>6, <1>7 DEF Inv, Book

\* The inductive invariant of the processor and the reconciliation.
THEOREM Invariant == Spec => []Inv
  BY InvInit, InvNext, PTL DEF Spec

\* process_cycle never holds more bytes than its budget, its own count of them
\* is right whenever it decides, and every target with members in memory is
\* queued once or being visited.
THEOREM BufferIsSound == Spec => []BufferSound
  <1>1. Inv => BufferSound
    BY DEF Inv, BufferSound, KeysInv, BytesInv
  <1> QED
    BY <1>1, Invariant, PTL

\* add_backlinks and reconcile.py decide on a copy of the document and write
\* only if it is still the document: no document passes the ceiling, and no edge
\* that a report of reconcile.py did not count is missing.
THEOREM CopiesAreChecked == Spec => []ChecksHold
  <1>1. Inv => ChecksHold
    <2> SUFFICES ASSUME Inv, rec.pc = "reported"
                 PROVE  Cardinality({e \in workload.outlinks : ~HasBacklink(e)}) <= rec.missing
      BY DEF Inv, DocsInv, ChecksHold, ReportSound
    <2>1. rec.todo = {}
      BY DEF Inv, CountInv
    <2>2. workload.outlinks \ rec.todo = workload.outlinks
      BY <2>1
    <2> QED
      BY <2>2 DEF Inv, CountInv
  <1> QED
    BY <1>1, Invariant, PTL

\* SREM takes from a Redis set only members whose edge MongoDB has, whatever
\* failed, was retried or restarted before it.
THEOREM EdgesAreKept == Spec => NoEdgeLost
  <1>1. Inv /\ [Next]_vars =>
            [\A t \in Target : sets[t] \ sets'[t] \subseteq Links(mongo[t])]_vars
    BY StepServes DEF Served
  <1> QED
    BY <1>1, Invariant, PTL DEF Spec, NoEdgeLost
=============================================================================
