------------------------- MODULE SeedCatalogProofs -------------------------
(***************************************************************************)
(* Proofs about the seed catalog, its importers and its rebuild.           *)
(*                                                                         *)
(* First the algebra of the merge: what the pipeline of the server leaves  *)
(* of two valid documents is what merge_seed_documents makes of them.      *)
(* Then the batches of an import: they write each of its documents.  Then  *)
(* the invariant: what a preflight has read stays true until a validator   *)
(* is set, and what an import has written stays, or becomes newer.         *)
(***************************************************************************)
EXTENDS SeedCatalog, FiniteSetTheorems, SequenceTheorems, WellFoundedInduction, TLAPS

-----------------------------------------------------------------------------
(* Sets in an order, as sequences. *)

\* R puts the members of S in one line.
InLine(S, R) ==
    /\ \A u \in S : <<u, u>> \notin R
    /\ \A u, v, w \in S : <<u, v>> \in R /\ <<v, w>> \in R => <<u, w>> \in R
    /\ \A u, v \in S : u # v => <<u, v>> \in R \/ <<v, u>> \in R

\* How many members of S come before u.
Ahead(S, R, u) == {v \in S : <<v, u>> \in R}

\* The members of a finite set in a line have places from 0 on, one each.
LEMMA Places ==
    ASSUME NEW S, IsFiniteSet(S), NEW R, InLine(S, R)
    PROVE  /\ Cardinality(S) \in Nat
           /\ \A u \in S : Cardinality(Ahead(S, R, u)) \in 0..(Cardinality(S) - 1)
           /\ \A u, v \in S : Cardinality(Ahead(S, R, u)) = Cardinality(Ahead(S, R, v)) => u = v
           /\ \A k \in 0..(Cardinality(S) - 1) : \E u \in S : Cardinality(Ahead(S, R, u)) = k
<1> DEFINE n == Cardinality(S)
           c(u) == Cardinality(Ahead(S, R, u))
<1>1. n \in Nat
  BY FS_CardinalityType
<1>2. \A u \in S : /\ Ahead(S, R, u) \in SUBSET S /\ Ahead(S, R, u) # S
                   /\ IsFiniteSet(Ahead(S, R, u))
  <2>1. \A u \in S : Ahead(S, R, u) \in SUBSET S /\ u \notin Ahead(S, R, u)
    BY DEF Ahead, InLine
  <2> QED
    BY <2>1, FS_Subset
<1>3. \A T \in SUBSET S : Cardinality(T) \in Nat /\ Cardinality(T) <= n
                          /\ (T # S => Cardinality(T) < n)
  <2> SUFFICES ASSUME NEW T \in SUBSET S
               PROVE  Cardinality(T) \in Nat /\ Cardinality(T) <= n
                      /\ (T # S => Cardinality(T) < n)
    OBVIOUS
  <2>1. /\ IsFiniteSet(T) /\ Cardinality(T) <= n /\ (n = Cardinality(T) => S = T)
    BY FS_Subset
  <2>2. Cardinality(T) \in Nat
    BY <2>1, FS_CardinalityType
  <2> QED
    BY <1>1, <2>1, <2>2
<1>4. \A u \in S : c(u) \in 0..(n - 1)
  <2> SUFFICES ASSUME NEW u \in S
               PROVE  c(u) \in 0..(n - 1)
    OBVIOUS
  <2>1. c(u) \in Nat /\ c(u) < n
    BY <1>2, <1>3
  <2> HIDE DEF c, n
  <2> QED
    BY <1>1, <2>1
<1>5. ASSUME NEW u \in S, NEW v \in S, <<u, v>> \in R
      PROVE  c(u) # c(v)
  <2> DEFINE A == Ahead(S, R, u)
             B == Ahead(S, R, v)
  <2>1. A \in SUBSET B /\ u \in B /\ u \notin A
    BY <1>5 DEF Ahead, InLine
  <2>2. IsFiniteSet(B)
    BY <1>2
  <2> HIDE DEF A, B
  <2>3. Cardinality(B) = Cardinality(A) => B = A
    BY <2>1, <2>2, FS_Subset
  <2> QED
    BY <2>1, <2>3 DEF A, B
<1>6. \A u, v \in S : c(u) = c(v) => u = v
  BY <1>5 DEF InLine
<1>7. \A k \in 0..(n - 1) : \E u \in S : c(u) = k
  <2> DEFINE T == 0..(n - 1)
             f == [u \in S |-> c(u)]
  <2>1. f \in Injection(S, T)
    <3>1. f \in [S -> T]
      BY <1>4
    <3>2. \A u, v \in S : f[u] = f[v] => u = v
      BY <1>6
    <3> HIDE DEF f, T
    <3> QED
      BY <3>1, <3>2 DEF Injection, IsInjective
  <2>2. IsFiniteSet(T) /\ Cardinality(T) = n
    <3>1. 0 \in Int /\ n - 1 \in Int
      BY <1>1
    <3>2. IsFiniteSet(T) /\ Cardinality(T) = IF 0 > n - 1 THEN 0 ELSE (n - 1) - 0 + 1
      BY <3>1, FS_Interval
    <3> HIDE DEF n, T
    <3> QED
      BY <1>1, <3>2
  <2>3. f \in Surjection(S, T)
    <3> HIDE DEF f, T
    <3> QED
      BY <2>1, <2>2, FS_Injection
  <2>4. \A k \in T : \E u \in S : f[u] = k
    <3> HIDE DEF f, T
    <3> QED
      BY <2>3 DEF Surjection
  <2> QED
    BY <2>4
<1> QED
  BY <1>1, <1>4, <1>6, <1>7

\* Sequence q has the members of S, each once.
Lists(q, S) ==
    /\ q \in Seq(S) /\ Len(q) = Cardinality(S)
    /\ \A u \in S : \E k \in 1..Len(q) : q[k] = u
    /\ \A i, j \in 1..Len(q) : q[i] = q[j] => i = j

\* A list as a sequence.
LEMMA ListIsSeq ==
    ASSUME NEW S, NEW n \in Nat, NEW q, \A k \in 1..n : q[k] \in S
    PROVE  [k \in 1..n |-> q[k]] \in Seq(S) /\ Len([k \in 1..n |-> q[k]]) = n
OBVIOUS

\* A sequence in which each member stands at its place lists the members.
LEMMA OrderedLists ==
    ASSUME NEW S, IsFiniteSet(S), NEW R, InLine(S, R), NEW q,
           q = [k \in 1..Cardinality(S) |-> q[k]],
           \A k \in 1..Cardinality(S) : q[k] \in S /\ Cardinality(Ahead(S, R, q[k])) = k - 1
    PROVE  Lists(q, S)
<1> DEFINE n == Cardinality(S)
           c(u) == Cardinality(Ahead(S, R, u))
<1>1. /\ n \in Nat
      /\ \A u \in S : c(u) \in 0..(n - 1)
      /\ \A u, v \in S : c(u) = c(v) => u = v
  BY Places
<1>2. q = [k \in 1..n |-> q[k]]
  OBVIOUS
<1>3. \A k \in 1..n : q[k] \in S /\ c(q[k]) = k - 1
  OBVIOUS
<1> HIDE DEF n, c
<1>4. q \in Seq(S) /\ Len(q) = n
  <2>1. q = [k \in 1..n |-> q[k]] /\ \A k \in 1..n : q[k] \in S
    BY <1>2, <1>3
  <2>2. [k \in 1..n |-> q[k]] \in Seq(S) /\ Len([k \in 1..n |-> q[k]]) = n
    <3>1. \A k \in 1..n : q[k] \in S
      BY <1>3
    <3> QED
      BY <1>1, <3>1, ListIsSeq, ZenonT(120)
  <2> QED
    BY <2>1, <2>2
<1>5. \A u \in S : \E k \in 1..n : q[k] = u
  <2> SUFFICES ASSUME NEW u \in S
               PROVE  \E k \in 1..n : q[k] = u
    OBVIOUS
  <2>1. c(u) + 1 \in 1..n /\ (c(u) + 1) - 1 = c(u)
    BY <1>1
  <2>2. q[c(u) + 1] \in S /\ c(q[c(u) + 1]) = c(u)
    BY <1>3, <2>1
  <2>3. q[c(u) + 1] = u
    BY <1>1, <2>2
  <2> DEFINE x == c(u) + 1
  <2>4. x \in 1..n /\ q[x] = u
    BY <2>1, <2>3
  <2> HIDE DEF x
  <2> QED
    BY <2>4
<1>6. \A i, j \in 1..n : q[i] = q[j] => i = j
  <2> SUFFICES ASSUME NEW i \in 1..n, NEW j \in 1..n, q[i] = q[j]
               PROVE  i = j
    OBVIOUS
  <2>1. i - 1 = j - 1
    BY <1>3
  <2> QED
    BY <1>1, <2>1
<1> QED
  BY <1>4, <1>5, <1>6 DEF Lists, n
-----------------------------------------------------------------------------
(* Merging two documents. *)

Good(doc) == IsDoc(doc) /\ Valid(doc)

AsNew(s, t) == s.key = t.key /\ s.at >= t.at

\* Document c has what is in document d, or newer observations of it.
Covers(c, d) == c # NoDoc /\ \A t \in d.sources : \E s \in c.sources : AsNew(s, t)

\* The sources of old that the server keeps, and those of new that it adds.
Stay(old, new) == {s \in old.sources : \/ \A t \in new.sources : t.key # s.key
                                       \/ \E t \in new.sources : AsNew(s, t)}
Come(old, new) == {t \in new.sources : ~\E s \in old.sources : AsNew(s, t)}
Both(old, new) == Stay(old, new) \cup Come(old, new)

\* The higher and the lower of two numbers.
LEMMA MinMaxOfTwo ==
    ASSUME NEW a \in Int, NEW b \in Int
    PROVE  /\ Min({a, b}) = IF a <= b THEN a ELSE b
           /\ Max({a, b}) = IF a <= b THEN b ELSE a
<1> DEFINE c == IF a <= b THEN a ELSE b
           d == IF a <= b THEN b ELSE a
<1>1. /\ c \in {a, b} /\ \A y \in {a, b} : c <= y
      /\ d \in {a, b} /\ \A y \in {a, b} : d >= y
  OBVIOUS
<1>2. /\ \A x \in {a, b} : (\A y \in {a, b} : x <= y) => x = c
      /\ \A x \in {a, b} : (\A y \in {a, b} : x >= y) => x = d
  OBVIOUS
<1> HIDE DEF c, d
<1>3. Min({a, b}) = c
  BY <1>1, <1>2 DEF Min
<1>4. Max({a, b}) = d
  BY <1>1, <1>2 DEF Max
<1> QED
  BY <1>3, <1>4 DEF c, d

\* A document is neither the lack of one nor a refusal.
LEMMA DocIsDoc ==
    ASSUME NEW doc, IsDoc(doc)
    PROVE  doc # NoDoc /\ doc # Refused
<1>1. "sources" \in DOMAIN doc
  <2>1. DOMAIN doc = {"enabled", "sources", "priority", "categories", "discovered", "updated"}
    BY DEF IsDoc
  <2> QED
    BY <2>1
<1>2. DOMAIN NoDoc = {"none"} /\ DOMAIN Refused = {"refused"}
  BY DEF NoDoc, Refused
<1> QED
  BY <1>1, <1>2

\* The fields of a merged document.
LEMMA RolledFields ==
    ASSUME NEW old, NEW new, NEW S, IsDoc(old), IsDoc(new), \A s \in S : s.at \in Int
    PROVE  LET doc == Rolled(old, new, S)
           IN  /\ IsDoc(doc) /\ doc.enabled = old.enabled /\ doc.sources = S
               /\ doc.priority = Priority(S) /\ doc.categories = Categories(S)
               /\ doc.discovered = (IF old.discovered <= new.discovered THEN old.discovered
                                    ELSE new.discovered)
               /\ doc.updated = (IF old.updated <= new.updated THEN new.updated ELSE old.updated)
<1> DEFINE doc == Rolled(old, new, S)
           low == Min({old.discovered, new.discovered})
           high == Max({old.updated, new.updated})
<1>1. /\ old.discovered \in Int /\ new.discovered \in Int
      /\ old.updated \in Int /\ new.updated \in Int
  BY DEF IsDoc
<1>2. /\ low = IF old.discovered <= new.discovered THEN old.discovered ELSE new.discovered
      /\ high = IF old.updated <= new.updated THEN new.updated ELSE old.updated
  BY <1>1, MinMaxOfTwo
<1>3. low \in Int /\ high \in Int
  BY <1>1, <1>2
<1>4. doc = [enabled |-> old.enabled, sources |-> S, priority |-> Priority(S),
             categories |-> Categories(S), discovered |-> low, updated |-> high]
  BY DEF Rolled
<1> HIDE DEF doc, low, high
<1>5. IsDoc(doc)
  BY <1>3, <1>4 DEF IsDoc
<1>6. /\ doc.enabled = old.enabled /\ doc.sources = S
      /\ doc.priority = Priority(S) /\ doc.categories = Categories(S)
      /\ doc.discovered = low /\ doc.updated = high
  BY <1>4
<1> QED
  BY <1>2, <1>5, <1>6 DEF doc

\* The pipeline on a document that is there.
LEMMA PipelineOf ==
    ASSUME NEW old, NEW new, old # NoDoc
    PROVE  Pipeline(old, new) =
               IF ValidatorAccepts(Rolled(old, new, Both(old, new)))
               THEN Rolled(old, new, Both(old, new)) ELSE Refused
BY DEF Pipeline, Both, Stay, Come, AsNew

\* The sources that two documents make together: one per key, and none older
\* than those of either.
LEMMA BothSources ==
    ASSUME NEW old, NEW new, Good(old), Good(new)
    PROVE  /\ \A s \in Both(old, new) : s.at \in Int
           /\ \A s, t \in Both(old, new) : s.key = t.key => s = t
           /\ \A s \in old.sources : \E t \in Both(old, new) : AsNew(t, s)
           /\ \A s \in new.sources : \E t \in Both(old, new) : AsNew(t, s)
<1> DEFINE A == old.sources
           B == new.sources
           C == Both(old, new)
<1>1. /\ \A s \in A : s.at \in Int
      /\ \A s \in B : s.at \in Int
      /\ \A s, t \in A : s.key = t.key => s = t
      /\ \A s, t \in B : s.key = t.key => s = t
  BY DEF Good, IsDoc, Valid
<1>2. C = {s \in A : (\A t \in B : t.key # s.key) \/ \E t \in B : AsNew(s, t)}
          \cup {t \in B : ~\E s \in A : AsNew(s, t)}
  BY DEF Both, Stay, Come
<1> HIDE DEF A, B, C
<1>3. \A s \in C : s.at \in Int
  BY <1>1, <1>2
<1>4. \A s, t \in C : s.key = t.key => s = t
  BY <1>1, <1>2 DEF AsNew
<1>5. \A s \in A : \E t \in C : AsNew(t, s)
  <2> SUFFICES ASSUME NEW s \in A, s \notin C
               PROVE  \E t \in C : AsNew(t, s)
    BY <1>1 DEF AsNew
  <2>1. PICK t \in B : t.key = s.key
    BY <1>2
  <2>2. ~(s.at >= t.at)
    BY <1>2, <2>1 DEF AsNew
  <2>3. ~\E x \in A : AsNew(x, t)
    BY <1>1, <2>1, <2>2 DEF AsNew
  <2> QED
    BY <1>1, <1>2, <2>1, <2>2, <2>3 DEF AsNew
<1>6. \A s \in B : \E t \in C : AsNew(t, s)
  <2> SUFFICES ASSUME NEW s \in B, s \notin C
               PROVE  \E t \in C : AsNew(t, s)
    BY <1>1 DEF AsNew
  <2>1. PICK t \in A : AsNew(t, s)
    BY <1>2
  <2> QED
    BY <1>2, <2>1
<1> QED
  BY <1>3, <1>4, <1>5, <1>6 DEF A, B, C

\* A document with these sources is valid if the validator takes it.
LEMMA RolledValid ==
    ASSUME NEW old, NEW new, Good(old), Good(new),
           NEW doc, doc = Rolled(old, new, Both(old, new))
    PROVE  /\ IsDoc(doc) /\ doc.enabled = old.enabled /\ doc.sources = Both(old, new)
           /\ Valid(doc) <=> ValidatorAccepts(doc)
<1> DEFINE S == Both(old, new)
<1>1. /\ \A s \in S : s.at \in Int
      /\ \A s, t \in S : s.key = t.key => s = t
  BY BothSources
<1>2. IsDoc(old) /\ IsDoc(new) /\ old.updated >= old.discovered /\ new.updated >= new.discovered
  BY DEF Good, Valid
<1>3. /\ old.discovered \in Int /\ new.discovered \in Int
      /\ old.updated \in Int /\ new.updated \in Int
  BY <1>2 DEF IsDoc
<1> HIDE DEF S
<1>4. doc = Rolled(old, new, S)
  BY DEF S
<1>5. /\ IsDoc(doc) /\ doc.enabled = old.enabled /\ doc.sources = S
      /\ doc.priority = Priority(S) /\ doc.categories = Categories(S)
      /\ doc.discovered = (IF old.discovered <= new.discovered THEN old.discovered
                           ELSE new.discovered)
      /\ doc.updated = (IF old.updated <= new.updated THEN new.updated ELSE old.updated)
  BY <1>1, <1>2, <1>4, RolledFields
<1>6. doc.updated >= doc.discovered
  BY <1>2, <1>3, <1>5
<1>7. Valid(doc) <=> ValidatorAccepts(doc)
  BY <1>1, <1>5, <1>6 DEF Valid, ValidatorAccepts
<1> QED
  BY <1>5, <1>7 DEF S

\* The merge in the server is the merge in Python.
LEMMA MergesAgree ==
    ASSUME NEW old, NEW new, Good(old), Good(new)
    PROVE  Pipeline(old, new) = MergeDocs(old, new)
<1> DEFINE A == old.sources
           B == new.sources
           N == {s \in B : \A t \in {x \in A : x.key = s.key} : s.at > t.at}
           K == {s \in A : \A t \in N : t.key # s.key}
<1>1. /\ \A s \in A : s.at \in Int
      /\ \A s \in B : s.at \in Int
      /\ \A s, t \in A : s.key = t.key => s = t
      /\ \A s, t \in B : s.key = t.key => s = t
  BY DEF Good, IsDoc, Valid
<1>2. /\ Stay(old, new) = {s \in A : (\A t \in B : t.key # s.key) \/ \E t \in B : AsNew(s, t)}
      /\ Come(old, new) = {t \in B : ~\E s \in A : AsNew(s, t)}
  BY DEF Stay, Come
<1>3. MergeDocs(old, new) =
          IF Valid(old) /\ Valid(Rolled(old, new, N \cup K))
          THEN Rolled(old, new, N \cup K) ELSE Refused
  <2>1. old # NoDoc
    BY DocIsDoc DEF Good
  <2> QED
    BY <2>1 DEF MergeDocs
<1> HIDE DEF A, B
<1>4. N = Come(old, new)
  BY <1>1, <1>2 DEF AsNew
<1>5. \A s \in A : s \in K <=> s \in Stay(old, new)
  <2> SUFFICES ASSUME NEW s \in A
               PROVE  s \in K <=> s \in Stay(old, new)
    OBVIOUS
  <2>1. ASSUME s \in K, NEW t \in B, t.key = s.key
        PROVE  AsNew(s, t)
    <3>1. t \notin N
      BY <2>1
    <3>2. PICK x \in A : x.key = t.key /\ ~(t.at > x.at)
      BY <3>1
    <3>3. x = s
      BY <1>1, <2>1, <3>2
    <3> QED
      BY <1>1, <2>1, <3>2, <3>3 DEF AsNew
  <2>2. ASSUME s \in Stay(old, new), NEW t \in N
        PROVE  t.key # s.key
    <3> SUFFICES ASSUME t.key = s.key
                 PROVE  FALSE
      OBVIOUS
    <3>1. t \in B /\ t.at > s.at
      BY <2>2
    <3>2. PICK x \in B : AsNew(s, x)
      BY <1>2, <2>2, <3>1
    <3>3. x = t
      BY <1>1, <3>1, <3>2 DEF AsNew
    <3> QED
      BY <1>1, <3>1, <3>2, <3>3 DEF AsNew
  <2> QED
    BY <1>2, <2>1, <2>2
<1>6. K = Stay(old, new)
  BY <1>2, <1>5
<1> HIDE DEF N, K
<1>7. N \cup K = Both(old, new)
  BY <1>4, <1>6 DEF Both
<1> DEFINE doc == Rolled(old, new, Both(old, new))
<1>8. Valid(doc) <=> ValidatorAccepts(doc)
  BY RolledValid
<1>9. Pipeline(old, new) = IF ValidatorAccepts(doc) THEN doc ELSE Refused
  BY DocIsDoc, PipelineOf DEF Good
<1>10. MergeDocs(old, new) = IF Valid(doc) THEN doc ELSE Refused
  BY <1>3, <1>7 DEF Good
<1> QED
  BY <1>8, <1>9, <1>10

\* What a merge in the server leaves: a valid document with all that was there
\* and all that comes, enabled as it was.
LEMMA PipelineLeaves ==
    ASSUME NEW old, NEW new, old = NoDoc \/ Good(old), Good(new),
           NEW doc, doc = Pipeline(old, new), doc # Refused
    PROVE  /\ Good(doc) /\ Covers(doc, new)
           /\ old # NoDoc => Covers(doc, old) /\ doc.enabled = old.enabled
<1>1. CASE old = NoDoc
  <2>1. doc = new
    BY <1>1 DEF Pipeline
  <2>2. doc # NoDoc /\ \A s \in doc.sources : s.at \in Int
    BY <2>1, DocIsDoc DEF Good, IsDoc
  <2> QED
    BY <1>1, <2>1, <2>2 DEF Covers, AsNew
<1>2. CASE old # NoDoc
  <2>1. Good(old)
    BY <1>2
  <2>2. doc = Rolled(old, new, Both(old, new)) /\ ValidatorAccepts(doc)
    BY <1>2, PipelineOf
  <2>3. /\ IsDoc(doc) /\ doc.enabled = old.enabled /\ doc.sources = Both(old, new)
        /\ Valid(doc)
    BY <2>1, <2>2, RolledValid
  <2>4. /\ \A s \in old.sources : \E t \in doc.sources : AsNew(t, s)
        /\ \A s \in new.sources : \E t \in doc.sources : AsNew(t, s)
    BY <2>1, <2>3, BothSources
  <2> QED
    BY <2>3, <2>4, DocIsDoc DEF Good, Covers
<1> QED
  BY <1>1, <1>2

\* Merging a document again that what is there covers changes nothing, if its
\* times are covered as well.
LEMMA MergedAgain ==
    ASSUME NEW old, NEW new, Good(old), Good(new), Covers(old, new),
           old.discovered <= new.discovered, new.updated <= old.updated
    PROVE  Pipeline(old, new) = old
<1>1. /\ \A s \in old.sources : s.at \in Int
      /\ \A s \in new.sources : s.at \in Int
      /\ \A s, t \in old.sources : s.key = t.key => s = t
  BY DEF Good, IsDoc, Valid
<1>2. Come(old, new) = {}
  BY DEF Come, Covers
<1>3. Stay(old, new) = old.sources
  <2> SUFFICES ASSUME NEW s \in old.sources, NEW t \in new.sources, t.key = s.key
               PROVE  AsNew(s, t)
    BY DEF Stay
  <2>1. PICK x \in old.sources : AsNew(x, t)
    BY DEF Covers
  <2>2. x = s
    BY <1>1, <2>1 DEF AsNew
  <2> QED
    BY <2>1, <2>2
<1>4. Both(old, new) = old.sources
  BY <1>2, <1>3 DEF Both
<1> DEFINE doc == Rolled(old, new, old.sources)
<1>5. /\ IsDoc(old) /\ IsDoc(new) /\ old.priority = Priority(old.sources)
      /\ old.categories = Categories(old.sources) /\ ValidatorAccepts(old)
  BY DEF Good, Valid, ValidatorAccepts
<1>6. /\ old.discovered \in Int /\ new.discovered \in Int
      /\ old.updated \in Int /\ new.updated \in Int
  BY <1>5 DEF IsDoc
<1>7. /\ IsDoc(doc) /\ doc.enabled = old.enabled /\ doc.sources = old.sources
      /\ doc.priority = Priority(old.sources) /\ doc.categories = Categories(old.sources)
      /\ doc.discovered = old.discovered /\ doc.updated = old.updated
  <2>1. /\ IsDoc(doc) /\ doc.enabled = old.enabled /\ doc.sources = old.sources
        /\ doc.priority = Priority(old.sources) /\ doc.categories = Categories(old.sources)
        /\ doc.discovered = (IF old.discovered <= new.discovered THEN old.discovered
                             ELSE new.discovered)
        /\ doc.updated = (IF old.updated <= new.updated THEN new.updated ELSE old.updated)
    BY <1>1, <1>5, RolledFields
  <2> HIDE DEF doc
  <2> QED
    BY <1>6, <2>1
<1> HIDE DEF doc
<1>8. doc = old
  BY <1>5, <1>7 DEF IsDoc
<1>9. Pipeline(old, new) = IF ValidatorAccepts(doc) THEN doc ELSE Refused
  BY <1>4, <1>5, DocIsDoc, PipelineOf DEF doc
<1> QED
  BY <1>5, <1>8, <1>9

\* A merge that was made already, and a merge of a document with itself.
LEMMA Replay ==
    ASSUME NEW old, NEW new, Good(old), Good(new)
    PROVE  /\ Pipeline(old, new) # Refused =>
                  Pipeline(Pipeline(old, new), new) = Pipeline(old, new)
           /\ Pipeline(old, old) = old
<1>1. /\ old.discovered \in Int /\ new.discovered \in Int
      /\ old.updated \in Int /\ new.updated \in Int /\ old # NoDoc
  BY DocIsDoc DEF Good, IsDoc
<1>2. ASSUME Pipeline(old, new) # Refused
      PROVE  Pipeline(Pipeline(old, new), new) = Pipeline(old, new)
  <2> DEFINE doc == Pipeline(old, new)
  <2>1. Good(doc) /\ Covers(doc, new)
    BY <1>2, PipelineLeaves
  <2>2. doc = Rolled(old, new, Both(old, new))
    BY <1>1, <1>2, PipelineOf
  <2> HIDE DEF doc
  <2>3. /\ doc.discovered = (IF old.discovered <= new.discovered THEN old.discovered
                             ELSE new.discovered)
        /\ doc.updated = (IF old.updated <= new.updated THEN new.updated ELSE old.updated)
    <3>1. IsDoc(old) /\ IsDoc(new) /\ \A s \in Both(old, new) : s.at \in Int
      BY BothSources DEF Good
    <3> QED
      BY <2>2, <3>1, RolledFields
  <2>4. doc.discovered <= new.discovered /\ new.updated <= doc.updated
    BY <1>1, <2>3
  <2>5. Pipeline(doc, new) = doc
    BY <2>1, <2>4, MergedAgain
  <2> QED
    BY <2>5 DEF doc
<1>3. Pipeline(old, old) = old
  <2>1. Covers(old, old)
    BY <1>1 DEF Good, IsDoc, Covers, AsNew
  <2> QED
    BY <1>1, <2>1, MergedAgain
<1> QED
  BY <1>2, <1>3
-----------------------------------------------------------------------------
(* The documents that rows merge into. *)

\* The two programs that merge the same documents, merge_seed_documents in Python
\* and the aggregation pipeline in the server, make the same of them or both
\* refuse, and an import that is run again changes nothing.
THEOREM ServerMergesAlike ==
    ASSUME NEW old, NEW new, Good(old), Good(new)
    PROVE  /\ Pipeline(old, new) = MergeDocs(old, new)
           /\ Pipeline(old, new) # Refused =>
                  Pipeline(Pipeline(old, new), new) = Pipeline(old, new)
BY MergesAgree, Replay

\* A set of numbers has a least one.
LEMMA LeastNumber ==
    ASSUME NEW T \in SUBSET Nat, T # {}
    PROVE  Min(T) \in T /\ \A m \in T : Min(T) <= m
<1>1. PICK n \in T : \A m \in T : ~(<<m, n>> \in OpToRel(<, Nat))
  BY NatLessThanWellFounded, WFMin
<1>2. \A m \in T : ~(m < n)
  BY <1>1 DEF OpToRel
<1>3. \E x \in T : \A y \in T : x <= y
  BY <1>2
<1> QED
  BY <1>3 DEF Min

\* The documents after row k, given those before it.
NextDocs(c, o) == [c EXCEPT ![o.id] = MergeDocs(c[o.id], NewDoc(o))]

\* What the documents after each row satisfy up to row k.
Walks(w, rows, k) ==
    \A n \in 0..k : w[n] = IF n = 0 THEN Empty ELSE NextDocs(w[n - 1], rows[n])

\* There are such documents.
LEMMA WalkExists ==
    ASSUME NEW rows, NEW last \in Nat
    PROVE  \E w : w = [n \in 0..last |-> IF n = 0 THEN Empty ELSE NextDocs(w[n - 1], rows[n])]
<1> DEFINE T == {k \in 0..last : ~\E w : Walks(w, rows, k)}
<1>1. ASSUME T # {}
      PROVE  FALSE
  <2>1. PICK k \in T : \A m \in T : k <= m
    <3>1. T \in SUBSET Nat
      OBVIOUS
    <3> HIDE DEF T
    <3> QED
      BY <1>1, <3>1, LeastNumber
  <2>2. k # 0
    <3> DEFINE w == [n \in {0} |-> Empty]
    <3>1. w[0] = Empty
      OBVIOUS
    <3> HIDE DEF w
    <3>2. Walks(w, rows, 0)
      BY <3>1 DEF Walks
    <3> QED
      BY <3>2
  <2>3. k - 1 \in 0..last /\ ~(k <= k - 1)
    BY <2>2
  <2>4. PICK w : Walks(w, rows, k - 1)
    BY <2>1, <2>3
  <2> DEFINE v == [n \in 0..k |-> IF n = k THEN NextDocs(w[k - 1], rows[k]) ELSE w[n]]
  <2>5. /\ v[k] = NextDocs(w[k - 1], rows[k])
        /\ \A n \in 0..(k - 1) : v[n] = w[n]
    BY <2>2, <2>3
  <2> HIDE DEF v
  <2>6. Walks(v, rows, k)
    <3> SUFFICES ASSUME NEW n \in 0..k
                 PROVE  v[n] = IF n = 0 THEN Empty ELSE NextDocs(v[n - 1], rows[n])
      BY DEF Walks
    <3>1. CASE n = k
      <4>1. k - 1 \in 0..(k - 1)
        BY <2>3
      <4> QED
        BY <2>2, <2>5, <3>1, <4>1
    <3>2. CASE n = 0
      BY <2>2, <2>4, <2>5, <3>2 DEF Walks
    <3>3. CASE n # k /\ n # 0
      <4>1. n \in 0..(k - 1) /\ n - 1 \in 0..(k - 1)
        BY <3>3
      <4>2. w[n] = NextDocs(w[n - 1], rows[n])
        BY <2>4, <3>3, <4>1 DEF Walks
      <4> QED
        BY <2>5, <3>3, <4>1, <4>2
    <3> QED
      BY <3>1, <3>2, <3>3
  <2> QED
    BY <2>1, <2>6
<1>2. PICK w : Walks(w, rows, last)
  <2>1. last \in 0..last
    OBVIOUS
  <2> QED
    BY <1>1, <2>1
<1> DEFINE v == [n \in 0..last |-> w[n]]
           turn(n) == IF n = 0 THEN Empty ELSE NextDocs(v[n - 1], rows[n])
<1>3. \A n \in 0..last : v[n] = w[n]
  OBVIOUS
<1>4. \A n \in 0..last : v[n] = turn(n)
  <2> HIDE DEF v
  <2> SUFFICES ASSUME NEW n \in 0..last
               PROVE  v[n] = turn(n)
    OBVIOUS
  <2>1. n # 0 => n - 1 \in 0..last
    OBVIOUS
  <2> QED
    BY <1>2, <1>3, <2>1 DEF Walks
<1>5. v = [n \in 0..last |-> turn(n)]
  BY <1>4, Zenon
<1> QED
  BY <1>5

\* The documents after each row, row by row.
LEMMA RowByRow ==
    ASSUME NEW rows, Len(rows) \in Nat
    PROVE  /\ MergedRows(rows)[0] = Empty
           /\ \A k \in 1..Len(rows) :
                  MergedRows(rows)[k] = NextDocs(MergedRows(rows)[k - 1], rows[k])
<1> DEFINE l == Len(rows)
           w == MergedRows(rows)
<1>1. w = CHOOSE v : v = [n \in 0..l |-> IF n = 0 THEN Empty ELSE NextDocs(v[n - 1], rows[n])]
  BY DEF MergedRows, NextDocs
<1>2. \E v : v = [n \in 0..l |-> IF n = 0 THEN Empty ELSE NextDocs(v[n - 1], rows[n])]
  BY WalkExists
<1> HIDE DEF l, w
<1>3. w = [n \in 0..l |-> IF n = 0 THEN Empty ELSE NextDocs(w[n - 1], rows[n])]
  BY <1>1, <1>2, Zenon
<1>4. l \in Nat
  BY DEF l
<1>5. w[0] = Empty /\ \A k \in 1..l : w[k] = NextDocs(w[k - 1], rows[k])
  BY <1>3, <1>4
<1> QED
  BY <1>5 DEF l, w

\* A first document is valid.
LEMMA FirstDocument ==
    ASSUME NEW o, o.at \in Int, o.priority \in Int
    PROVE  Good(NewDoc(o)) /\ NewDoc(o).sources = {SourceOf(o)} /\ SourceOf(o).at = o.at
           /\ SourceOf(o).key = o.key
<1> DEFINE doc == NewDoc(o)
           s == SourceOf(o)
<1>1. s.at = o.at /\ s.key = o.key /\ s.priority = o.priority /\ s.category = o.category
  BY DEF SourceOf
<1>2. doc = [enabled |-> o.enabled, sources |-> {s}, priority |-> o.priority,
             categories |-> {o.category}, discovered |-> o.at, updated |-> o.at]
  BY DEF NewDoc
<1> HIDE DEF doc, s
<1>3. /\ doc.sources = {s} /\ doc.priority = o.priority /\ doc.categories = {o.category}
      /\ doc.discovered = o.at /\ doc.updated = o.at
  BY <1>2
<1>4. IsDoc(doc)
  BY <1>1, <1>2 DEF IsDoc
<1>5. Valid(doc)
  <2>1. Cardinality({s}) = 1 /\ 1 \in 1..MaxSources
    <3>1. Cardinality({s}) = 1
      BY FS_Singleton
    <3>2. 1 \in 1..MaxSources
      BY LimitsAssumption
    <3> QED
      BY <3>1, <3>2
  <2>2. Priority({s}) = o.priority
    <3>1. {x.priority : x \in {s}} = {o.priority}
      BY <1>1
    <3>2. Min({o.priority}) = o.priority
      <4>1. o.priority <= o.priority
        OBVIOUS
      <4> QED
        BY <4>1 DEF Min
    <3> QED
      BY <3>1, <3>2 DEF Priority
  <2>3. Categories({s}) = {o.category}
    BY <1>1 DEF Categories
  <2> QED
    BY <1>3, <2>1, <2>2, <2>3 DEF Valid
<1> QED
  BY <1>1, <1>3, <1>4, <1>5 DEF Good, doc, s

\* Documents of which each is valid, and which have the first k rows.
HaveRows(c, rows, k) ==
    /\ c = [u \in Id |-> c[u]]
    /\ \A u \in Id : c[u] = NoDoc \/ Good(c[u])
    /\ \A j \in 1..k : Covers(c[rows[j].id], NewDoc(rows[j]))

\* What covers a document that covers another covers that.
LEMMA CoversAll ==
    ASSUME NEW c, NEW d, NEW e, c = NoDoc \/ IsDoc(c), d = NoDoc \/ IsDoc(d), e = NoDoc \/ IsDoc(e),
           Covers(c, d), Covers(d, e), e # NoDoc
    PROVE  Covers(c, e)
<1>1. /\ \A s \in c.sources : s.at \in Int
      /\ \A s \in d.sources : s.at \in Int
      /\ \A s \in e.sources : s.at \in Int
  BY DEF IsDoc, Covers
<1> QED
  BY <1>1 DEF Covers, AsNew

\* A further row.
LEMMA OneRow ==
    ASSUME NEW rows, Mergeable(rows), NEW k \in 1..Len(rows),
           HaveRows(MergedRows(rows)[k - 1], rows, k - 1)
    PROVE  HaveRows(MergedRows(rows)[k], rows, k)
<1> DEFINE c == MergedRows(rows)[k - 1]
           d == MergedRows(rows)[k]
           u == rows[k].id
           new == NewDoc(rows[k])
<1>1. /\ Len(rows) \in Nat /\ u \in Id /\ rows[k].at \in Int /\ rows[k].priority \in Int
      /\ d[u] # Refused
  <2>1. k \in 0..Len(rows)
    OBVIOUS
  <2> QED
    BY <2>1 DEF Mergeable
<1>2. Good(new) /\ IsDoc(new)
  BY <1>1, FirstDocument DEF Good
<1>3. d = [c EXCEPT ![u] = MergeDocs(c[u], new)]
  BY <1>1, RowByRow DEF NextDocs
<1>4. /\ c = [x \in Id |-> c[x]]
      /\ \A x \in Id : c[x] = NoDoc \/ Good(c[x])
      /\ \A j \in 1..(k - 1) : Covers(c[rows[j].id], NewDoc(rows[j]))
  BY DEF HaveRows
<1>5. \A j \in 1..k : rows[j].id \in Id /\ Good(NewDoc(rows[j]))
  <2> SUFFICES ASSUME NEW j \in 1..k
               PROVE  rows[j].id \in Id /\ Good(NewDoc(rows[j]))
    OBVIOUS
  <2>1. j \in 1..Len(rows)
    BY <1>1
  <2>2. rows[j].id \in Id /\ rows[j].at \in Int /\ rows[j].priority \in Int
    BY <2>1 DEF Mergeable
  <2> QED
    BY <2>2, FirstDocument
<1>6. \A j \in 1..k : j = k \/ j \in 1..(k - 1)
  BY <1>1
<1> HIDE DEF c, d, u, new
<1>7. d = [x \in Id |-> d[x]] /\ d[u] = MergeDocs(c[u], new) /\ \A x \in Id \ {u} : d[x] = c[x]
  BY <1>1, <1>3, <1>4
<1>8. d[u] = Pipeline(c[u], new)
  <2>1. CASE c[u] = NoDoc
    BY <1>7, <2>1 DEF Pipeline, MergeDocs
  <2>2. CASE Good(c[u])
    BY <1>2, <1>7, <2>2, MergesAgree
  <2> QED
    BY <1>1, <1>4, <2>1, <2>2
<1>9. /\ Good(d[u]) /\ Covers(d[u], new)
      /\ c[u] # NoDoc => Covers(d[u], c[u])
  BY <1>1, <1>2, <1>4, <1>8, PipelineLeaves
<1>10. \A j \in 1..k : Covers(d[rows[j].id], NewDoc(rows[j]))
  <2> SUFFICES ASSUME NEW j \in 1..k
               PROVE  Covers(d[rows[j].id], NewDoc(rows[j]))
    OBVIOUS
  <2>1. CASE j = k
    BY <1>9, <2>1 DEF u, new
  <2>2. CASE j \in 1..(k - 1) /\ rows[j].id # u
    BY <1>4, <1>5, <1>7, <2>2
  <2>3. CASE j \in 1..(k - 1) /\ rows[j].id = u
    <3>1. Covers(c[u], NewDoc(rows[j])) /\ Good(NewDoc(rows[j]))
      BY <1>4, <1>5, <2>3
    <3>2. c[u] # NoDoc /\ Good(c[u]) /\ Covers(d[u], c[u]) /\ NewDoc(rows[j]) # NoDoc
      BY <1>1, <1>4, <1>9, <3>1, DocIsDoc DEF Covers, Good
    <3>3. Covers(d[u], NewDoc(rows[j]))
      BY <1>9, <3>1, <3>2, CoversAll DEF Good
    <3> QED
      BY <2>3, <3>3
  <2> QED
    BY <1>6, <2>1, <2>2, <2>3
<1>11. \A x \in Id : d[x] = NoDoc \/ Good(d[x])
  BY <1>4, <1>7, <1>9
<1> QED
  BY <1>7, <1>10, <1>11 DEF HaveRows, d

\* Rows that no merge raises on make valid documents that have all of them.
LEMMA DocumentsHaveRows ==
    ASSUME NEW rows, Mergeable(rows)
    PROVE  HaveRows(Documents(rows), rows, Len(rows))
<1> DEFINE l == Len(rows)
           P(n) == HaveRows(MergedRows(rows)[n], rows, n)
           T == {n \in 0..l : ~P(n)}
<1>1. l \in Nat
  BY DEF Mergeable
<1>2. P(0)
  <2>1. MergedRows(rows)[0] = Empty
    BY <1>1, RowByRow
  <2>2. Empty = [u \in Id |-> Empty[u]] /\ \A u \in Id : Empty[u] = NoDoc
    BY DEF Empty
  <2> QED
    BY <2>1, <2>2 DEF HaveRows
<1>3. ASSUME T # {}
      PROVE  FALSE
  <2>1. PICK n \in T : \A m \in T : n <= m
    <3>1. T \in SUBSET Nat
      OBVIOUS
    <3> HIDE DEF T
    <3> QED
      BY <1>3, <3>1, LeastNumber
  <2>2. n # 0
    BY <1>2
  <2>3. n \in 1..l /\ n - 1 \in 0..l /\ ~(n <= n - 1)
    BY <1>1, <2>2
  <2>4. P(n - 1)
    BY <2>1, <2>3
  <2>5. P(n)
    BY <2>3, <2>4, OneRow
  <2> QED
    BY <2>1, <2>5
<1>4. l \in 0..l
  BY <1>1
<1>5. P(l)
  BY <1>3, <1>4
<1> QED
  BY <1>5 DEF Documents
-----------------------------------------------------------------------------
(* The batches of an import. *)

\* The writes of the documents docs, in batches that are not empty.
Ops(docs)     == {[id |-> u, doc |-> docs[u]] : u \in Held(docs)}
Batched(docs) == Seq(Seq(Ops(docs)) \ {<<>>})

\* The ids that batches still have a write of.
Remaining(batches) ==
    {u \in Id : \E b \in 1..Len(batches) : \E k \in 1..Len(batches[b]) : batches[b][k].id = u}

Ids(rows) == {rows[k].id : k \in 1..Len(rows)}

ByNumber(S) == Ordered(S, LAMBDA u, v : u < v)
Place(rows, u) == Min({k \in 1..Len(rows) : rows[k].id = u})
ByPlace(rows) == Ordered(Ids(rows), LAMBDA u, v : Place(rows, u) < Place(rows, v))

\* The ids of batch b.
Part(rows, size, b) ==
    ToSet(SubSeq(ByPlace(rows), (b - 1) * size + 1, Min({b * size, Len(ByPlace(rows))})))

\* Numbers in their order.
LEMMA ByNumberLists ==
    ASSUME NEW S \in SUBSET Id
    PROVE  Lists(ByNumber(S), S)
<1> DEFINE R == {p \in S \X S : p[1] < p[2]}
<1>1. IsFiniteSet(S)
  BY LimitsAssumption, FS_Subset
<1>2. \A u, v \in S : <<u, v>> \in R <=> u < v
  OBVIOUS
<1>3. \A u \in S : u \in Nat
  BY LimitsAssumption
<1>4. InLine(S, R)
  <2> HIDE DEF R
  <2> QED
    BY <1>2, <1>3 DEF InLine
<1>5. \A u \in S : {v \in S : v < u} = Ahead(S, R, u)
  <2> HIDE DEF R
  <2> QED
    BY <1>2 DEF Ahead
<1> HIDE DEF R
<1> DEFINE q == ByNumber(S)
           n == Cardinality(S)
           F(k) == CHOOSE u \in S : Cardinality({v \in S : v < u}) = k - 1
<1>6. q = [k \in 1..n |-> F(k)]
  BY DEF ByNumber, Ordered
<1>7. n \in Nat /\ \A k \in 0..(n - 1) : \E u \in S : Cardinality(Ahead(S, R, u)) = k
  BY <1>1, <1>4, FS_CardinalityType, Places
<1> HIDE DEF q, n
<1>8. \A k \in 1..n : F(k) \in S /\ Cardinality(Ahead(S, R, F(k))) = k - 1
  <2> SUFFICES ASSUME NEW k \in 1..n
               PROVE  F(k) \in S /\ Cardinality(Ahead(S, R, F(k))) = k - 1
    OBVIOUS
  <2>1. k - 1 \in 0..(n - 1)
    BY <1>7
  <2>2. \E u \in S : Cardinality({v \in S : v < u}) = k - 1
    BY <1>5, <1>7, <2>1
  <2>3. F(k) \in S /\ Cardinality({v \in S : v < F(k)}) = k - 1
    BY <2>2
  <2> HIDE DEF F
  <2> QED
    BY <1>5, <2>3
<1> HIDE DEF F
<1>9. q = [k \in 1..n |-> q[k]]
  BY <1>6
<1>10. \A k \in 1..n : q[k] \in S /\ Cardinality(Ahead(S, R, q[k])) = k - 1
  BY <1>6, <1>8
<1>11. Lists(q, S)
  BY <1>1, <1>4, <1>9, <1>10, OrderedLists DEF n
<1> QED
  BY <1>11 DEF q

\* Ids in the order in which rows have them first.
LEMMA ByPlaceLists ==
    ASSUME NEW rows, Mergeable(rows)
    PROVE  Lists(ByPlace(rows), Ids(rows)) /\ Ids(rows) \in SUBSET Id
<1> DEFINE S == Ids(rows)
           R == {p \in S \X S : Place(rows, p[1]) < Place(rows, p[2])}
           P(u) == Place(rows, u)
<1>1. Len(rows) \in Nat /\ S \in SUBSET Id
  BY DEF Mergeable, Ids
<1>2. IsFiniteSet(S)
  BY <1>1, LimitsAssumption, FS_Subset
<1>3. \A u \in S : P(u) \in 1..Len(rows) /\ rows[P(u)].id = u
  <2> SUFFICES ASSUME NEW u \in S
               PROVE  P(u) \in 1..Len(rows) /\ rows[P(u)].id = u
    OBVIOUS
  <2> DEFINE T == {k \in 1..Len(rows) : rows[k].id = u}
  <2>1. T \in SUBSET Nat /\ T # {}
    BY <1>1 DEF Ids
  <2>2. Min(T) \in T
    <3> HIDE DEF T
    <3> QED
      BY <2>1, LeastNumber
  <2> QED
    BY <2>2 DEF Place
<1> HIDE DEF P
<1>4. \A u, v \in S : <<u, v>> \in R <=> P(u) < P(v)
  BY DEF P
<1>5. \A u, v \in S : P(u) \in Nat /\ (P(u) = P(v) => u = v)
  BY <1>1, <1>3
<1> HIDE DEF S
<1>6. InLine(S, R)
  <2> HIDE DEF R
  <2> QED
    BY <1>4, <1>5 DEF InLine
<1>7. \A u \in S : {v \in S : P(v) < P(u)} = Ahead(S, R, u)
  <2> HIDE DEF R
  <2> QED
    BY <1>4 DEF Ahead
<1> HIDE DEF R
<1> DEFINE q == ByPlace(rows)
           n == Cardinality(S)
           F(k) == CHOOSE u \in S : Cardinality({v \in S : P(v) < P(u)}) = k - 1
<1>8. q = [k \in 1..n |-> F(k)]
  BY DEF ByPlace, Ordered, S, P
<1>9. n \in Nat /\ \A k \in 0..(n - 1) : \E u \in S : Cardinality(Ahead(S, R, u)) = k
  BY <1>2, <1>6, FS_CardinalityType, Places
<1> HIDE DEF q, n
<1>10. \A k \in 1..n : F(k) \in S /\ Cardinality(Ahead(S, R, F(k))) = k - 1
  <2> SUFFICES ASSUME NEW k \in 1..n
               PROVE  F(k) \in S /\ Cardinality(Ahead(S, R, F(k))) = k - 1
    OBVIOUS
  <2>1. k - 1 \in 0..(n - 1)
    BY <1>9
  <2>2. \E u \in S : Cardinality({v \in S : P(v) < P(u)}) = k - 1
    BY <1>7, <1>9, <2>1
  <2>3. F(k) \in S /\ Cardinality({v \in S : P(v) < P(F(k))}) = k - 1
    BY <2>2
  <2> HIDE DEF F
  <2> QED
    BY <1>7, <2>3
<1> HIDE DEF F
<1>11. q = [k \in 1..n |-> q[k]]
  BY <1>8
<1>12. \A k \in 1..n : q[k] \in S /\ Cardinality(Ahead(S, R, q[k])) = k - 1
  BY <1>8, <1>10
<1>13. Lists(q, S)
  BY <1>2, <1>6, <1>11, <1>12, OrderedLists DEF n
<1> QED
  BY <1>1, <1>13 DEF q, S

\* Whole parts of a number.
LEMMA WholeParts ==
    ASSUME NEW a \in Nat, NEW s \in Nat \ {0}
    PROVE  a \div s \in Nat /\ s * (a \div s) <= a /\ a < s * (a \div s) + s
OBVIOUS

\* Pieces of s that cover 1..l.
LEMMA PiecesOf ==
    ASSUME NEW l \in Nat, NEW s \in Nat \ {0}, NEW n, n = (l + s - 1) \div s
    PROVE  /\ n \in Nat
           /\ \A b \in 1..n : /\ (b - 1) * s + 1 \in 1..l /\ b * s \in Nat
                              /\ (b - 1) * s + 1 <= b * s
           /\ \A k \in 1..l : \E b \in 1..n : (b - 1) * s + 1 <= k /\ k <= b * s
<1>1. n \in Nat /\ s * n <= l + s - 1 /\ l + s - 1 < s * n + s
  <2>1. l + s - 1 \in Nat
    OBVIOUS
  <2> QED
    BY <2>1, WholeParts
<1>2. ASSUME NEW b \in 1..n
      PROVE  (b - 1) * s + 1 \in 1..l /\ b * s \in Nat /\ (b - 1) * s + 1 <= b * s
  <2>1. s * (b - 1) + 1 <= l
    BY <1>1
  <2>2. s * (b - 1) \in Nat /\ s * b \in Nat
    BY <1>1
  <2> QED
    BY <1>1, <2>1, <2>2
<1>3. ASSUME NEW k \in 1..l
      PROVE  \E b \in 1..n : (b - 1) * s + 1 <= k /\ k <= b * s
  <2> DEFINE q == (k - 1) \div s
  <2>1. k - 1 \in Nat
    OBVIOUS
  <2>2. q \in Nat /\ s * q <= k - 1 /\ k - 1 < s * q + s
    BY <2>1, WholeParts
  <2> HIDE DEF q
  <2>3. q + 1 \in 1..n
    BY <1>1, <2>2
  <2>4. ((q + 1) - 1) * s + 1 <= k /\ k <= (q + 1) * s
    BY <2>2
  <2> QED
    BY <2>3, <2>4
<1> QED
  BY <1>1, <1>2, <1>3

\* The ids of the rows are those of the documents they make.
LEMMA IdsAreHeld ==
    ASSUME NEW rows, Mergeable(rows)
    PROVE  /\ Documents(rows) = [u \in Id |-> Documents(rows)[u]]
           /\ Held(Documents(rows)) \in SUBSET Id /\ Ids(rows) \in SUBSET Held(Documents(rows))
           /\ \A u \in Held(Documents(rows)) : Good(Documents(rows)[u])
<1> DEFINE docs == Documents(rows)
<1>1. /\ docs = [u \in Id |-> docs[u]]
      /\ \A u \in Id : docs[u] = NoDoc \/ Good(docs[u])
      /\ \A j \in 1..Len(rows) : Covers(docs[rows[j].id], NewDoc(rows[j]))
  BY DocumentsHaveRows DEF HaveRows
<1> HIDE DEF docs
<1>2. DOMAIN docs = Id
  BY <1>1
<1>3. \A j \in 1..Len(rows) : rows[j].id \in Id /\ docs[rows[j].id] # NoDoc
  BY <1>1 DEF Covers, Mergeable
<1>4. Held(docs) \in SUBSET Id /\ Ids(rows) \in SUBSET Held(docs)
  BY <1>2, <1>3 DEF Held, Ids
<1>5. \A u \in Held(docs) : Good(docs[u])
  BY <1>1, <1>2 DEF Held
<1> QED
  BY <1>1, <1>4, <1>5 DEF docs

\* A piece of a sequence, as a set.
LEMMA PieceOf ==
    ASSUME NEW S, NEW f \in Seq(S), NEW lo \in 1..Len(f), NEW hi \in lo..Len(f)
    PROVE  ToSet(SubSeq(f, lo, hi)) = {f[k] : k \in lo..hi}
<1>1. Len(f) \in Nat
  OBVIOUS
<1> DEFINE g == SubSeq(f, lo, hi)
<1>2. /\ DOMAIN g = 1..(hi - lo + 1)
      /\ \A i \in 1..(hi - lo + 1) : g[i] = f[lo + i - 1]
  BY <1>1
<1> HIDE DEF g
<1>3. \A i \in 1..(hi - lo + 1) : lo + i - 1 \in lo..hi
  BY <1>1
<1>4. \A k \in lo..hi : k - lo + 1 \in 1..(hi - lo + 1) /\ lo + (k - lo + 1) - 1 = k
  BY <1>1
<1>5. ToSet(g) = {g[i] : i \in 1..(hi - lo + 1)}
  BY <1>2 DEF ToSet
<1>6. {g[i] : i \in 1..(hi - lo + 1)} \in SUBSET {f[k] : k \in lo..hi}
  BY <1>2, <1>3
<1>7. \A k \in lo..hi : f[k] = g[k - lo + 1]
  <2> SUFFICES ASSUME NEW k \in lo..hi
               PROVE  f[k] = g[k - lo + 1]
    OBVIOUS
  <2> DEFINE j == k - lo + 1
  <2>1. j \in 1..(hi - lo + 1) /\ lo + j - 1 = k
    BY <1>4
  <2> HIDE DEF j
  <2>2. g[j] = f[k]
    BY <1>2, <2>1
  <2> QED
    BY <2>2 DEF j
<1>8. {f[k] : k \in lo..hi} \in SUBSET {g[i] : i \in 1..(hi - lo + 1)}
  <2> SUFFICES ASSUME NEW k \in lo..hi
               PROVE  f[k] \in {g[i] : i \in 1..(hi - lo + 1)}
    OBVIOUS
  <2> DEFINE j == k - lo + 1
  <2>1. j \in 1..(hi - lo + 1) /\ f[k] = g[j]
    BY <1>4, <1>7
  <2> HIDE DEF j
  <2> QED
    BY <2>1
<1> QED
  BY <1>5, <1>6, <1>8 DEF g

\* The ids of a batch: some of the rows' ids, and each of these in some batch.
LEMMA PartFacts ==
    ASSUME NEW rows, Mergeable(rows), NEW size \in Nat \ {0},
           NEW n, n = (Len(ByPlace(rows)) + size - 1) \div size
    PROVE  /\ n \in Nat
           /\ \A b \in 1..n : Part(rows, size, b) \in SUBSET Ids(rows) /\ Part(rows, size, b) # {}
           /\ \A u \in Ids(rows) : \E b \in 1..n : u \in Part(rows, size, b)
<1> DEFINE f == ByPlace(rows)
           l == Len(f)
           S == Ids(rows)
           lo(b) == (b - 1) * size + 1
           hi(b) == Min({b * size, l})
<1>1. f \in Seq(S) /\ l \in Nat /\ \A u \in S : \E k \in 1..l : f[k] = u
  <2>1. f \in Seq(S) /\ \A u \in S : \E k \in 1..l : f[k] = u
    BY ByPlaceLists DEF Lists
  <2> HIDE DEF f, S
  <2> QED
    BY <2>1
<1>2. /\ n \in Nat
      /\ \A b \in 1..n : lo(b) \in 1..l /\ b * size \in Nat /\ lo(b) <= b * size
      /\ \A k \in 1..l : \E b \in 1..n : lo(b) <= k /\ k <= b * size
  <2> HIDE DEF l
  <2> QED
    BY <1>1, PiecesOf DEF l
<1>3. \A b \in 1..n : /\ hi(b) \in lo(b)..l /\ lo(b) \in 1..l
                      /\ \A k \in 1..l : k <= b * size => k <= hi(b)
  <2> SUFFICES ASSUME NEW b \in 1..n
               PROVE  /\ hi(b) \in lo(b)..l /\ lo(b) \in 1..l
                      /\ \A k \in 1..l : k <= b * size => k <= hi(b)
    OBVIOUS
  <2> DEFINE e == b * size
             a == lo(b)
             h == hi(b)
  <2>1. e \in Int /\ l \in Int /\ a \in 1..l /\ a <= e
    BY <1>1, <1>2
  <2>2. h = IF e <= l THEN e ELSE l
    <3> HIDE DEF l, e
    <3> QED
      BY <2>1, MinMaxOfTwo DEF e
  <2> HIDE DEF l, e, a, h
  <2>3. h \in a..l /\ a \in 1..l /\ \A k \in 1..l : k <= e => k <= h
    BY <2>1, <2>2
  <2> QED
    BY <2>3 DEF h, a, e
<1>4. \A b \in 1..n : Part(rows, size, b) = {f[k] : k \in lo(b)..hi(b)}
  <2> SUFFICES ASSUME NEW b \in 1..n
               PROVE  Part(rows, size, b) = {f[k] : k \in lo(b)..hi(b)}
    OBVIOUS
  <2>1. Part(rows, size, b) = ToSet(SubSeq(f, lo(b), hi(b)))
    BY DEF Part
  <2>2. lo(b) \in 1..Len(f) /\ hi(b) \in lo(b)..Len(f)
    BY <1>3
  <2>3. f \in Seq(S)
    BY <1>1
  <2> DEFINE a == lo(b)
             h == hi(b)
  <2>4. a \in 1..Len(f) /\ h \in a..Len(f) /\ Part(rows, size, b) = ToSet(SubSeq(f, a, h))
    BY <2>1, <2>2
  <2> HIDE DEF f, S, a, h
  <2>5. ToSet(SubSeq(f, a, h)) = {f[k] : k \in a..h}
    BY <2>3, <2>4, PieceOf
  <2>6. Part(rows, size, b) = {f[k] : k \in a..h}
    BY <2>4, <2>5
  <2> QED
    BY <2>6 DEF a, h
<1> HIDE DEF f, l, S, hi
<1>5. \A k \in 1..l : f[k] \in S
  BY <1>1 DEF l
<1>6. \A b \in 1..n : Part(rows, size, b) \in SUBSET S /\ Part(rows, size, b) # {}
  <2> SUFFICES ASSUME NEW b \in 1..n
               PROVE  Part(rows, size, b) \in SUBSET S /\ Part(rows, size, b) # {}
    OBVIOUS
  <2> DEFINE a == lo(b)
             h == hi(b)
  <2>1. Part(rows, size, b) = {f[k] : k \in a..h} /\ a \in 1..l /\ h \in a..l
    BY <1>3, <1>4
  <2> HIDE DEF a, h
  <2>2. a \in a..h /\ \A k \in a..h : k \in 1..l
    BY <1>1, <2>1
  <2> QED
    BY <1>5, <2>1, <2>2
<1>7. ASSUME NEW u \in S
      PROVE  \E b \in 1..n : u \in Part(rows, size, b)
  <2>1. PICK k \in 1..l : f[k] = u
    BY <1>1
  <2>2. PICK b \in 1..n : lo(b) <= k /\ k <= b * size
    BY <1>2
  <2> DEFINE a == lo(b)
             h == hi(b)
  <2>3. a <= k /\ k <= h /\ a \in 1..l /\ h \in a..l /\ Part(rows, size, b) = {f[j] : j \in a..h}
    BY <1>3, <1>4, <2>2
  <2> HIDE DEF a, h
  <2>4. k \in a..h
    BY <1>1, <2>3
  <2> QED
    BY <2>1, <2>3, <2>4
<1> QED
  BY <1>2, <1>6, <1>7 DEF S

\* The batches of an import write its documents, and the one of every id.
LEMMA BatchesFacts ==
    ASSUME NEW rows, Mergeable(rows), NEW size \in Nat \ {0}
    PROVE  /\ Batches(rows, size) \in Batched(Documents(rows))
           /\ Ids(rows) \in SUBSET Remaining(Batches(rows, size))
<1> DEFINE docs == Documents(rows)
           n == (Len(ByPlace(rows)) + size - 1) \div size
           B(b) == ByNumber(Part(rows, size, b))
           G(b) == [k \in 1..Len(B(b)) |-> [id |-> B(b)[k], doc |-> docs[B(b)[k]]]]
           q == Batches(rows, size)
           U == Seq(Ops(docs)) \ {<<>>}
<1>1. q = [b \in 1..n |-> G(b)]
  BY DEF Batches, ByNumber, Part, ByPlace, Place, Ids
<1>2. /\ n \in Nat
      /\ \A b \in 1..n : Part(rows, size, b) \in SUBSET Ids(rows) /\ Part(rows, size, b) # {}
      /\ \A u \in Ids(rows) : \E b \in 1..n : u \in Part(rows, size, b)
  BY PartFacts
<1>3. Held(docs) \in SUBSET Id /\ Ids(rows) \in SUBSET Held(docs)
  BY IdsAreHeld
<1>4. \A b \in 1..n : Lists(B(b), Part(rows, size, b))
  BY <1>2, <1>3, ByNumberLists
<1> HIDE DEF docs, n, B
<1>5. ASSUME NEW b \in 1..n
      PROVE  /\ G(b) \in U
             /\ \A u \in Part(rows, size, b) : \E k \in 1..Len(G(b)) : G(b)[k].id = u
  <2> DEFINE t == B(b)
             l == Len(t)
             r == G(b)
             P == Part(rows, size, b)
  <2>1. l \in Nat /\ (\A k \in 1..l : t[k] \in P) /\ (\A u \in P : \E k \in 1..l : t[k] = u)
    BY <1>4 DEF Lists
  <2>2. P \in SUBSET Held(docs) /\ P # {}
    BY <1>2, <1>3
  <2>3. r = [k \in 1..l |-> r[k]]
    OBVIOUS
  <2>4. \A k \in 1..l : r[k] = [id |-> t[k], doc |-> docs[t[k]]]
    OBVIOUS
  <2> HIDE DEF r, l, t, P
  <2>5. \A k \in 1..l : r[k] \in Ops(docs) /\ r[k].id = t[k]
    <3> SUFFICES ASSUME NEW k \in 1..l
                 PROVE  r[k] \in Ops(docs) /\ r[k].id = t[k]
      OBVIOUS
    <3> DEFINE u == t[k]
    <3>1. u \in Held(docs)
      BY <2>1, <2>2
    <3>2. r[k] = [id |-> u, doc |-> docs[u]]
      BY <2>4
    <3> HIDE DEF u
    <3>3. r[k] \in Ops(docs) /\ r[k].id = u
      BY <3>1, <3>2 DEF Ops
    <3> QED
      BY <3>3 DEF u
  <2>6. r \in Seq(Ops(docs)) /\ Len(r) = l
    <3> DEFINE s == [k \in 1..l |-> r[k]]
    <3>1. s \in Seq(Ops(docs)) /\ Len(s) = l
      <4>1. l \in Nat
        BY <2>1
      <4>2. \A k \in 1..l : r[k] \in Ops(docs)
        BY <2>5
      <4> QED
        BY <4>1, <4>2, ListIsSeq, ZenonT(60)
    <3>2. r = s
      BY <2>3
    <3> HIDE DEF s
    <3> QED
      BY <3>1, <3>2
  <2>7. r # <<>>
    <3>1. l # 0
      BY <2>1, <2>2
    <3> QED
      BY <2>6, <3>1
  <2>8. \A u \in P : \E k \in 1..Len(r) : r[k].id = u
    BY <2>1, <2>5, <2>6
  <2> QED
    BY <2>6, <2>7, <2>8 DEF r, P
<1> HIDE DEF G, U, q
<1>6. /\ q = [b \in 1..n |-> q[b]]
      /\ \A b \in 1..n : q[b] = G(b)
  BY <1>1
<1>7. q \in Seq(U) /\ Len(q) = n
  <2>1. \A b \in 1..n : q[b] \in U
    BY <1>5, <1>6
  <2> DEFINE s == [b \in 1..n |-> q[b]]
  <2>2. s \in Seq(U) /\ Len(s) = n
    <3>1. n \in Nat
      BY <1>2
    <3> QED
      BY <2>1, <3>1, ListIsSeq, ZenonT(60)
  <2>3. q = s
    BY <1>6
  <2> HIDE DEF s
  <2> QED
    BY <2>2, <2>3
<1>8. \A u \in Ids(rows) : u \in Remaining(q)
  <2> SUFFICES ASSUME NEW u \in Ids(rows)
               PROVE  u \in Remaining(q)
    OBVIOUS
  <2>1. PICK b \in 1..n : u \in Part(rows, size, b)
    BY <1>2
  <2>2. PICK k \in 1..Len(G(b)) : G(b)[k].id = u
    BY <1>5, <2>1
  <2> QED
    BY <1>3, <1>6, <1>7, <2>2 DEF Remaining
<1> QED
  BY <1>7, <1>8 DEF Batched, U, q, docs

\* What is left of batches after their first write.
LEMMA AfterOneFacts ==
    ASSUME NEW docs, NEW q \in Batched(docs), q # <<>>
    PROVE  /\ AfterOne(q) \in Batched(docs) /\ Tail(q) \in Batched(docs)
           /\ Head(Head(q)) \in Ops(docs)
           /\ \A u \in Remaining(q) : u = Head(Head(q)).id \/ u \in Remaining(AfterOne(q))
<1> DEFINE O == Ops(docs)
           U == Seq(O) \ {<<>>}
           h == Head(q)
           t == Tail(q)
<1>1. q \in Seq(U) /\ Len(q) \in Nat /\ Len(q) # 0
  BY DEF Batched
<1> HIDE DEF U
<1>2. /\ h \in U /\ t \in Seq(U) /\ Len(t) = Len(q) - 1 /\ h = q[1]
      /\ \A b \in 1..(Len(q) - 1) : t[b] = q[b + 1]
  BY <1>1
<1>3. h \in Seq(O) /\ h # <<>>
  BY <1>2 DEF U
<1> HIDE DEF O, h, t
<1>4. /\ Len(h) \in Nat /\ Len(h) # 0 /\ Head(h) \in O /\ Head(h) = h[1]
      /\ Tail(h) \in Seq(O) /\ Len(Tail(h)) = Len(h) - 1
      /\ \A k \in 1..(Len(h) - 1) : Tail(h)[k] = h[k + 1]
  BY <1>3
<1>5. CASE Len(h) = 1
  <2>1. AfterOne(q) = t
    BY <1>5 DEF AfterOne, h, t
  <2>2. ASSUME NEW u \in Remaining(q), u # Head(h).id
        PROVE  u \in Remaining(t)
    <3>0. PICK b \in 1..Len(q) : \E k \in 1..Len(q[b]) : q[b][k].id = u
      BY <2>2 DEF Remaining
    <3>1. PICK k \in 1..Len(q[b]) : q[b][k].id = u
      BY <3>0
    <3>2. b # 1
      <4> SUFFICES ASSUME b = 1
                   PROVE  FALSE
        OBVIOUS
      <4>1. k \in 1..1 /\ h[k].id = u
        BY <1>2, <1>5, <3>1
      <4> QED
        BY <1>4, <2>2, <4>1
    <3>3. b - 1 \in 1..Len(t) /\ t[b - 1] = q[b]
      BY <1>1, <1>2, <3>1, <3>2
    <3> QED
      BY <2>2, <3>1, <3>3 DEF Remaining
  <2> QED
    BY <1>2, <1>4, <2>1, <2>2 DEF Batched, U, O, h, t
<1>6. CASE Len(h) # 1
  <2> DEFINE r == Tail(h)
             p == <<r>> \o t
  <2>1. AfterOne(q) = p
    BY <1>6 DEF AfterOne, h, t
  <2>2. r \in U
    <3>1. r \in Seq(O) /\ Len(r) # 0
      BY <1>4, <1>6
    <3> HIDE DEF r
    <3> QED
      BY <3>1 DEF U
  <2> HIDE DEF r
  <2>3. /\ p \in Seq(U) /\ Len(p) = Len(q) /\ p[1] = r
        /\ \A b \in 2..Len(q) : p[b] = q[b]
    <3>1. <<r>> \in Seq(U) /\ Len(<<r>>) = 1 /\ <<r>>[1] = r
      BY <2>2
    <3>2. p \in Seq(U) /\ Len(p) = Len(q)
      BY <1>1, <1>2, <3>1
    <3>3. p[1] = r
      BY <1>1, <1>2, <3>1
    <3>4. \A b \in 2..Len(q) : p[b] = q[b]
      <4> SUFFICES ASSUME NEW b \in 2..Len(q)
                   PROVE  p[b] = q[b]
        OBVIOUS
      <4>1. b - 1 \in 1..(Len(q) - 1) /\ (b - 1) + 1 = b
        BY <1>1
      <4>2. p[b] = t[b - 1]
        BY <1>1, <1>2, <3>1, <4>1
      <4> QED
        BY <1>2, <4>1, <4>2
    <3> QED
      BY <3>2, <3>3, <3>4
  <2> HIDE DEF p
  <2>4. ASSUME NEW u \in Remaining(q), u # Head(h).id
        PROVE  u \in Remaining(p)
    <3>0. PICK b \in 1..Len(q) : \E k \in 1..Len(q[b]) : q[b][k].id = u
      BY <2>4 DEF Remaining
    <3>1. PICK k \in 1..Len(q[b]) : q[b][k].id = u
      BY <3>0
    <3>2. CASE b = 1
      <4>1. k \in 1..Len(h) /\ h[k].id = u /\ k # 1
        BY <1>2, <1>4, <2>4, <3>1, <3>2
      <4>2. k - 1 \in 1..(Len(h) - 1) /\ (k - 1) + 1 = k
        BY <1>4, <4>1
      <4>3. k - 1 \in 1..Len(r) /\ r[k - 1].id = u
        BY <1>4, <4>1, <4>2 DEF r
      <4>4. 1 \in 1..Len(p) /\ p[1] = r
        BY <1>1, <2>3
      <4> QED
        BY <2>4, <4>3, <4>4 DEF Remaining
    <3>3. CASE b # 1
      <4>1. b \in 1..Len(p) /\ p[b] = q[b]
        BY <1>1, <2>3, <3>1, <3>3
      <4> QED
        BY <2>4, <3>1, <4>1 DEF Remaining
    <3> QED
      BY <3>2, <3>3
  <2> QED
    BY <1>2, <1>4, <2>1, <2>3, <2>4 DEF Batched, U, O, h, t
<1> QED
  BY <1>5, <1>6
-----------------------------------------------------------------------------
(* The invariant of the catalog. *)

JobPc == {"idle", "list", "create", "count", "check", "recount", "tighten", "write",
          "done", "failed"}

JobRecord(i) ==
    [pc : JobPc, count : Nat, cursor : SUBSET Id, checked : Nat,
     batches : Batched(Documents(Rows[i])), errors : Nat, replaced : BOOLEAN, runs : Nat]

RebuildPc == {"off", "write", "verify", "rename", "drop", "done", "failed"}

\* Documents by id.
IsShelf(c) == c = [u \in Id |-> c[u]] /\ \A u \in Id : c[u] = NoDoc \/ IsDoc(c[u])

CatalogTypes ==
    /\ mode \in {"absent", "loose", "strict"} /\ IsShelf(catalog)
    /\ job = [i \in Importer |-> job[i]] /\ \A i \in Importer : job[i] \in JobRecord(i)
    /\ rebuild \in [pc : RebuildPc, batches : Batched(Staged)]
    /\ toggles \in Nat /\ faults \in Nat

Fits(u) == catalog[u] = NoDoc \/ Valid(catalog[u])

\* Before the collection is there it is empty, and under the V1 validator it has
\* only valid documents.
StoredInv ==
    /\ mode = "absent" => \A u \in Id : catalog[u] = NoDoc
    /\ mode = "strict" => \A u \in Id : Fits(u)

\* What the preflight of an import has found out, as long as no other has set
\* the validator; an import writes only when it is set.
PreflightInv(i) ==
    /\ job[i].pc = "write" => mode = "strict"
    /\ mode # "strict" =>
          /\ job[i].pc = "check" => \A u \in Id \ job[i].cursor : Fits(u)
          /\ job[i].pc \in {"recount", "tighten"} => \A u \in Id : Fits(u)

\* What an import without an error has brought, or has still to write.
Brought(i, u) == Covers(catalog[u], Documents(Rows[i])[u])

WritingInv(i) ==
    ~job[i].replaced =>
        /\ job[i].pc = "write" /\ job[i].errors = 0 =>
              \A u \in Ids(Rows[i]) : u \in Remaining(job[i].batches) \/ Brought(i, u)
        /\ job[i].pc = "done" => \A u \in Ids(Rows[i]) : Brought(i, u)

\* The stage has documents of the baseline only, and is renamed when it has all.
StageInv ==
    /\ rebuild.pc \in {"write", "verify", "rename"} =>
          stage = [u \in Id |-> stage[u]] /\ \A u \in Id : stage[u] \in {NoDoc, Staged[u]}
    /\ rebuild.pc = "rename" => stage = Staged

CatalogInv ==
    /\ CatalogTypes /\ StoredInv /\ StageInv
    /\ \A i \in Importer : PreflightInv(i) /\ WritingInv(i)

CatalogMoves == KeepsProvenance /\ KeepsDisabled /\ LeavesLegacy /\ ReplacesWhole

-----------------------------------------------------------------------------
(* Steps of the importers. *)

\* What was in the catalog is still in it, or newer.
Grows == \A u \in Id : catalog[u] # NoDoc => Covers(catalog'[u], catalog[u])

\* A document has what is in it.
LEMMA CoversItself ==
    ASSUME NEW c, IsDoc(c)
    PROVE  Covers(c, c)
<1>1. c # NoDoc
  BY DocIsDoc
<1>2. \A s \in c.sources : s.at \in Int
  BY DEF IsDoc
<1> QED
  BY <1>1, <1>2 DEF Covers, AsNew

\* A catalog that stays as it is.
LEMMA StaysGrows ==
    ASSUME CatalogInv, catalog' = catalog
    PROVE  Grows
<1>1. \A u \in Id : catalog[u] = NoDoc \/ IsDoc(catalog[u])
  BY DEF CatalogInv, CatalogTypes, IsShelf
<1> QED
  BY <1>1, CoversItself DEF Grows

\* A step of importer i that makes its record r.
LEMMA JobKeeps ==
    ASSUME CatalogInv, NEW i \in Importer, NEW r \in JobRecord(i),
           job' = [job EXCEPT ![i] = r], UNCHANGED <<stage, rebuild, toggles>>,
           faults' \in Nat, mode' = mode \/ mode' = "strict",
           IsShelf(catalog'), StoredInv', Grows, mode # "strict" => catalog' = catalog,
           PreflightInv(i)', WritingInv(i)'
    PROVE  CatalogInv'
<1>1. \A j \in Importer : job[j] \in JobRecord(j)
  BY DEF CatalogInv, CatalogTypes
<1>2. \A j \in Importer : job'[j] = IF j = i THEN r ELSE job[j]
  BY DEF CatalogInv, CatalogTypes
<1>3. CatalogTypes'
  <2>1. job' = [j \in Importer |-> job'[j]]
    BY DEF CatalogInv, CatalogTypes
  <2> QED
    BY <1>1, <1>2, <2>1 DEF CatalogInv, CatalogTypes
<1>4. StageInv'
  BY DEF CatalogInv, StageInv
<1>5. ASSUME NEW j \in Importer, j # i
      PROVE  PreflightInv(j)' /\ WritingInv(j)'
  <2>1. job'[j] = job[j] /\ PreflightInv(j) /\ WritingInv(j)
    BY <1>2, <1>5 DEF CatalogInv
  <2>2. PreflightInv(j)'
    <3>1. mode' # "strict" => mode # "strict" /\ catalog' = catalog
      OBVIOUS
    <3>2. mode' # "strict" => \A u \in Id : Fits(u)' <=> Fits(u)
      BY <3>1 DEF Fits
    <3> QED
      BY <2>1, <3>1, <3>2 DEF PreflightInv
  <2>3. \A u \in Ids(Rows[j]) : Brought(j, u) => Brought(j, u)'
    <3> SUFFICES ASSUME NEW u \in Ids(Rows[j]), Brought(j, u)
                 PROVE  Brought(j, u)'
      OBVIOUS
    <3> DEFINE d == Documents(Rows[j])[u]
    <3>1. u \in Id /\ d # NoDoc /\ IsDoc(d)
      <4>1. u \in Held(Documents(Rows[j])) /\ u \in Id
        BY IdsAreHeld, RowsAssumption
      <4> QED
        BY <4>1, IdsAreHeld, RowsAssumption DEF Held, Good
    <3> HIDE DEF d
    <3>2. Covers(catalog[u], d)
      BY DEF Brought, d
    <3>3. catalog[u] # NoDoc /\ IsDoc(catalog[u]) /\ (catalog'[u] = NoDoc \/ IsDoc(catalog'[u]))
      BY <3>1, <3>2 DEF Covers, CatalogInv, CatalogTypes, IsShelf
    <3>4. Covers(catalog'[u], d)
      BY <3>1, <3>2, <3>3, CoversAll DEF Grows
    <3> QED
      BY <3>4 DEF Brought, d
  <2>4. WritingInv(j)'
    BY <2>1, <2>3 DEF WritingInv
  <2> QED
    BY <2>2, <2>4
<1> QED
  BY <1>3, <1>4, <1>5 DEF CatalogInv

\* What no step does, of one that leaves the catalog and the stage as they are.
LEMMA QuietMoves ==
    ASSUME CatalogInv, catalog' = catalog, mode' = mode
    PROVE  CatalogMoves
<1>1. KeepsProvenance
  <2>1. \A u \in Held(catalog) : \A s \in catalog[u].sources : s.at \in Int
    BY DEF CatalogInv, CatalogTypes, IsShelf, IsDoc, Held
  <2> QED
    BY <2>1 DEF KeepsProvenance
<1>2. KeepsDisabled /\ LeavesLegacy /\ ReplacesWhole
  BY DEF KeepsDisabled, LeavesLegacy, ReplacesWhole
<1> QED
  BY <1>1, <1>2 DEF CatalogMoves

\* A step of importer i that makes its record r, and writes nothing.
LEMMA QuietJobKeeps ==
    ASSUME CatalogInv, NEW i \in Importer, NEW r \in JobRecord(i),
           job' = [job EXCEPT ![i] = r], UNCHANGED <<mode, catalog, stage, rebuild, toggles>>,
           faults' \in Nat, r.pc = "write" => mode = "strict",
           mode # "strict" =>
               /\ r.pc = "check" => \A u \in Id \ r.cursor : Fits(u)
               /\ r.pc \in {"recount", "tighten"} => \A u \in Id : Fits(u),
           ~r.replaced =>
               /\ r.pc = "write" /\ r.errors = 0 =>
                      \A u \in Ids(Rows[i]) : u \in Remaining(r.batches) \/ Brought(i, u)
               /\ r.pc = "done" => \A u \in Ids(Rows[i]) : Brought(i, u)
    PROVE  CatalogInv' /\ CatalogMoves
<1>1. job'[i] = r
  BY DEF CatalogInv, CatalogTypes
<1>2. IsShelf(catalog') /\ StoredInv' /\ Grows
  <2>1. IsShelf(catalog')
    BY DEF CatalogInv, CatalogTypes
  <2>2. StoredInv'
    BY DEF CatalogInv, StoredInv, Fits
  <2> QED
    BY <2>1, <2>2, StaysGrows
<1>3. \A u : (Fits(u)' <=> Fits(u)) /\ (Brought(i, u)' <=> Brought(i, u))
  BY DEF Fits, Brought
<1>4. PreflightInv(i)'
  BY <1>1, <1>3 DEF PreflightInv
<1>5. WritingInv(i)'
  BY <1>1, <1>3 DEF WritingInv
<1>6. CatalogInv'
  BY <1>2, <1>4, <1>5, JobKeeps
<1> QED
  BY <1>6, QuietMoves
\* The records that a step makes of job[i].
With(i, pc)    == [job[i] EXCEPT !.pc = pc]
Stopped(i, pc) == [job[i] EXCEPT !.pc = pc, !.batches = <<>>, !.cursor = {}]

\* The batches of an import are batches of its documents.
LEMMA PlanFacts ==
    ASSUME NEW i \in Importer
    PROVE  /\ Plan[i] \in Batched(Documents(Rows[i]))
           /\ Ids(Rows[i]) \in SUBSET Remaining(Plan[i])
<1>1. Mergeable(Rows[i]) /\ BatchSize[i] \in Nat \ {0}
  BY RowsAssumption, LimitsAssumption
<1>2. Plan[i] = Batches(Rows[i], BatchSize[i])
  BY DEF Plan
<1> QED
  BY <1>1, <1>2, BatchesFacts

\* No batches are batches of any documents, with nothing to write.
LEMMA NoBatches ==
    /\ \A docs : <<>> \in Batched(docs)
    /\ Remaining(<<>>) = {}
BY DEF Batched, Remaining

\* A step that just goes to another place.
LEMMA WithFields ==
    ASSUME CatalogInv, NEW i \in Importer, NEW pc \in JobPc
    PROVE  /\ With(i, pc) \in JobRecord(i) /\ With(i, pc).pc = pc
           /\ With(i, pc).cursor = job[i].cursor /\ With(i, pc).batches = job[i].batches
           /\ With(i, pc).errors = job[i].errors /\ With(i, pc).replaced = job[i].replaced
<1>1. job[i] \in JobRecord(i)
  BY DEF CatalogInv, CatalogTypes
<1> QED
  BY <1>1 DEF JobRecord, With

\* A step that ends an import.
LEMMA StoppedFields ==
    ASSUME CatalogInv, NEW i \in Importer, NEW pc \in {"done", "failed"}
    PROVE  /\ Stopped(i, pc) \in JobRecord(i) /\ Stopped(i, pc).pc = pc
           /\ Stopped(i, pc).errors = job[i].errors /\ Stopped(i, pc).replaced = job[i].replaced
<1>1. job[i] \in JobRecord(i)
  BY DEF CatalogInv, CatalogTypes
<1>2. <<>> \in Batched(Documents(Rows[i])) /\ {} \in SUBSET Id
  BY NoBatches
<1> QED
  BY <1>1, <1>2 DEF JobRecord, JobPc, Stopped

\* A step that makes an import ready to write.
LEMMA ReadyFields ==
    ASSUME CatalogInv, NEW i \in Importer
    PROVE  /\ Ready(i) \in JobRecord(i) /\ Ready(i).pc = "write"
           /\ Ready(i).batches = Plan[i]
           /\ Ready(i).errors = job[i].errors /\ Ready(i).replaced = job[i].replaced
<1>1. job[i] \in JobRecord(i)
  BY DEF CatalogInv, CatalogTypes
<1>2. Plan[i] \in Batched(Documents(Rows[i]))
  BY PlanFacts
<1>3. Ready(i) = [job[i] EXCEPT !.pc = "write", !.batches = Plan[i]]
  BY DEF Ready
<1> QED
  BY <1>1, <1>2, <1>3 DEF JobRecord, JobPc

\* An import begins.
LEMMA Started ==
    ASSUME CatalogInv, NEW i \in Importer, StartImport(i)
    PROVE  CatalogInv' /\ CatalogMoves
<1> DEFINE r == [IdleJob EXCEPT !.pc = "list", !.runs = job[i].runs + 1]
<1>1. r \in JobRecord(i) /\ r.pc = "list"
  <2>1. <<>> \in Batched(Documents(Rows[i])) /\ {} \in SUBSET Id
    BY NoBatches
  <2>2. job[i].runs + 1 \in Nat
    BY DEF CatalogInv, CatalogTypes, JobRecord
  <2> QED
    BY <2>1, <2>2 DEF JobRecord, JobPc, IdleJob
<1>2. job' = [job EXCEPT ![i] = r]
  BY DEF StartImport
<1>3. UNCHANGED <<mode, catalog, stage, rebuild, toggles>> /\ faults' \in Nat
  BY DEF StartImport, CatalogInv, CatalogTypes
<1> HIDE DEF r
<1> QED
  BY <1>1, <1>2, <1>3, QuietJobKeeps

\* An import finds whether the collection is there.
LEMMA Listed ==
    ASSUME CatalogInv, NEW i \in Importer, ListCollections(i)
    PROVE  CatalogInv' /\ CatalogMoves
<1> DEFINE pc == IF mode = "absent" THEN "create" ELSE "count"
           r == With(i, pc)
<1>1. pc \in JobPc /\ pc \notin {"check", "recount", "tighten", "write", "done"}
  BY DEF JobPc
<1>2. r \in JobRecord(i) /\ r.pc = pc
  BY <1>1, WithFields
<1>3. job' = [job EXCEPT ![i] = r]
  BY DEF ListCollections, Goto, With
<1>4. UNCHANGED <<mode, catalog, stage, rebuild, toggles>> /\ faults' \in Nat
  BY DEF ListCollections, CatalogInv, CatalogTypes
<1> HIDE DEF r, pc
<1> QED
  BY <1>1, <1>2, <1>3, <1>4, QuietJobKeeps

\* The first count of the preflight; in an empty collection nothing is invalid.
LEMMA Counted ==
    ASSUME CatalogInv, NEW i \in Importer, CountBefore(i)
    PROVE  CatalogInv' /\ CatalogMoves
<1> DEFINE n == Cardinality(Held(catalog))
           pc == IF n = 0 THEN "tighten" ELSE "check"
           r == [job[i] EXCEPT !.count = n, !.cursor = Held(catalog), !.checked = 0, !.pc = pc]
<1>1. Held(catalog) \in SUBSET Id /\ \A u \in Id \ Held(catalog) : Fits(u)
  BY DEF CatalogInv, CatalogTypes, IsShelf, Held, Fits
<1>2. IsFiniteSet(Held(catalog))
  BY <1>1, LimitsAssumption, FS_Subset
<1>3. n \in Nat /\ (n = 0 <=> Held(catalog) = {})
  BY <1>2, FS_CardinalityType, FS_EmptySet
<1>4. pc = "check" \/ (pc = "tighten" /\ \A u \in Id : Fits(u))
  BY <1>1, <1>3
<1>5. job' = [job EXCEPT ![i] = r]
  BY DEF CountBefore
<1>6. UNCHANGED <<mode, catalog, stage, rebuild, toggles>> /\ faults' \in Nat
  BY DEF CountBefore, CatalogInv, CatalogTypes
<1> HIDE DEF n, pc
<1>7. r \in JobRecord(i) /\ r.pc = pc /\ r.cursor = Held(catalog)
  <2>1. job[i] \in JobRecord(i)
    BY DEF CatalogInv, CatalogTypes
  <2> QED
    BY <2>1, <1>1, <1>3, <1>4 DEF JobRecord, JobPc
<1> HIDE DEF r
<1> QED
  BY <1>1, <1>4, <1>5, <1>6, <1>7, QuietJobKeeps

\* The preflight reads a document, or has read the last.
LEMMA Checked ==
    ASSUME CatalogInv, NEW i \in Importer, CheckNext(i)
    PROVE  CatalogInv' /\ CatalogMoves
<1> DEFINE left == job[i].cursor \cap Held(catalog)
           v == Min(left)
<1>1. UNCHANGED <<mode, catalog, stage, rebuild, toggles>> /\ faults' \in Nat
  BY DEF CheckNext, CatalogInv, CatalogTypes
<1>2. job[i] \in JobRecord(i) /\ job[i].pc = "check" /\ left \in SUBSET Id
  BY DEF CheckNext, CatalogInv, CatalogTypes, JobRecord
<1>3. mode # "strict" => \A u \in Id \ left : Fits(u)
  <2>1. mode # "strict" => \A u \in Id \ job[i].cursor : Fits(u)
    BY <1>2 DEF CatalogInv, PreflightInv
  <2>2. \A u \in Id \ Held(catalog) : Fits(u)
    BY DEF CatalogInv, CatalogTypes, IsShelf, Held, Fits
  <2> QED
    BY <2>1, <2>2
<1>4. CASE left = {}
  <2>1. job' = [job EXCEPT ![i] = With(i, "recount")]
    BY <1>4 DEF CheckNext, Goto, With
  <2>2. With(i, "recount") \in JobRecord(i) /\ With(i, "recount").pc = "recount"
    BY WithFields DEF JobPc
  <2> QED
    BY <1>1, <1>3, <1>4, <2>1, <2>2, QuietJobKeeps
<1>5. CASE left # {} /\ Valid(catalog[v])
  <2> DEFINE c == left \ {v}
             n == job[i].checked + 1
             r == [job[i] EXCEPT !.cursor = c, !.checked = n]
  <2>1. job' = [job EXCEPT ![i] = r]
    BY <1>5 DEF CheckNext
  <2>2. (mode # "strict" => \A u \in Id \ c : Fits(u)) /\ c \in SUBSET Id
    BY <1>2, <1>3, <1>5 DEF Fits
  <2>4. n \in Nat
    BY <1>2 DEF JobRecord
  <2> HIDE DEF left, v, c, n
  <2>3. r \in JobRecord(i) /\ r.pc = "check" /\ r.cursor = c
    BY <1>2, <2>2, <2>4 DEF JobRecord
  <2> HIDE DEF r
  <2> QED
    BY <1>1, <2>1, <2>2, <2>3, QuietJobKeeps
<1>6. CASE left # {} /\ ~Valid(catalog[v])
  <2>1. job' = [job EXCEPT ![i] = Stopped(i, "failed")]
    BY <1>6 DEF CheckNext, Stop, Stopped
  <2>2. Stopped(i, "failed") \in JobRecord(i) /\ Stopped(i, "failed").pc = "failed"
    BY StoppedFields
  <2> QED
    BY <1>1, <2>1, <2>2, QuietJobKeeps
<1> QED
  BY <1>4, <1>5, <1>6

\* The second count of the preflight.
LEMMA Recounted ==
    ASSUME CatalogInv, NEW i \in Importer, CountAfter(i)
    PROVE  CatalogInv' /\ CatalogMoves
<1>1. UNCHANGED <<mode, catalog, stage, rebuild, toggles>> /\ faults' \in Nat
  BY DEF CountAfter, CatalogInv, CatalogTypes
<1>2. mode # "strict" => \A u \in Id : Fits(u)
  BY DEF CountAfter, CatalogInv, PreflightInv
<1>3. CASE job' = [job EXCEPT ![i] = With(i, "tighten")]
  <2>1. With(i, "tighten") \in JobRecord(i) /\ With(i, "tighten").pc = "tighten"
    BY WithFields DEF JobPc
  <2> QED
    BY <1>1, <1>2, <1>3, <2>1, QuietJobKeeps
<1>4. CASE job' = [job EXCEPT ![i] = Stopped(i, "failed")]
  <2>1. Stopped(i, "failed") \in JobRecord(i) /\ Stopped(i, "failed").pc = "failed"
    BY StoppedFields
  <2> QED
    BY <1>1, <1>4, <2>1, QuietJobKeeps
<1> QED
  BY <1>3, <1>4 DEF CountAfter, Goto, Stop, With, Stopped
\* What a step of an importer never does.
LEMMA GrownMoves ==
    ASSUME CatalogInv, UNCHANGED rebuild, Grows, LeavesLegacy,
           \A u \in Held(catalog) : catalog'[u].enabled = catalog[u].enabled
    PROVE  CatalogMoves
<1>1. Held(catalog) \in SUBSET Id
  BY DEF CatalogInv, CatalogTypes, IsShelf, Held
<1>2. KeepsProvenance
  <2>1. \A u \in Held(catalog) : Covers(catalog'[u], catalog[u])
    BY <1>1 DEF Grows, Held
  <2> QED
    BY <2>1 DEF KeepsProvenance, Covers, AsNew
<1>3. KeepsDisabled /\ ReplacesWhole
  BY DEF KeepsDisabled, ReplacesWhole
<1> QED
  BY <1>2, <1>3 DEF CatalogMoves

\* The validator is set, over a catalog that is empty or that the preflight has
\* read.
LEMMA Opened ==
    ASSUME CatalogInv, NEW i \in Importer, job' = [job EXCEPT ![i] = Ready(i)],
           mode' = "strict", UNCHANGED <<catalog, stage, rebuild, toggles, faults>>,
           mode # "strict" => \A u \in Id : Fits(u)
    PROVE  CatalogInv' /\ CatalogMoves
<1>1. /\ Ready(i) \in JobRecord(i) /\ Ready(i).pc = "write" /\ Ready(i).batches = Plan[i]
      /\ job'[i] = Ready(i) /\ Ids(Rows[i]) \in SUBSET Remaining(Plan[i])
  BY ReadyFields, PlanFacts DEF CatalogInv, CatalogTypes
<1>2. IsShelf(catalog') /\ faults' \in Nat /\ \A u \in Id : Fits(u)
  BY DEF CatalogInv, CatalogTypes, StoredInv
<1>3. StoredInv'
  BY <1>2 DEF StoredInv, Fits
<1>4. PreflightInv(i)'
  BY DEF PreflightInv
<1>5. WritingInv(i)'
  BY <1>1 DEF WritingInv
<1>6. Grows
  BY StaysGrows
<1>7. CatalogInv'
  BY <1>1, <1>2, <1>3, <1>4, <1>5, <1>6, JobKeeps
<1>8. LeavesLegacy
  <2>1. Held(catalog) \in SUBSET Id
    BY DEF CatalogInv, CatalogTypes, IsShelf, Held
  <2> QED
    BY <1>2, <2>1 DEF LeavesLegacy, Fits, Held
<1> QED
  BY <1>6, <1>7, <1>8, GrownMoves

\* An import creates the collection, or another was faster.
LEMMA Created ==
    ASSUME CatalogInv, NEW i \in Importer, CreateCollection(i)
    PROVE  CatalogInv' /\ CatalogMoves
<1>1. CASE mode = "absent" /\ mode' = "strict" /\ job' = [job EXCEPT ![i] = Ready(i)]
  <2>1. \A u \in Id : Fits(u)
    BY <1>1 DEF CatalogInv, StoredInv, Fits
  <2> QED
    BY <1>1, <2>1, Opened DEF CreateCollection
<1>2. CASE mode' = mode /\ job' = [job EXCEPT ![i] = Stopped(i, "failed")]
  <2>1. Stopped(i, "failed") \in JobRecord(i) /\ Stopped(i, "failed").pc = "failed"
    BY StoppedFields
  <2>2. UNCHANGED <<mode, catalog, stage, rebuild, toggles>> /\ faults' \in Nat
    BY <1>2 DEF CreateCollection, CatalogInv, CatalogTypes
  <2> QED
    BY <1>2, <2>1, <2>2, QuietJobKeeps
<1> QED
  BY <1>1, <1>2 DEF CreateCollection, Stop, Stopped

\* An import sets the validator after its preflight.
LEMMA Tightened ==
    ASSUME CatalogInv, NEW i \in Importer, Tighten(i)
    PROVE  CatalogInv' /\ CatalogMoves
<1>1. mode # "strict" => \A u \in Id : Fits(u)
  BY DEF CatalogInv, PreflightInv, Tighten
<1> QED
  BY <1>1, Opened DEF Tighten

\* An import ends.
LEMMA Ended ==
    ASSUME CatalogInv, NEW i \in Importer, EndImport(i)
    PROVE  CatalogInv' /\ CatalogMoves
<1> DEFINE pc == IF job[i].errors = 0 THEN "done" ELSE "failed"
           r == Stopped(i, pc)
<1>1. /\ r \in JobRecord(i) /\ r.pc = pc
      /\ r.errors = job[i].errors /\ r.replaced = job[i].replaced
  BY StoppedFields
<1>2. job' = [job EXCEPT ![i] = r]
  BY DEF EndImport, Stop, Stopped
<1>3. UNCHANGED <<mode, catalog, stage, rebuild, toggles>> /\ faults' \in Nat
  BY DEF EndImport, CatalogInv, CatalogTypes
<1>4. ~job[i].replaced /\ job[i].errors = 0 => \A u \in Ids(Rows[i]) : Brought(i, u)
  BY NoBatches DEF CatalogInv, WritingInv, EndImport
<1> HIDE DEF pc, r
<1>5. pc \in {"done", "failed"} /\ (pc = "done" => job[i].errors = 0)
  BY DEF pc
<1> QED
  BY <1>1, <1>2, <1>3, <1>4, <1>5, QuietJobKeeps

\* What an import writes are documents of its own.
LEMMA OwnWrites ==
    ASSUME CatalogInv, NEW i \in Importer, job[i].batches # <<>>
    PROVE  LET op == Head(Head(job[i].batches))
           IN /\ op.id \in Id /\ op.doc = Documents(Rows[i])[op.id] /\ Good(op.doc)
              /\ AfterOne(job[i].batches) \in Batched(Documents(Rows[i]))
              /\ Tail(job[i].batches) \in Batched(Documents(Rows[i]))
              /\ \A u \in Remaining(job[i].batches) :
                    u = op.id \/ u \in Remaining(AfterOne(job[i].batches))
<1> DEFINE q == job[i].batches
           docs == Documents(Rows[i])
           op == Head(Head(q))
<1>1. q \in Batched(docs)
  BY DEF CatalogInv, CatalogTypes, JobRecord
<1>2. HaveRows(docs, Rows[i], Len(Rows[i]))
  BY RowsAssumption, DocumentsHaveRows
<1> HIDE DEF q, docs
<1>3. /\ AfterOne(q) \in Batched(docs) /\ Tail(q) \in Batched(docs) /\ op \in Ops(docs)
      /\ \A u \in Remaining(q) : u = op.id \/ u \in Remaining(AfterOne(q))
  BY <1>1, AfterOneFacts DEF q
<1>4. op.id \in Held(docs) /\ op.doc = docs[op.id]
  <2> HIDE DEF op
  <2> QED
    BY <1>3 DEF Ops
<1>5. op.id \in Id /\ Good(op.doc)
  <2> HIDE DEF op
  <2>1. DOMAIN docs = Id
    BY <1>2 DEF HaveRows
  <2> QED
    BY <1>2, <1>4, <2>1 DEF HaveRows, Held
<1> QED
  BY <1>3, <1>4, <1>5 DEF q, docs

\* A write that has been applied, of an import that goes on or fails.
LEMMA Written ==
    ASSUME CatalogInv, NEW i \in Importer, job[i].pc = "write", job[i].batches # <<>>,
           NEW op, op = Head(Head(job[i].batches)),
           NEW doc, doc = Pipeline(catalog[op.id], op.doc), doc # Refused,
           catalog' = [catalog EXCEPT ![op.id] = doc],
           NEW r \in JobRecord(i), job' = [job EXCEPT ![i] = r],
           \/ r.pc = "failed"
           \/ /\ r.pc = "write" /\ r.batches = AfterOne(job[i].batches)
              /\ r.errors = job[i].errors /\ r.replaced = job[i].replaced,
           UNCHANGED <<mode, stage, rebuild, toggles>>, faults' \in Nat
    PROVE  CatalogInv' /\ CatalogMoves
<1>1. /\ op.id \in Id /\ op.doc = Documents(Rows[i])[op.id] /\ Good(op.doc)
      /\ \A u \in Remaining(job[i].batches) : u = op.id \/ u \in Remaining(AfterOne(job[i].batches))
  BY OwnWrites
<1>2. mode = "strict" /\ (\A u \in Id : Fits(u)) /\ (\A u \in Id : catalog[u] = NoDoc \/ Good(catalog[u]))
  BY DEF CatalogInv, PreflightInv, StoredInv, Good, Fits, CatalogTypes, IsShelf
<1>3. /\ Good(doc) /\ Covers(doc, op.doc)
      /\ catalog[op.id] # NoDoc => Covers(doc, catalog[op.id]) /\ doc.enabled = catalog[op.id].enabled
  <2> DEFINE old == catalog[op.id]
             new == op.doc
  <2>1. (old = NoDoc \/ Good(old)) /\ Good(new) /\ doc = Pipeline(old, new)
    BY <1>1, <1>2
  <2> HIDE DEF old, new
  <2>2. /\ Good(doc) /\ Covers(doc, new)
        /\ old # NoDoc => Covers(doc, old) /\ doc.enabled = old.enabled
    BY <2>1, PipelineLeaves, ZenonT(60)
  <2> QED
    BY <2>2 DEF old, new
<1>4. /\ catalog' = [u \in Id |-> catalog'[u]]
      /\ \A u \in Id : catalog'[u] = IF u = op.id THEN doc ELSE catalog[u]
  BY DEF CatalogInv, CatalogTypes, IsShelf
<1>5. IsShelf(catalog')
  BY <1>3, <1>4 DEF CatalogInv, CatalogTypes, IsShelf, Good
<1>6. StoredInv'
  BY <1>2, <1>3, <1>4 DEF StoredInv, Fits, Good
<1>7. \A u \in Id : catalog[u] # NoDoc => Covers(catalog[u], catalog[u])
  <2>1. \A u \in Id : catalog[u] = NoDoc \/ IsDoc(catalog[u])
    BY DEF CatalogInv, CatalogTypes, IsShelf
  <2> QED
    BY <2>1, CoversItself
<1>8. Grows
  <2> SUFFICES ASSUME NEW u \in Id, catalog[u] # NoDoc
               PROVE  Covers(catalog'[u], catalog[u])
    BY DEF Grows
  <2>1. CASE u = op.id
    <3>1. catalog'[u] = doc
      BY <1>4, <2>1
    <3>2. Covers(doc, catalog[op.id])
      BY <1>3, <2>1
    <3> QED
      BY <2>1, <3>1, <3>2
  <2>2. CASE u # op.id
    <3>1. catalog'[u] = catalog[u] /\ Covers(catalog[u], catalog[u])
      BY <1>4, <1>7, <2>2
    <3> QED
      BY <3>1
  <2> QED
    BY <2>1, <2>2
<1>9. job'[i] = r
  BY DEF CatalogInv, CatalogTypes
<1>10. PreflightInv(i)'
  BY <1>2 DEF PreflightInv
<1>11. WritingInv(i)'
  <2> SUFFICES ASSUME r.pc = "write", r.batches = AfterOne(job[i].batches),
                      r.errors = job[i].errors, r.replaced = job[i].replaced,
                      ~job[i].replaced, job[i].errors = 0, NEW u \in Ids(Rows[i])
               PROVE  u \in Remaining(r.batches) \/ Brought(i, u)'
    BY <1>9 DEF WritingInv
  <2>1. u \in Remaining(job[i].batches) \/ Brought(i, u)
    BY DEF CatalogInv, WritingInv
  <2>2. u \in Id
    BY RowsAssumption DEF Mergeable, Ids
  <2>3. CASE u = op.id
    BY <1>1, <1>3, <1>4, <2>2, <2>3 DEF Brought
  <2>4. CASE u # op.id
    BY <1>1, <1>4, <2>1, <2>2, <2>4 DEF Brought
  <2> QED
    BY <2>3, <2>4
<1>12. CatalogInv'
  BY <1>2, <1>5, <1>6, <1>8, <1>10, <1>11, JobKeeps
<1>13. \A u \in Held(catalog) : catalog'[u].enabled = catalog[u].enabled
  <2>1. Held(catalog) \in SUBSET Id
    BY DEF CatalogInv, CatalogTypes, IsShelf, Held
  <2> QED
    BY <1>3, <1>4, <2>1 DEF Held
<1>14. LeavesLegacy
  BY <1>2 DEF LeavesLegacy
<1> QED
  BY <1>8, <1>12, <1>13, <1>14, GrownMoves

\* A write of an import is applied or refused.
LEMMA WroteOne ==
    ASSUME CatalogInv, NEW i \in Importer, WriteOne(i)
    PROVE  CatalogInv' /\ CatalogMoves
<1> DEFINE op == Head(Head(job[i].batches))
           doc == Pipeline(catalog[op.id], op.doc)
           wrote == [job[i] EXCEPT !.batches = AfterOne(job[i].batches)]
           skipped == [job[i] EXCEPT !.batches = Tail(job[i].batches), !.errors = job[i].errors + 1]
<1>1. job[i].pc = "write" /\ job[i].batches # <<>> /\ job[i] \in JobRecord(i) /\ mode = "strict"
  BY DEF WriteOne, CatalogInv, CatalogTypes, PreflightInv
<1>2. UNCHANGED <<mode, stage, rebuild, toggles>> /\ faults' \in Nat
  BY DEF WriteOne, CatalogInv, CatalogTypes
<1>3. /\ AfterOne(job[i].batches) \in Batched(Documents(Rows[i]))
      /\ Tail(job[i].batches) \in Batched(Documents(Rows[i]))
  BY <1>1, OwnWrites
<1>4. CASE doc # Refused
  <2>1. catalog' = [catalog EXCEPT ![op.id] = doc] /\ job' = [job EXCEPT ![i] = wrote]
    BY <1>4 DEF WriteOne
  <2>2. /\ wrote \in JobRecord(i) /\ wrote.pc = "write" /\ wrote.batches = AfterOne(job[i].batches)
        /\ wrote.errors = job[i].errors /\ wrote.replaced = job[i].replaced
    BY <1>1, <1>3 DEF JobRecord
  <2> HIDE DEF wrote
  <2> QED
    BY <1>1, <1>2, <1>4, <2>1, <2>2, Written
<1>5. CASE doc = Refused /\ i \in GoesOn
  <2>1. catalog' = catalog /\ job' = [job EXCEPT ![i] = skipped]
    BY <1>5 DEF WriteOne
  <2> DEFINE n == job[i].errors + 1
             t == Tail(job[i].batches)
  <2>2. n \in Nat /\ n # 0
    BY <1>1 DEF JobRecord
  <2>3. skipped = [job[i] EXCEPT !.batches = t, !.errors = n] /\ t \in Batched(Documents(Rows[i]))
    BY <1>3
  <2> HIDE DEF n, t, skipped
  <2>4. skipped \in JobRecord(i) /\ skipped.pc = "write" /\ skipped.errors = n
    BY <1>1, <2>2, <2>3 DEF JobRecord
  <2> QED
    BY <1>1, <1>2, <2>1, <2>2, <2>4, QuietJobKeeps
<1>6. CASE doc = Refused /\ i \notin GoesOn
  <2>1. catalog' = catalog /\ job' = [job EXCEPT ![i] = Stopped(i, "failed")]
    BY <1>6 DEF WriteOne, Stop, Stopped
  <2>2. Stopped(i, "failed") \in JobRecord(i) /\ Stopped(i, "failed").pc = "failed"
    BY StoppedFields
  <2> QED
    BY <1>2, <2>1, <2>2, QuietJobKeeps
<1> QED
  BY <1>4, <1>5, <1>6

\* The connection fails in a write.
LEMMA WriteFailed ==
    ASSUME CatalogInv, NEW i \in Importer, WriteFails(i)
    PROVE  CatalogInv' /\ CatalogMoves
<1> DEFINE op == Head(Head(job[i].batches))
           doc == Pipeline(catalog[op.id], op.doc)
           r == Stopped(i, "failed")
<1>1. job[i].pc = "write" /\ job[i].batches # <<>>
  BY DEF WriteFails
<1>2. UNCHANGED <<mode, stage, rebuild, toggles>> /\ faults' \in Nat /\ job' = [job EXCEPT ![i] = r]
  <2>1. UNCHANGED <<mode, stage, rebuild, toggles>> /\ faults' \in Nat
    BY DEF WriteFails, CatalogInv, CatalogTypes
  <2>2. job' = [job EXCEPT ![i] = r]
    BY DEF WriteFails, Stop, Stopped
  <2> QED
    BY <2>1, <2>2
<1>3. r \in JobRecord(i) /\ r.pc = "failed"
  BY StoppedFields
<1> HIDE DEF r
<1>4. CASE catalog' = catalog
  BY <1>2, <1>3, <1>4, QuietJobKeeps
<1>5. CASE doc # Refused /\ catalog' = [catalog EXCEPT ![op.id] = doc]
  BY <1>1, <1>2, <1>3, <1>5, Written
<1> QED
  BY <1>4, <1>5 DEF WriteFails
-----------------------------------------------------------------------------
(* Steps of the rebuild and of the operator. *)

\* The batches of a rebuild are batches of the baseline.
LEMMA BasePlanFacts == BasePlan \in Batched(Staged)
<1>1. Cardinality(Id) \in Nat \ {0}
  BY LimitsAssumption, FS_CardinalityType, FS_EmptySet
<1> QED
  BY <1>1, RowsAssumption, BatchesFacts DEF BasePlan, Staged

\* The staged documents.
LEMMA StagedFacts ==
    /\ Staged = [u \in Id |-> Staged[u]] /\ IsShelf(Staged)
    /\ \A u \in Id : Staged[u] = NoDoc \/ Good(Staged[u])
<1>1. /\ Staged = [u \in Id |-> Staged[u]]
      /\ \A u \in Id : Staged[u] = NoDoc \/ Good(Staged[u])
  BY RowsAssumption, DocumentsHaveRows DEF HaveRows, Staged
<1> QED
  BY <1>1 DEF IsShelf, Good

\* A step of the rebuild in its stage.
LEMMA StageKeeps ==
    ASSUME CatalogInv, UNCHANGED <<mode, catalog, job, toggles>>, faults' \in Nat,
           rebuild' \in [pc : RebuildPc, batches : Batched(Staged)], StageInv'
    PROVE  CatalogInv' /\ CatalogMoves
<1>1. CatalogTypes'
  BY DEF CatalogInv, CatalogTypes
<1>2. StoredInv' /\ \A i \in Importer : PreflightInv(i)' /\ WritingInv(i)'
  BY DEF CatalogInv, StoredInv, Fits, PreflightInv, WritingInv, Brought
<1> QED
  BY <1>1, <1>2, QuietMoves DEF CatalogInv

\* The rename puts the baseline in place.
LEMMA ReplaceKeeps ==
    ASSUME CatalogInv, rebuild.pc = "rename", Replace, UNCHANGED toggles, faults' \in Nat,
           rebuild' \in [pc : {"done", "drop"}, batches : Batched(Staged)]
    PROVE  CatalogInv' /\ CatalogMoves
<1>1. catalog' = Staged /\ mode' = "strict"
  BY DEF Replace, CatalogInv, StageInv
<1>2. IsShelf(catalog') /\ StoredInv'
  BY <1>1, StagedFacts DEF StoredInv, Fits, Good
<1>3. /\ job' = [i \in Importer |-> job'[i]]
      /\ \A i \in Importer : /\ job'[i] \in JobRecord(i) /\ job'[i].replaced
  <2>1. \A i \in Importer : job[i] \in JobRecord(i)
    BY DEF CatalogInv, CatalogTypes
  <2>2. \A i \in Importer : job'[i] = [job[i] EXCEPT !.replaced = TRUE]
    BY DEF Replace
  <2>3. ASSUME NEW i \in Importer, NEW r \in JobRecord(i)
        PROVE  [r EXCEPT !.replaced = TRUE] \in JobRecord(i) /\ [r EXCEPT !.replaced = TRUE].replaced
    BY DEF JobRecord
  <2> QED
    BY <2>1, <2>2, <2>3 DEF Replace
<1>4. CatalogTypes'
  <2>1. rebuild' \in [pc : RebuildPc, batches : Batched(Staged)]
    BY DEF RebuildPc
  <2> QED
    BY <1>1, <1>2, <1>3, <2>1 DEF CatalogInv, CatalogTypes
<1>5. StageInv'
  BY DEF StageInv
<1>6. \A i \in Importer : PreflightInv(i)' /\ WritingInv(i)'
  BY <1>1, <1>3 DEF PreflightInv, WritingInv
<1>7. CatalogInv'
  BY <1>2, <1>4, <1>5, <1>6 DEF CatalogInv
<1>8. rebuild'.pc # rebuild.pc /\ catalog' = Staged
  BY <1>1
<1> QED
  BY <1>7, <1>8 DEF CatalogMoves, KeepsProvenance, KeepsDisabled, LeavesLegacy, ReplacesWhole

\* A rebuild begins, with an empty stage.
LEMMA RebuildStarted ==
    ASSUME CatalogInv, RebuildStart
    PROVE  CatalogInv' /\ CatalogMoves
<1>1. UNCHANGED <<mode, catalog, job, toggles>> /\ faults' \in Nat
  BY DEF RebuildStart, CatalogInv, CatalogTypes
<1>2. rebuild' \in [pc : RebuildPc, batches : Batched(Staged)]
  BY BasePlanFacts DEF RebuildStart, RebuildPc
<1>3. StageInv'
  BY DEF RebuildStart, StageInv, Empty
<1> QED
  BY <1>1, <1>2, <1>3, StageKeeps

\* A rebuild writes a document into its stage, or has written the last.
LEMMA RebuildWrote ==
    ASSUME CatalogInv, RebuildWrite
    PROVE  CatalogInv' /\ CatalogMoves
<1> DEFINE q == rebuild.batches
           op == Head(Head(q))
<1>1. UNCHANGED <<mode, catalog, job, toggles>> /\ faults' \in Nat
  BY DEF RebuildWrite, CatalogInv, CatalogTypes
<1>2. rebuild \in [pc : RebuildPc, batches : Batched(Staged)] /\ rebuild.pc = "write"
  BY DEF RebuildWrite, CatalogInv, CatalogTypes
<1>3. stage = [u \in Id |-> stage[u]] /\ \A u \in Id : stage[u] \in {NoDoc, Staged[u]}
  BY <1>2 DEF CatalogInv, StageInv
<1>4. CASE q = <<>>
  <2>1. rebuild' = [rebuild EXCEPT !.pc = "verify"] /\ stage' = stage
    BY <1>4 DEF RebuildWrite
  <2>2. rebuild' \in [pc : RebuildPc, batches : Batched(Staged)] /\ rebuild'.pc = "verify"
    BY <1>2, <2>1 DEF RebuildPc
  <2>3. StageInv'
    BY <1>3, <2>1, <2>2 DEF StageInv, Staged
  <2> QED
    BY <1>1, <2>2, <2>3, StageKeeps
<1>5. CASE q # <<>>
  <2>1. /\ stage' = [stage EXCEPT ![op.id] = Pipeline(stage[op.id], op.doc)]
        /\ rebuild' = [rebuild EXCEPT !.batches = AfterOne(q)]
    BY <1>5 DEF RebuildWrite
  <2>2. AfterOne(q) \in Batched(Staged) /\ op \in Ops(Staged)
    BY <1>2, <1>5, AfterOneFacts
  <2>3. op.id \in Id /\ op.doc = Staged[op.id] /\ Good(op.doc)
    <3> HIDE DEF op
    <3>1. op.id \in Held(Staged) /\ op.doc = Staged[op.id]
      BY <2>2 DEF Ops
    <3>2. DOMAIN Staged = Id
      BY StagedFacts
    <3> QED
      BY <3>1, <3>2, StagedFacts DEF Held
  <2>4. rebuild' \in [pc : RebuildPc, batches : Batched(Staged)] /\ rebuild'.pc = "write"
    <3> HIDE DEF op
    <3> QED
      BY <1>2, <2>1, <2>2
  <2>5. Pipeline(stage[op.id], op.doc) = Staged[op.id]
    <3>1. CASE stage[op.id] = NoDoc
      BY <2>3, <3>1 DEF Pipeline
    <3>2. CASE stage[op.id] = Staged[op.id]
      BY <2>3, <3>2, Replay
    <3> QED
      BY <1>3, <2>3, <3>1, <3>2
  <2> HIDE DEF op
  <2>6. stage' = [u \in Id |-> stage'[u]] /\ \A u \in Id : stage'[u] \in {NoDoc, Staged[u]}
    BY <1>3, <2>1, <2>3, <2>5
  <2>7. StageInv'
    BY <2>4, <2>6 DEF StageInv, Staged
  <2> QED
    BY <1>1, <2>4, <2>7, StageKeeps
<1> QED
  BY <1>4, <1>5

\* A rebuild compares the ids of the stage with those of the baseline.
LEMMA RebuildVerified ==
    ASSUME CatalogInv, RebuildVerify
    PROVE  CatalogInv' /\ CatalogMoves
<1> DEFINE pc == IF Held(stage) = Held(Staged) THEN "rename" ELSE "drop"
<1>1. UNCHANGED <<mode, catalog, stage, job, toggles>> /\ faults' \in Nat
  BY DEF RebuildVerify, CatalogInv, CatalogTypes
<1>2. /\ rebuild \in [pc : RebuildPc, batches : Batched(Staged)] /\ rebuild.pc = "verify"
      /\ rebuild' = [rebuild EXCEPT !.pc = pc]
  BY DEF RebuildVerify, CatalogInv, CatalogTypes
<1>3. stage = [u \in Id |-> stage[u]] /\ \A u \in Id : stage[u] \in {NoDoc, Staged[u]}
  BY <1>2 DEF CatalogInv, StageInv
<1>4. rebuild' \in [pc : RebuildPc, batches : Batched(Staged)] /\ rebuild'.pc = pc
  BY <1>2 DEF RebuildPc
<1>5. Held(stage) = Held(Staged) => stage = Staged
  <2>1. DOMAIN stage = Id /\ DOMAIN Staged = Id
    BY <1>3, StagedFacts
  <2>2. Held(stage) = Held(Staged) => \A u \in Id : stage[u] = Staged[u]
    BY <1>3, <2>1 DEF Held
  <2> QED
    BY <1>3, <2>2, StagedFacts
<1>6. StageInv'
  BY <1>1, <1>3, <1>4, <1>5 DEF StageInv, Staged
<1> QED
  BY <1>1, <1>4, <1>6, StageKeeps

\* A rebuild renames its stage.
LEMMA RebuildRenamed ==
    ASSUME CatalogInv, RebuildRename
    PROVE  CatalogInv' /\ CatalogMoves
<1>1. rebuild' \in [pc : {"done", "drop"}, batches : Batched(Staged)]
  BY NoBatches DEF RebuildRename
<1>2. rebuild.pc = "rename" /\ Replace /\ UNCHANGED toggles /\ faults' \in Nat
  BY DEF RebuildRename, CatalogInv, CatalogTypes
<1> QED
  BY <1>1, <1>2, ReplaceKeeps

\* A call of a rebuild raises.
LEMMA RebuildFailed ==
    ASSUME CatalogInv, RebuildFails
    PROVE  CatalogInv' /\ CatalogMoves
<1>1. rebuild' \in [pc : {"done", "drop"}, batches : Batched(Staged)] /\ rebuild'.pc = "drop"
  BY NoBatches DEF RebuildFails
<1>2. UNCHANGED toggles /\ faults' \in Nat
  BY DEF RebuildFails, CatalogInv, CatalogTypes
<1>3. CASE UNCHANGED <<mode, catalog, stage, job>>
  <2>1. StageInv'
    BY <1>1 DEF StageInv
  <2>2. rebuild' \in [pc : RebuildPc, batches : Batched(Staged)]
    BY <1>1 DEF RebuildPc
  <2> QED
    BY <1>2, <1>3, <2>1, <2>2, StageKeeps
<1>4. CASE rebuild.pc = "rename" /\ Replace
  BY <1>1, <1>2, <1>4, ReplaceKeeps
<1> QED
  BY <1>3, <1>4 DEF RebuildFails

\* A rebuild drops its stage.
LEMMA RebuildDropped ==
    ASSUME CatalogInv, RebuildDrop
    PROVE  CatalogInv' /\ CatalogMoves
<1>1. UNCHANGED <<mode, catalog, job, toggles>> /\ faults' \in Nat
  BY DEF RebuildDrop, CatalogInv, CatalogTypes
<1>2. rebuild \in [pc : RebuildPc, batches : Batched(Staged)] /\ rebuild' = [rebuild EXCEPT !.pc = "failed"]
  BY DEF RebuildDrop, CatalogInv, CatalogTypes
<1>3. rebuild' \in [pc : RebuildPc, batches : Batched(Staged)] /\ rebuild'.pc = "failed"
  BY <1>2 DEF RebuildPc
<1>4. StageInv'
  BY <1>3 DEF StageInv
<1> QED
  BY <1>1, <1>3, <1>4, StageKeeps
\* A document that is enabled or disabled is as valid as it was.
LEMMA ToggledDocument ==
    ASSUME NEW d, IsDoc(d), NEW e, e = [d EXCEPT !.enabled = ~d.enabled]
    PROVE  /\ IsDoc(e) /\ (Valid(e) <=> Valid(d))
           /\ e.sources = d.sources
<1>1. e = [enabled |-> ~d.enabled, sources |-> d.sources, priority |-> d.priority,
           categories |-> d.categories, discovered |-> d.discovered, updated |-> d.updated]
  <2> DEFINE b == ~d.enabled
  <2>1. e = [d EXCEPT !.enabled = b]
    OBVIOUS
  <2> HIDE DEF b
  <2>2. e = [enabled |-> b, sources |-> d.sources, priority |-> d.priority,
             categories |-> d.categories, discovered |-> d.discovered, updated |-> d.updated]
    BY <2>1 DEF IsDoc
  <2> QED
    BY <2>2 DEF b
<1> DEFINE b == ~d.enabled
<1> HIDE DEF b
<1>2. /\ e.enabled = b /\ e.sources = d.sources /\ e.priority = d.priority
      /\ e.categories = d.categories /\ e.discovered = d.discovered /\ e.updated = d.updated
  BY <1>1 DEF b
<1>3. e = [enabled |-> e.enabled, sources |-> e.sources, priority |-> e.priority,
           categories |-> e.categories, discovered |-> e.discovered, updated |-> e.updated]
  BY <1>1, <1>2 DEF b
<1>4. IsDoc(e)
  BY <1>2, <1>3 DEF IsDoc
<1>5. Valid(e) <=> Valid(d)
  BY <1>2 DEF Valid
<1> QED
  BY <1>2, <1>4, <1>5

\* The operator's edit.
LEMMA Toggled ==
    ASSUME CatalogInv, NEW v \in Id, Toggle(v)
    PROVE  CatalogInv' /\ CatalogMoves
<1> DEFINE e == [catalog[v] EXCEPT !.enabled = ~catalog[v].enabled]
<1>1. /\ UNCHANGED <<mode, stage, job, rebuild, faults>> /\ toggles' = toggles + 1
      /\ catalog' = [catalog EXCEPT ![v] = e] /\ catalog[v] # NoDoc
  BY DEF Toggle, Held
<1>2. IsDoc(catalog[v])
  BY <1>1 DEF CatalogInv, CatalogTypes, IsShelf
<1>3. IsDoc(e) /\ (Valid(e) <=> Valid(catalog[v])) /\ e.sources = catalog[v].sources /\ e # NoDoc
  BY <1>2, ToggledDocument, DocIsDoc
<1> HIDE DEF e
<1>4. /\ catalog' = [u \in Id |-> catalog'[u]]
      /\ \A u \in Id : catalog'[u] = IF u = v THEN e ELSE catalog[u]
  BY <1>1 DEF CatalogInv, CatalogTypes, IsShelf
<1>5. IsShelf(catalog') /\ CatalogTypes'
  <2>1. IsShelf(catalog')
    BY <1>3, <1>4 DEF CatalogInv, CatalogTypes, IsShelf
  <2> QED
    BY <1>1, <2>1 DEF CatalogInv, CatalogTypes
<1>6. \A u \in Id : Fits(u)' <=> Fits(u)
  BY <1>1, <1>3, <1>4 DEF Fits
<1>7. StoredInv' /\ StageInv'
  <2>1. mode # "absent"
    BY <1>1 DEF CatalogInv, StoredInv
  <2> QED
    BY <1>1, <1>6, <2>1 DEF CatalogInv, StoredInv, StageInv
<1>8. ASSUME NEW i \in Importer
      PROVE  PreflightInv(i)' /\ WritingInv(i)'
  <2>1. PreflightInv(i)'
    BY <1>1, <1>6 DEF CatalogInv, CatalogTypes, JobRecord, PreflightInv
  <2>2. \A u \in Ids(Rows[i]) : Brought(i, u)' <=> Brought(i, u)
    <3>1. Ids(Rows[i]) \in SUBSET Id
      BY RowsAssumption DEF Mergeable, Ids
    <3> QED
      BY <1>1, <1>3, <1>4, <3>1 DEF Brought, Covers
  <2>3. WritingInv(i)'
    BY <1>1, <2>2 DEF CatalogInv, WritingInv
  <2> QED
    BY <2>1, <2>3
<1>9. CatalogInv'
  BY <1>5, <1>7, <1>8 DEF CatalogInv
<1>10. KeepsProvenance
  <2> SUFFICES ASSUME NEW u \in Held(catalog), NEW s \in catalog[u].sources
               PROVE  s \in catalog'[u].sources /\ s.at >= s.at
    BY DEF KeepsProvenance
  <2>1. u \in Id /\ catalog[u] # NoDoc
    BY DEF CatalogInv, CatalogTypes, IsShelf, Held
  <2>2. s.at \in Int
    BY <2>1 DEF CatalogInv, CatalogTypes, IsShelf, IsDoc
  <2> QED
    BY <1>3, <1>4, <2>1, <2>2
<1>11. toggles' # toggles /\ rebuild'.pc = rebuild.pc
  BY <1>1 DEF CatalogInv, CatalogTypes
<1> QED
  BY <1>9, <1>10, <1>11 DEF CatalogMoves, KeepsDisabled, LeavesLegacy, ReplacesWhole

\* Every step keeps the invariant, and does none of what no step may do.
LEMMA CatalogSteps ==
    ASSUME CatalogInv, Next
    PROVE  CatalogInv' /\ CatalogMoves
<1>1. CASE \E i \in Importer : StartImport(i) \/ Import(i) \/ WriteFails(i)
  <2> PICK i \in Importer : StartImport(i) \/ Import(i) \/ WriteFails(i)
    BY <1>1
  <2> QED
    BY Started, Listed, Created, Counted, Checked, Recounted, Tightened, WroteOne, Ended,
       WriteFailed DEF Import
<1>2. CASE RebuildStart \/ Rebuild \/ RebuildFails
  BY <1>2, RebuildStarted, RebuildWrote, RebuildVerified, RebuildRenamed, RebuildDropped,
     RebuildFailed DEF Rebuild
<1>3. CASE \E u \in Id : Toggle(u)
  BY <1>3, Toggled
<1> QED
  BY <1>1, <1>2, <1>3 DEF Next

\* And so does a step of another.
LEMMA CatalogStutters ==
    ASSUME CatalogInv, UNCHANGED vars
    PROVE  CatalogInv' /\ CatalogMoves
<1>1. StageInv' /\ faults' \in Nat
  BY DEF CatalogInv, CatalogTypes, StageInv, vars
<1>2. rebuild' \in [pc : RebuildPc, batches : Batched(Staged)]
  BY DEF CatalogInv, CatalogTypes, vars
<1> QED
  BY <1>1, <1>2, StageKeeps DEF vars

\* The first states.
LEMMA CatalogBegins == Init => CatalogInv
<1> SUFFICES ASSUME Init
             PROVE  CatalogInv
  OBVIOUS
<1>1. /\ mode \in {"absent", "loose", "strict"} /\ catalog = [u \in Id |-> catalog[u]]
      /\ \A u \in Held(catalog) : /\ mode # "absent" /\ IsDoc(catalog[u])
                                  /\ mode = "strict" => Valid(catalog[u])
  BY InitialAssumption DEF Init
<1>2. \A u \in Id : u \in Held(catalog) \/ catalog[u] = NoDoc
  BY <1>1 DEF Held
<1>3. IsShelf(catalog) /\ StoredInv
  BY <1>1, <1>2 DEF IsShelf, StoredInv, Fits
<1>4. /\ job = [i \in Importer |-> job[i]]
      /\ \A i \in Importer : job[i] \in JobRecord(i) /\ job[i].pc = "idle"
  <2>1. job = [i \in Importer |-> IdleJob]
    BY DEF Init
  <2>2. ASSUME NEW i \in Importer
        PROVE  IdleJob \in JobRecord(i) /\ IdleJob.pc = "idle"
    <3>1. <<>> \in Batched(Documents(Rows[i])) /\ {} \in SUBSET Id
      BY NoBatches
    <3> QED
      BY <3>1 DEF JobRecord, JobPc, IdleJob
  <2> HIDE DEF IdleJob
  <2> QED
    BY <2>1, <2>2
<1>5. rebuild \in [pc : RebuildPc, batches : Batched(Staged)] /\ rebuild.pc = "off"
  BY NoBatches DEF Init, RebuildPc
<1>6. CatalogTypes
  BY <1>1, <1>3, <1>4, <1>5 DEF CatalogTypes, Init
<1>7. StageInv
  BY <1>5 DEF StageInv
<1>8. \A i \in Importer : PreflightInv(i) /\ WritingInv(i)
  BY <1>4 DEF PreflightInv, WritingInv
<1> QED
  BY <1>3, <1>6, <1>7, <1>8 DEF CatalogInv

-----------------------------------------------------------------------------
(* What the invariant says of the catalog. *)

\* What importers offer is valid.
LEMMA OffersAreGood == \A d \in Offered : Good(d)
<1> SUFFICES ASSUME NEW d \in Offered
             PROVE  Good(d)
  OBVIOUS
<1>1. PICK i \in Importer : \E u \in Id : d = Documents(Rows[i])[u] /\ d # NoDoc
  BY DEF Offered
<1>2. PICK u \in Id : d = Documents(Rows[i])[u] /\ d # NoDoc
  BY <1>1
<1>3. Documents(Rows[i])[u] = NoDoc \/ Good(Documents(Rows[i])[u])
  BY RowsAssumption, DocumentsHaveRows DEF HaveRows
<1> QED
  BY <1>2, <1>3

\* The invariant is as strong as the properties.
LEMMA CatalogIsFine ==
    ASSUME CatalogInv
    PROVE  PipelineIsMerge /\ ReplayIsNoop /\ CatalogValid /\ ImportComplete
<1>1. \A u \in Held(catalog) : /\ u \in Id /\ IsDoc(catalog[u])
                               /\ mode = "strict" => Good(catalog[u])
  BY DEF CatalogInv, CatalogTypes, IsShelf, StoredInv, Fits, Held, Good
<1>2. CatalogValid
  BY <1>1 DEF CatalogValid, Good
<1>3. PipelineIsMerge
  BY <1>1, OffersAreGood, MergesAgree DEF PipelineIsMerge
<1>4. ReplayIsNoop
  BY <1>1, OffersAreGood, Replay DEF ReplayIsNoop
<1>5. ImportComplete
  <2> SUFFICES ASSUME NEW i \in Importer, job[i].pc = "done", ~job[i].replaced,
                      NEW k \in 1..Len(Rows[i])
               PROVE  \E s \in catalog[Rows[i][k].id].sources :
                          s.key = Rows[i][k].key /\ s.at >= Rows[i][k].at
    BY DEF ImportComplete
  <2> DEFINE o == Rows[i][k]
             d == Documents(Rows[i])[o.id]
             c == catalog[o.id]
  <2>1. Mergeable(Rows[i])
    BY RowsAssumption
  <2>2. o.id \in Ids(Rows[i]) /\ o.id \in Id /\ o.at \in Int /\ o.priority \in Int
    BY <2>1 DEF Mergeable, Ids
  <2>3. Covers(c, d)
    BY <2>2 DEF CatalogInv, WritingInv, Brought
  <2>4. Covers(d, NewDoc(o)) /\ (d = NoDoc \/ IsDoc(d))
    <3>1. HaveRows(Documents(Rows[i]), Rows[i], Len(Rows[i]))
      BY <2>1, DocumentsHaveRows
    <3> QED
      BY <2>2, <3>1 DEF HaveRows, Good
  <2>5. c = NoDoc \/ IsDoc(c)
    BY <2>2 DEF CatalogInv, CatalogTypes, IsShelf
  <2> HIDE DEF c, d, o
  <2>6. /\ Good(NewDoc(o)) /\ NewDoc(o).sources = {SourceOf(o)}
        /\ SourceOf(o).at = o.at /\ SourceOf(o).key = o.key
    BY <2>2, FirstDocument
  <2>7. NewDoc(o) # NoDoc /\ IsDoc(NewDoc(o))
    BY <2>6, DocIsDoc DEF Good
  <2>8. Covers(c, NewDoc(o))
    BY <2>3, <2>4, <2>5, <2>7, CoversAll
  <2>9. \E s \in c.sources : s.key = o.key /\ s.at >= o.at
    BY <2>6, <2>8 DEF Covers, AsNew
  <2> QED
    BY <2>9 DEF c, o
<1> QED
  BY <1>2, <1>3, <1>4, <1>5
=============================================================================
