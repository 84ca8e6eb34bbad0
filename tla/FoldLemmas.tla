----------------------------- MODULE FoldLemmas -------------------------------
(***************************************************************************)
(* Induction over numbers and sequences, and what the folds of the         *)
(* specifications compute, for data of every size.  An induction is stated *)
(* of a set instead of a predicate, and comes from the well-foundedness of *)
(* the strict subsets of a set; a fold is shown to follow its equation, of *)
(* which the library's definition chooses a solution.                      *)
(***************************************************************************)
EXTENDS Integers, SequencesExt, FiniteSetTheorems, SequenceTheorems, TLAPS

\* Induction over the numbers: the numbers up to the least one outside of T
\* would have no smaller set of them outside.
LEMMA NatInductive ==
    ASSUME NEW T, 0 \in T, \A n \in Nat : n \in T => n + 1 \in T
    PROVE  Nat \subseteq T
<1> DEFINE Rest == {1..n : n \in Nat \ T}
<1> SUFFICES ASSUME Nat \ T # {} PROVE FALSE
  OBVIOUS
<1>1. Rest # {}
  OBVIOUS
<1>2. Rest \subseteq FiniteSubsetsOf(Nat)
  <2> SUFFICES ASSUME NEW n \in Nat PROVE 1..n \in FiniteSubsetsOf(Nat)
    OBVIOUS
  <2>1. IsFiniteSet(1..n)
    BY FS_Interval
  <2> QED
    BY <2>1 DEF FiniteSubsetsOf
<1>3. PICK s \in Rest : \A r \in Rest : <<r, s>> \notin StrictSubsetOrdering(Nat)
  <2> HIDE DEF Rest
  <2>1. IsWellFoundedOn(StrictSubsetOrdering(Nat), FiniteSubsetsOf(Nat))
    BY FS_StrictSubsetOrderingWellFounded
  <2> QED
    BY <1>1, <1>2, <2>1, WFMin
<1>4. PICK n \in Nat \ T : s = 1..n
  OBVIOUS
<1>5. n # 0 /\ n - 1 \in Nat \ T
  OBVIOUS
<1>6. 1..(n - 1) \in Rest
  BY <1>5
<1>7. <<1..(n - 1), 1..n>> \in StrictSubsetOrdering(Nat)
  <2>1. 1..(n - 1) \subseteq 1..n /\ 1..n \subseteq Nat
    OBVIOUS
  <2>2. n \in 1..n /\ n \notin 1..(n - 1)
    BY <1>5
  <2> QED
    BY <2>1, <2>2 DEF StrictSubsetOrdering
<1> QED
  BY <1>3, <1>4, <1>6, <1>7

\* Induction over the length of a sequence.
LEMMA SeqInductive ==
    ASSUME NEW E, NEW T, <<>> \in T,
           \A s \in Seq(E), x \in E : s \in T => Append(s, x) \in T
    PROVE  Seq(E) \subseteq T
<1> DEFINE L == {n \in Nat : \A s \in Seq(E) : Len(s) = n => s \in T}
<1>1. 0 \in L
  <2> SUFFICES ASSUME NEW s \in Seq(E), Len(s) = 0 PROVE s \in T
    OBVIOUS
  <2>1. s = <<>>
    OBVIOUS
  <2> QED
    BY <2>1
<1>2. ASSUME NEW n \in Nat, n \in L PROVE n + 1 \in L
  <2> SUFFICES ASSUME NEW s \in Seq(E), Len(s) = n + 1 PROVE s \in T
    OBVIOUS
  <2> DEFINE front == SubSeq(s, 1, n)
  <2>1. front \in Seq(E) /\ Len(front) = n
    OBVIOUS
  <2>2. s[n + 1] \in E /\ s = Append(front, s[n + 1])
    OBVIOUS
  <2>3. front \in T
    BY <1>2, <2>1
  <2> QED
    BY <2>1, <2>2, <2>3
<1>3. Nat \subseteq L
  <2> HIDE DEF L
  <2> QED
    BY <1>1, <1>2, NatInductive
<1> QED
  BY <1>3

-----------------------------------------------------------------------------
(* A recursive function of the numbers.                                    *)

\* A function applied n times.
Iterates(h, F, x) == h = [n \in Nat |-> IF n = 0 THEN x ELSE F[h[n - 1]]]

\* There are those iterates: an initial part of them for every n, by induction,
\* and any two such parts agree where both are defined.
LEMMA IterateExists ==
    ASSUME NEW Acc, NEW F \in [Acc -> Acc], NEW x \in Acc
    PROVE  \E h \in [Nat -> Acc] : Iterates(h, F, x)
<1> DEFINE Solves(h, n) == \A i \in 0..n : h[i] = IF i = 0 THEN x ELSE F[h[i - 1]]
           N == {n \in Nat : \E h \in [0..n -> Acc] : Solves(h, n)}
           M == {n \in Nat : \A k, l \in Nat :
                    \A g \in [0..k -> Acc], h \in [0..l -> Acc] :
                       n <= k /\ n <= l /\ Solves(g, k) /\ Solves(h, l) => g[n] = h[n]}
<1>1. 0 \in N
  <2> DEFINE h == [i \in 0..0 |-> x]
  <2>1. h \in [0..0 -> Acc] /\ Solves(h, 0)
    OBVIOUS
  <2> QED
    BY <2>1
<1>2. ASSUME NEW n \in Nat, n \in N PROVE n + 1 \in N
  <2>1. PICK h \in [0..n -> Acc] : Solves(h, n)
    BY <1>2
  <2> DEFINE g == [i \in 0..(n + 1) |-> IF i = n + 1 THEN F[h[n]] ELSE h[i]]
  <2>2. g \in [0..(n + 1) -> Acc]
    <3>1. h[n] \in Acc /\ \A i \in 0..(n + 1) : i # n + 1 => h[i] \in Acc
      OBVIOUS
    <3> QED
      BY <3>1
  <2>3. Solves(g, n + 1)
    <3> SUFFICES ASSUME NEW i \in 0..(n + 1) PROVE g[i] = IF i = 0 THEN x ELSE F[g[i - 1]]
      OBVIOUS
    <3>1. CASE i = n + 1
      <4>1. i # 0 /\ i - 1 = n /\ n \in 0..(n + 1) /\ n # n + 1
        BY <3>1
      <4>2. g[i] = F[h[n]] /\ g[n] = h[n]
        BY <3>1, <4>1
      <4> QED
        BY <4>1, <4>2
    <3>2. CASE i # n + 1
      <4>1. i \in 0..n
        BY <3>2
      <4>2. g[i] = h[i] /\ h[i] = IF i = 0 THEN x ELSE F[h[i - 1]]
        BY <2>1, <3>2, <4>1
      <4>3. i # 0 => i - 1 \in 0..(n + 1) /\ i - 1 # n + 1 /\ g[i - 1] = h[i - 1]
        BY <4>1
      <4> HIDE DEF g
      <4> QED
        BY <4>2, <4>3
    <3> QED
      BY <3>1, <3>2
  <2> HIDE DEF g, Solves
  <2> QED
    BY <2>2, <2>3
<1>3. Nat \subseteq N
  <2> HIDE DEF N
  <2> QED
    BY <1>1, <1>2, NatInductive
<1>4. 0 \in M
  OBVIOUS
<1>5. ASSUME NEW n \in Nat, n \in M PROVE n + 1 \in M
  <2> HIDE DEF Solves
  <2> SUFFICES ASSUME NEW k \in Nat, NEW l \in Nat, NEW g \in [0..k -> Acc], NEW h \in [0..l -> Acc],
                      n + 1 <= k, n + 1 <= l, Solves(g, k), Solves(h, l)
               PROVE  g[n + 1] = h[n + 1]
    OBVIOUS
  <2>1. g[n] = h[n]
    <3>1. n <= k /\ n <= l
      OBVIOUS
    <3> QED
      BY <1>5, <3>1
  <2>2. (n + 1) - 1 = n /\ n + 1 # 0 /\ n + 1 \in 0..k /\ n + 1 \in 0..l
    OBVIOUS
  <2> QED
    BY <2>1, <2>2 DEF Solves
<1>6. Nat \subseteq M
  <2> HIDE DEF M
  <2> QED
    BY <1>4, <1>5, NatInductive
<1> DEFINE c(n) == CHOOSE h \in [0..n -> Acc] : Solves(h, n)
           f == [n \in Nat |-> c(n)[n]]
<1>7. \A n \in Nat : c(n) \in [0..n -> Acc] /\ Solves(c(n), n)
  <2> HIDE DEF Solves
  <2> QED
    BY <1>3
<1> HIDE DEF c
<1>8. f \in [Nat -> Acc]
  BY <1>7
<1>9. ASSUME NEW n \in Nat PROVE f[n] = IF n = 0 THEN x ELSE F[f[n - 1]]
  <2>1. n \in 0..n /\ c(n)[n] = IF n = 0 THEN x ELSE F[c(n)[n - 1]]
    BY <1>7
  <2>2. CASE n # 0
    <3> DEFINE m == n - 1
    <3>1. m \in Nat /\ m <= n /\ m <= m
      BY <2>2
    <3> HIDE DEF m
    <3>2. c(n)[m] = c(m)[m]
      <4> HIDE DEF Solves
      <4> QED
        BY <1>6, <1>7, <3>1
    <3> QED
      BY <2>1, <2>2, <3>1, <3>2 DEF m
  <2> QED
    BY <2>1, <2>2
<1>10. f = [n \in Nat |-> f[n]]
  OBVIOUS
<1> HIDE DEF f
<1>11. Iterates(f, F, x)
  BY <1>9, <1>10 DEF Iterates
<1> QED
  BY <1>8, <1>11

-----------------------------------------------------------------------------
(* Folds over a finite set.                                                *)

\* c says which element of each set is folded last.
Chooses(c, S) == \A T \in SUBSET S : T # {} => c[T] \in T

\* F takes what was made so far and an element.
Steps(F, Acc, Elem) == F \in [Acc \X Elem -> Acc]

FoldsSet(h, F, base, c, S, Acc) ==
    /\ h \in [SUBSET S -> Acc]
    /\ \A T \in SUBSET S :
           h[T] = IF T = {} THEN base ELSE F[<<h[T \ {c[T]}], c[T]>>]

(***************************************************************************)
(* Whatever order the elements are taken in, the equation of a fold has a  *)
(* solution, by induction on the size of the sets.                         *)
(***************************************************************************)
LEMMA FoldExists ==
    ASSUME NEW S, IsFiniteSet(S), NEW c, Chooses(c, S),
           NEW Acc, NEW base \in Acc, NEW F, Steps(F, Acc, S)
    PROVE  \E h : FoldsSet(h, F, base, c, S, Acc)
<1> DEFINE Upto(n) == {T \in SUBSET S : Cardinality(T) <= n}
           Solves(h, n) ==
               \A T \in Upto(n) : h[T] = IF T = {} THEN base ELSE F[<<h[T \ {c[T]}], c[T]>>]
           N == {n \in Nat : \E h \in [Upto(n) -> Acc] : Solves(h, n)}
<1>1. \A T \in SUBSET S : Cardinality(T) \in Nat /\ (Cardinality(T) = 0 <=> T = {})
  BY FS_Subset, FS_CardinalityType, FS_EmptySet
<1>2. ASSUME NEW T \in SUBSET S, T # {}
      PROVE  /\ c[T] \in T /\ T \ {c[T]} \in SUBSET S
             /\ Cardinality(T \ {c[T]}) = Cardinality(T) - 1
  BY <1>2, FS_Subset, FS_RemoveElement DEF Chooses
<1>3. 0 \in N
  <2>1. \A T \in Upto(0) : T = {}
    BY <1>1
  <2>2. [T \in Upto(0) |-> base] \in [Upto(0) -> Acc]
    OBVIOUS
  <2>3. Solves([T \in Upto(0) |-> base], 0)
    BY <2>1
  <2> QED
    BY <2>2, <2>3
<1>4. ASSUME NEW n \in Nat, n \in N PROVE n + 1 \in N
  <2>1. PICK g \in [Upto(n) -> Acc] : Solves(g, n)
    BY <1>4
  <2> DEFINE h == [T \in Upto(n + 1) |->
                      IF T \in Upto(n) THEN g[T] ELSE F[<<g[T \ {c[T]}], c[T]>>]]
  <2>2. \A T \in Upto(n + 1) : T # {} => T \ {c[T]} \in Upto(n) /\ c[T] \in S
    BY <1>1, <1>2
  <2>3. \A T \in Upto(n + 1) : T = {} => T \in Upto(n)
    BY <1>1
  <2>4. h \in [Upto(n + 1) -> Acc]
    BY <2>2, <2>3 DEF Steps
  <2>5. \A T \in Upto(n) : T \in Upto(n + 1) /\ h[T] = g[T]
    <3>1. \A T \in Upto(n) : T \in Upto(n + 1)
      BY <1>1
    <3> QED
      BY <3>1
  <2>6. Solves(h, n + 1)
    <3> SUFFICES ASSUME NEW T \in Upto(n + 1)
                 PROVE  h[T] = IF T = {} THEN base ELSE F[<<h[T \ {c[T]}], c[T]>>]
      OBVIOUS
    <3>1. CASE T = {}
      BY <2>1, <2>3, <2>5, <3>1
    <3>2. CASE T # {} /\ T \in Upto(n)
      <4>1. h[T] = g[T] /\ h[T \ {c[T]}] = g[T \ {c[T]}]
        BY <2>2, <2>5, <3>2
      <4>2. g[T] = F[<<g[T \ {c[T]}], c[T]>>]
        BY <2>1, <3>2
      <4> QED
        BY <3>2, <4>1, <4>2
    <3>3. CASE T # {} /\ T \notin Upto(n)
      <4>1. h[T \ {c[T]}] = g[T \ {c[T]}]
        BY <2>2, <2>5, <3>3
      <4>2. h[T] = F[<<g[T \ {c[T]}], c[T]>>]
        BY <3>3
      <4> QED
        BY <3>3, <4>1, <4>2
    <3> QED
      BY <3>1, <3>2, <3>3
  <2> HIDE DEF h, Upto, Solves
  <2> QED
    BY <2>4, <2>6
<1>5. Nat \subseteq N
  <2> HIDE DEF N
  <2> QED
    BY <1>3, <1>4, NatInductive
<1>6. Cardinality(S) \in Nat /\ SUBSET S = Upto(Cardinality(S))
  BY <1>1, FS_CardinalityType, FS_Subset
<1>7. PICK h \in [Upto(Cardinality(S)) -> Acc] : Solves(h, Cardinality(S))
  BY <1>5, <1>6
<1> QED
  BY <1>6, <1>7 DEF FoldsSet
-----------------------------------------------------------------------------
(* Folds over a sequence.                                                  *)

\* Folds over a sequence take its highest index last.
LEMMA MaxOfInterval ==
    ASSUME NEW n \in Nat
    PROVE  /\ \A T \in SUBSET (1..n) : T # {} => Max(T) \in T
           /\ n > 0 => Max(1..n) = n
<1> DEFINE Bounded(T) == \E x \in T : \A y \in T : x >= y
           N == {k \in Nat : \A T \in SUBSET (1..k) : T # {} => Bounded(T)}
<1>1. 0 \in N
  <2>1. 1..0 = {}
    OBVIOUS
  <2> QED
    BY <2>1
<1>2. ASSUME NEW k \in Nat, k \in N PROVE k + 1 \in N
  <2> SUFFICES ASSUME NEW T \in SUBSET (1..(k + 1)), T # {} PROVE Bounded(T)
    OBVIOUS
  <2>1. CASE k + 1 \in T
    BY <2>1
  <2>2. CASE k + 1 \notin T
    <3>1. T \subseteq 1..k
      BY <2>2
    <3> QED
      BY <3>1, <1>2
  <2> QED
    BY <2>1, <2>2
<1>3. Nat \subseteq N
  <2> HIDE DEF N
  <2> QED
    BY <1>1, <1>2, NatInductive
<1>4. \A T \in SUBSET (1..n) : T # {} => Max(T) \in T
  BY <1>3 DEF Max
<1>5. ASSUME n > 0 PROVE Max(1..n) = n
  <2>1. n \in 1..n /\ \A y \in 1..n : n >= y
    BY <1>5
  <2>2. Max(1..n) \in 1..n /\ \A y \in 1..n : Max(1..n) >= y
    BY <2>1 DEF Max
  <2> QED
    BY <2>1, <2>2
<1> QED
  BY <1>4, <1>5

\* The equation of FoldLeft, which takes the last element last.
FoldsLeft(h, F, base, s) ==
    h = [T \in SUBSET DOMAIN s |->
            IF T = {} THEN base ELSE F[<<h[T \ {Max(T)}], s[Max(T)]>>]]

\* The fold of a function: what the other lemmas reduce a fold to.
Folded(F, base, s) == FoldLeft(LAMBDA acc, x : F[<<acc, x>>], base, s)

\* h stays in Acc, where an operator need only agree with F.
FoldsWithin(h, s, Acc, Elem) ==
    \A T \in SUBSET DOMAIN s : T # {} => h[T \ {Max(T)}] \in Acc /\ s[Max(T)] \in Elem

(***************************************************************************)
(* The equation has a solution, for every operator that F agrees with on   *)
(* Acc and Elem.                                                           *)
(***************************************************************************)
LEMMA FoldLeftExists ==
    ASSUME NEW Acc, NEW Elem, NEW F, Steps(F, Acc, Elem),
           NEW base \in Acc, NEW s \in Seq(Elem)
    PROVE  \E h : FoldsLeft(h, F, base, s) /\ FoldsWithin(h, s, Acc, Elem)
<1> DEFINE n == Len(s)
           c == [T \in SUBSET (1..n) |-> Max(T)]
           G == [p \in Acc \X (1..n) |-> F[<<p[1], s[p[2]]>>]]
<1>1. n \in Nat /\ DOMAIN s = 1..n /\ IsFiniteSet(1..n)
  BY FS_Interval
<1>2. \A T \in SUBSET (1..n) : T # {} => c[T] = Max(T) /\ Max(T) \in T
  BY <1>1, MaxOfInterval
<1>3. Chooses(c, 1..n)
  BY <1>2 DEF Chooses
<1>4. Steps(G, Acc, 1..n)
  BY DEF Steps
<1>5. PICK h : FoldsSet(h, G, base, c, 1..n, Acc)
  <2> HIDE DEF c, G
  <2> QED
    BY <1>1, <1>3, <1>4, FoldExists
<1>6. ASSUME NEW T \in SUBSET (1..n), T # {}
      PROVE  /\ h[T \ {Max(T)}] \in Acc /\ s[Max(T)] \in Elem
             /\ h[T] = F[<<h[T \ {Max(T)}], s[Max(T)]>>]
  <2>1. c[T] = Max(T) /\ Max(T) \in 1..n /\ T \ {Max(T)} \in SUBSET (1..n)
    BY <1>2, <1>6
  <2>2. h[T \ {Max(T)}] \in Acc /\ s[Max(T)] \in Elem
    BY <1>5, <2>1 DEF FoldsSet
  <2>3. G[<<h[T \ {Max(T)}], Max(T)>>] = F[<<h[T \ {Max(T)}], s[Max(T)]>>]
    BY <2>1, <2>2
  <2>4. h[T] = G[<<h[T \ {Max(T)}], Max(T)>>]
    BY <1>5, <1>6, <2>1 DEF FoldsSet
  <2> QED
    BY <2>2, <2>3, <2>4
<1>7. FoldsLeft(h, F, base, s)
  BY <1>1, <1>5, <1>6 DEF FoldsLeft, FoldsSet
<1>8. FoldsWithin(h, s, Acc, Elem)
  BY <1>1, <1>6 DEF FoldsWithin
<1> QED
  BY <1>7, <1>8

\* The function that the definition of Folded chooses.
LEMMA FoldedChosen ==
    ASSUME NEW Acc, NEW Elem, NEW F, Steps(F, Acc, Elem),
           NEW base \in Acc, NEW s \in Seq(Elem)
    PROVE  \E h : /\ Folded(F, base, s) = h[1..Len(s)]
                  /\ FoldsLeft(h, F, base, s)
<1> DEFINE h == CHOOSE f : FoldsLeft(f, F, base, s)
<1>1. Folded(F, base, s) = h[DOMAIN s]
  BY DEF Folded, FoldLeft, MapThenFoldSet, FoldsLeft
<1>2. \E f : FoldsLeft(f, F, base, s)
  BY FoldLeftExists
<1>3. FoldsLeft(h, F, base, s)
  BY <1>2
<1>4. DOMAIN s = 1..Len(s)
  OBVIOUS
<1> QED
  BY <1>1, <1>3, <1>4

\* What the equation says of the prefixes of s.
FoldsPrefixes(h, F, base, s, Acc) ==
    /\ h[1..0] = base
    /\ \A i \in 1..Len(s) : h[1..(i - 1)] \in Acc => h[1..i] = F[<<h[1..(i - 1)], s[i]>>]

LEMMA LastOfPrefix ==
    ASSUME NEW Elem, NEW s \in Seq(Elem)
    PROVE  /\ 1..0 = {} /\ 1..0 \in SUBSET DOMAIN s /\ DOMAIN s = 1..Len(s)
           /\ \A i \in 1..Len(s) :
                  /\ 1..i \in SUBSET DOMAIN s /\ 1..i # {} /\ Max(1..i) = i
                  /\ (1..i) \ {i} = 1..(i - 1)
<1>1. 1..0 = {} /\ Len(s) \in Nat /\ DOMAIN s = 1..Len(s)
  OBVIOUS
<1>2. ASSUME NEW i \in 1..Len(s)
      PROVE  /\ 1..i \in SUBSET DOMAIN s /\ 1..i # {} /\ Max(1..i) = i
             /\ (1..i) \ {i} = 1..(i - 1)
  <2>1. 1..i \in SUBSET DOMAIN s /\ 1..i # {} /\ Max(1..i) = i
    BY <1>1, MaxOfInterval
  <2>2. (1..i) \ {i} = 1..(i - 1)
    OBVIOUS
  <2> QED
    BY <2>1, <2>2
<1> QED
  BY <1>1, <1>2

LEMMA PrefixEquation ==
    ASSUME NEW base, NEW Elem, NEW s \in Seq(Elem), NEW F, NEW Acc,
           NEW h, FoldsLeft(h, F, base, s)
    PROVE  FoldsPrefixes(h, F, base, s, Acc)
<1>1. h[1..0] = base
  BY LastOfPrefix DEF FoldsLeft
<1>2. ASSUME NEW i \in 1..Len(s) PROVE h[1..i] = F[<<h[1..(i - 1)], s[i]>>]
  BY LastOfPrefix DEF FoldsLeft
<1> QED
  BY <1>1, <1>2 DEF FoldsPrefixes

(***************************************************************************)
(* Whatever follows the equation on the prefixes of s is the fold.         *)
(***************************************************************************)
LEMMA FoldedIs ==
    ASSUME NEW Acc, NEW Elem, NEW F, Steps(F, Acc, Elem),
           NEW base \in Acc, NEW s \in Seq(Elem), NEW h, FoldsPrefixes(h, F, base, s, Acc)
    PROVE  h[1..Len(s)] = Folded(F, base, s) /\ Folded(F, base, s) \in Acc
<1>1. PICK k : /\ Folded(F, base, s) = k[1..Len(s)]
               /\ FoldsLeft(k, F, base, s)
  BY FoldedChosen
<1>2. FoldsPrefixes(k, F, base, s, Acc)
  BY <1>1, PrefixEquation
<1> DEFINE N == {n \in Nat : n <= Len(s) => h[1..n] = k[1..n] /\ k[1..n] \in Acc}
<1>3. 0 \in N
  BY <1>2 DEF FoldsPrefixes
<1>4. ASSUME NEW n \in Nat, n \in N PROVE n + 1 \in N
  <2> SUFFICES ASSUME n + 1 <= Len(s)
               PROVE  h[1..(n + 1)] = k[1..(n + 1)] /\ k[1..(n + 1)] \in Acc
    OBVIOUS
  <2>1. h[1..n] = k[1..n] /\ k[1..n] \in Acc
    BY <1>4
  <2>2. n + 1 \in 1..Len(s) /\ (n + 1) - 1 = n /\ s[n + 1] \in Elem
    OBVIOUS
  <2>3. h[1..(n + 1)] = F[<<h[1..n], s[n + 1]>>] /\ k[1..(n + 1)] = F[<<k[1..n], s[n + 1]>>]
    BY <1>2, <2>1, <2>2 DEF FoldsPrefixes
  <2> QED
    BY <2>1, <2>2, <2>3 DEF Steps
<1>5. Nat \subseteq N
  <2> HIDE DEF N
  <2> QED
    BY <1>3, <1>4, NatInductive
<1>6. Len(s) \in N
  BY <1>5
<1> QED
  BY <1>1, <1>6

(***************************************************************************)
(* A fold of nothing, of one element more, and of two sequences in turn.   *)
(***************************************************************************)
LEMMA FoldedType ==
    ASSUME NEW Acc, NEW Elem, NEW F, Steps(F, Acc, Elem),
           NEW base \in Acc, NEW s \in Seq(Elem)
    PROVE  Folded(F, base, s) \in Acc
<1>1. PICK h : FoldsLeft(h, F, base, s)
  BY FoldedChosen
<1>2. FoldsPrefixes(h, F, base, s, Acc)
  BY <1>1, PrefixEquation
<1> QED
  BY <1>2, FoldedIs

LEMMA FoldedEmpty ==
    ASSUME NEW Acc, NEW Elem, NEW F, Steps(F, Acc, Elem), NEW base \in Acc
    PROVE  Folded(F, base, <<>>) = base
<1>1. <<>> \in Seq(Elem) /\ Len(<<>>) = 0
  OBVIOUS
<1>2. PICK h : Folded(F, base, <<>>) = h[1..Len(<<>>)] /\ FoldsLeft(h, F, base, <<>>)
  BY <1>1, FoldedChosen
<1>3. FoldsPrefixes(h, F, base, <<>>, Acc)
  BY <1>1, <1>2, PrefixEquation
<1> QED
  BY <1>1, <1>2, <1>3 DEF FoldsPrefixes

LEMMA FoldedAppend ==
    ASSUME NEW Acc, NEW Elem, NEW F, Steps(F, Acc, Elem),
           NEW base \in Acc, NEW s \in Seq(Elem), NEW x \in Elem
    PROVE  Folded(F, base, Append(s, x)) = F[<<Folded(F, base, s), x>>]
<1> DEFINE t == Append(s, x)
<1>1. /\ t \in Seq(Elem) /\ Len(t) = Len(s) + 1 /\ Len(s) \in Nat
      /\ t[Len(s) + 1] = x /\ \A i \in 1..Len(s) : t[i] = s[i]
  OBVIOUS
<1> HIDE DEF t
<1>2. PICK h : Folded(F, base, t) = h[1..Len(t)] /\ FoldsLeft(h, F, base, t)
  BY <1>1, FoldedChosen
<1>3. FoldsPrefixes(h, F, base, t, Acc)
  BY <1>1, <1>2, PrefixEquation
<1>4. FoldsPrefixes(h, F, base, s, Acc)
  BY <1>1, <1>3 DEF FoldsPrefixes
<1>5. h[1..Len(s)] = Folded(F, base, s) /\ h[1..Len(s)] \in Acc
  BY <1>4, FoldedIs
<1>6. h[1..(Len(s) + 1)] = F[<<h[1..Len(s)], x>>]
  BY <1>1, <1>3, <1>5 DEF FoldsPrefixes
<1> QED
  BY <1>1, <1>2, <1>5, <1>6 DEF t

LEMMA FoldedConcat ==
    ASSUME NEW Acc, NEW Elem, NEW F, Steps(F, Acc, Elem),
           NEW base \in Acc, NEW s \in Seq(Elem), NEW t \in Seq(Elem)
    PROVE  Folded(F, base, s \o t) = Folded(F, Folded(F, base, s), t)
<1> DEFINE G == Folded(F, base, s)
           T == {u \in Seq(Elem) : Folded(F, base, s \o u) = Folded(F, G, u)}
<1>1. G \in Acc
  BY FoldedType
<1>2. <<>> \in T
  <2>1. Folded(F, G, <<>>) = G
    <3> HIDE DEF G
    <3> QED
      BY <1>1, FoldedEmpty
  <2>2. s \o <<>> = s /\ <<>> \in Seq(Elem)
    OBVIOUS
  <2> QED
    BY <2>1, <2>2
<1>3. ASSUME NEW u \in Seq(Elem), NEW x \in Elem, u \in T PROVE Append(u, x) \in T
  <2>1. s \o Append(u, x) = Append(s \o u, x) /\ s \o u \in Seq(Elem)
    OBVIOUS
  <2>2. Folded(F, base, Append(s \o u, x)) = F[<<Folded(F, base, s \o u), x>>]
    <3> DEFINE v == s \o u
    <3> HIDE DEF v
    <3>1. v \in Seq(Elem)
      BY <2>1 DEF v
    <3>2. Folded(F, base, Append(v, x)) = F[<<Folded(F, base, v), x>>]
      BY <3>1, FoldedAppend
    <3> QED
      BY <3>2 DEF v
  <2>3. Folded(F, G, Append(u, x)) = F[<<Folded(F, G, u), x>>]
    <3> HIDE DEF G
    <3> QED
      BY <1>1, FoldedAppend
  <2>4. Append(u, x) \in Seq(Elem)
    OBVIOUS
  <2> QED
    BY <1>3, <2>1, <2>2, <2>3, <2>4
<1>4. Seq(Elem) \subseteq T
  <2> HIDE DEF T
  <2> QED
    BY <1>2, <1>3, SeqInductive
<1> QED
  BY <1>4

-----------------------------------------------------------------------------
(* The last element of a sequence, which a fold takes last.                *)

LEMMA FrontLastOfAppend ==
    ASSUME NEW E, NEW s \in Seq(E), NEW e \in E
    PROVE  Front(Append(s, e)) = s /\ Last(Append(s, e)) = e
<1>1. Len(Append(s, e)) = Len(s) + 1 /\ Len(s) \in Nat /\ Append(s, e)[Len(s) + 1] = e
  BY AppendProperties, LenProperties
<1>2. SubSeq(Append(s, e), 1, Len(s)) = s
  OBVIOUS
<1> QED
  BY <1>1, <1>2 DEF Front, Last

LEMMA FrontLast ==
    ASSUME NEW E, NEW s \in Seq(E), s # <<>>
    PROVE  /\ Front(s) \in Seq(E) /\ Last(s) \in E
           /\ s = Append(Front(s), Last(s))
           /\ Len(s) \in Nat \ {0} /\ Len(Front(s)) = Len(s) - 1
<1>1. PICK t \in Seq(E), e \in E : s = Append(t, e)
  BY SequenceEmptyOrAppend
<1>2. Front(s) = t /\ Last(s) = e
  BY <1>1, FrontLastOfAppend
<1>3. Len(s) = Len(t) + 1 /\ Len(t) \in Nat
  BY <1>1, AppendProperties, LenProperties
<1> QED
  BY <1>1, <1>2, <1>3

LEMMA ExceptLast ==
    ASSUME NEW E, NEW s \in Seq(E), s # <<>>, NEW e \in E
    PROVE  [s EXCEPT ![Len(s)] = e] = Append(Front(s), e)
<1> DEFINE x == [s EXCEPT ![Len(s)] = e]
           a == Append(Front(s), e)
<1>1. /\ Front(s) \in Seq(E) /\ Len(s) \in Nat \ {0} /\ Len(Front(s)) = Len(s) - 1
      /\ s = Append(Front(s), Last(s)) /\ Last(s) \in E
  BY FrontLast
<1>2. /\ x \in Seq(E) /\ Len(x) = Len(s)
      /\ \A i \in 1..Len(s) : x[i] = IF i = Len(s) THEN e ELSE s[i]
  <2>1. Len(s) \in 1..Len(s)
    BY <1>1
  <2> QED
    BY <2>1, ExceptSeq
<1>3. /\ a \in Seq(E) /\ Len(a) = Len(s) /\ a[Len(s)] = e
      /\ \A i \in 1..(Len(s) - 1) : a[i] = Front(s)[i]
  <2>1. /\ a \in Seq(E) /\ Len(a) = Len(Front(s)) + 1 /\ a[Len(Front(s)) + 1] = e
        /\ \A i \in 1..Len(Front(s)) : a[i] = Front(s)[i]
    BY <1>1, AppendProperties
  <2> QED
    BY <1>1, <2>1
<1>4. \A i \in 1..(Len(s) - 1) : s[i] = Front(s)[i]
  BY <1>1, AppendProperties
<1> HIDE DEF x, a
<1>5. \A i \in 1..Len(x) : x[i] = a[i]
  BY <1>1, <1>2, <1>3, <1>4
<1>6. x = a
  BY <1>2, <1>3, <1>5, SeqEqual
<1> QED
  BY <1>6 DEF x, a

-----------------------------------------------------------------------------
(* Folds over a finite set of numbers, the highest last.                   *)

LEMMA MaxOfFinite ==
    ASSUME NEW S \in SUBSET Int, IsFiniteSet(S), S # {}
    PROVE  Max(S) \in S
<1> DEFINE N == {k \in Nat : \A T \in SUBSET Int :
                     IsFiniteSet(T) /\ T # {} /\ Cardinality(T) = k
                         => \E x \in T : \A y \in T : x >= y}
<1>1. 0 \in N
  BY FS_EmptySet
<1>2. ASSUME NEW k \in Nat, k \in N PROVE k + 1 \in N
  <2> SUFFICES ASSUME NEW T \in SUBSET Int, IsFiniteSet(T), T # {}, Cardinality(T) = k + 1
               PROVE  \E x \in T : \A y \in T : x >= y
    OBVIOUS
  <2>1. PICK t : t \in T
    OBVIOUS
  <2> DEFINE R == T \ {t}
  <2>2. IsFiniteSet(R) /\ Cardinality(R) = k /\ R \in SUBSET Int
    <3>1. IsFiniteSet(R) /\ Cardinality(R) = Cardinality(T) - 1
      BY ONLY IsFiniteSet(T), <2>1, FS_RemoveElement
    <3>2. R \in SUBSET Int
      OBVIOUS
    <3> HIDE DEF R
    <3> QED
      BY <3>1, <3>2
  <2>3. CASE R = {}
    BY <2>1, <2>3
  <2>4. CASE R # {}
    <3>1. PICK x \in R : \A y \in R : x >= y
      BY <1>2, <2>2, <2>4
    <3>2. CASE x >= t
      BY <3>1, <3>2
    <3>3. CASE t > x
      <4>1. \A y \in T : t >= y
        BY <2>1, <2>2, <3>1, <3>3
      <4> QED
        BY <2>1, <4>1
    <3> QED
      BY <2>1, <3>1, <3>2, <3>3
  <2> QED
    BY <2>3, <2>4
<1>3. Nat \subseteq N
  <2> HIDE DEF N
  <2> QED
    BY <1>1, <1>2, NatInductive
<1>4. Cardinality(S) \in N
  BY <1>3, FS_CardinalityType
<1> QED
  BY <1>4 DEF Max

\* What an equation says of the sets whose fold is in Acc so far.
FoldsSets(h, F, base, c, S, Acc) ==
    /\ h[{}] = base
    /\ \A T \in SUBSET S :
           T # {} /\ h[T \ {c[T]}] \in Acc => h[T] = F[<<h[T \ {c[T]}], c[T]>>]

(***************************************************************************)
(* Whatever follows the equation stays in Acc.                             *)
(***************************************************************************)
LEMMA FoldSetType ==
    ASSUME NEW S, IsFiniteSet(S), NEW c, Chooses(c, S),
           NEW Acc, NEW base \in Acc, NEW F, Steps(F, Acc, S),
           NEW h, FoldsSets(h, F, base, c, S, Acc)
    PROVE  h[S] \in Acc
<1> DEFINE N == {n \in Nat : \A T \in SUBSET S : Cardinality(T) = n => h[T] \in Acc}
<1>1. \A T \in SUBSET S : Cardinality(T) \in Nat /\ (Cardinality(T) = 0 <=> T = {})
  BY FS_Subset, FS_CardinalityType, FS_EmptySet
<1>2. ASSUME NEW T \in SUBSET S, T # {}
      PROVE  /\ c[T] \in T /\ T \ {c[T]} \in SUBSET S
             /\ Cardinality(T \ {c[T]}) = Cardinality(T) - 1
  BY <1>2, FS_Subset, FS_RemoveElement DEF Chooses
<1>3. 0 \in N
  BY <1>1 DEF FoldsSets
<1>4. ASSUME NEW n \in Nat, n \in N PROVE n + 1 \in N
  <2> SUFFICES ASSUME NEW T \in SUBSET S, Cardinality(T) = n + 1 PROVE h[T] \in Acc
    OBVIOUS
  <2>1. T # {}
    BY <1>1
  <2>2. c[T] \in T /\ h[T \ {c[T]}] \in Acc
    BY <1>2, <1>4, <2>1
  <2>3. h[T] = F[<<h[T \ {c[T]}], c[T]>>]
    BY <2>1, <2>2 DEF FoldsSets
  <2> QED
    BY <2>2, <2>3 DEF Steps
<1>5. Nat \subseteq N
  <2> HIDE DEF N
  <2> QED
    BY <1>3, <1>4, NatInductive
<1> QED
  BY <1>1, <1>5
===============================================================================
