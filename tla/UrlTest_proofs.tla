---------------------------- MODULE UrlTest_proofs ----------------------------
(***************************************************************************)
(* Theorems of UrlTest, for any outbounds and groups, however they hold    *)
(* each other, and any tests.  The search of urlTestGroupContains finds    *)
(* exactly what a group contains; with that, a group that has not yet seen *)
(* a new entry is always one that some test still has to do.  What         *)
(* AppendURLTestOptions puts on the wire is what urlTestOptionsFromRequest *)
(* takes off it.                                                           *)
(***************************************************************************)
EXTENDS UrlTest, FoldLemmas

-----------------------------------------------------------------------------
(* urlTestGroupContains.                                                   *)

\* The body of the search, and what says that a function is the search.
Finds(h, i, tag, s) ==
    LET member == AnyOf(s[1])
        others == s[1] \ {member}
        nested == h[<<Members[i][member], s[2] \union {member}>>]
    IN  IF s[1] = {} THEN [found |-> FALSE, visited |-> s[2]]
        ELSE IF member = tag THEN [found |-> TRUE, visited |-> s[2]]
        ELSE IF member \in s[2] \/ member \notin Groups(i) THEN h[<<others, s[2]>>]
        ELSE IF nested.found THEN nested ELSE h[<<others, nested.visited>>]

Search(h, i, tag) == h = [s \in (SUBSET Tag) \X (SUBSET Tag) |-> Finds(h, i, tag, s)]

\* The definition takes one function of which this equation holds.
LEMMA ChosenSearch ==
    ASSUME NEW i, NEW g, NEW tag, NEW visited
    PROVE  GroupContains(i, g, tag, visited) = (CHOOSE h : Search(h, i, tag))[<<Members[i][g], visited>>]
BY DEF GroupContains, Search, Finds

\* The members that are left and the visited tags, and what a search returns.
Searches == (SUBSET Tag) \X (SUBSET Tag)
Results == [found : BOOLEAN, visited : SUBSET Tag]

\* A search weighs the members it has left, and more for each tag not visited.
Weight(s) == Cardinality(Tag \ s[2]) * (Cardinality(Tag) + 1) + Cardinality(s[1])

\* A product is monotonic.
LEMMA Scaled ==
    ASSUME NEW a \in Nat, NEW b \in Nat, NEW c \in Nat, a <= b
    PROVE  a * c <= b * c /\ a * c \in Nat /\ b * c \in Nat
  BY Z3

(***************************************************************************)
(* A search goes on with fewer members of the same group, or into a group  *)
(* that was not visited before: it ends.                                   *)
(***************************************************************************)
LEMMA WeightFalls ==
    ASSUME IsFiniteSet(Tag), NEW s \in Searches
    PROVE  /\ Weight(s) \in Nat
           /\ \A rest \in SUBSET Tag, m \in s[1], seen \in SUBSET Tag :
                 s[2] \subseteq seen =>
                     /\ Weight(<<s[1] \ {m}, seen>>) < Weight(s)
                     /\ m \in seen /\ m \notin s[2] => Weight(<<rest, seen>>) < Weight(s)
<1> DEFINE N == Cardinality(Tag)
<1>1. \A T \in SUBSET Tag : IsFiniteSet(T) /\ Cardinality(T) \in Nat /\ Cardinality(T) <= N
  BY FS_Subset, FS_CardinalityType
<1>2. N \in Nat
  BY FS_CardinalityType
<1>3. s[1] \in SUBSET Tag /\ s[2] \in SUBSET Tag
  BY DEF Searches
<1> DEFINE a == Cardinality(Tag \ s[2])
           r == Cardinality(s[1])
<1>4. a \in Nat /\ r \in Nat /\ Weight(s) = a * (N + 1) + r /\ a * (N + 1) \in Nat
  <2>1. a \in Nat /\ r \in Nat
    BY <1>1, <1>3
  <2>2. Weight(s) = a * (N + 1) + r
    BY DEF Weight
  <2> HIDE DEF a, r, N
  <2> QED
    BY <1>2, <2>1, <2>2, Z3
<1>5. ASSUME NEW rest \in SUBSET Tag, NEW m \in s[1], NEW seen \in SUBSET Tag, s[2] \subseteq seen
      PROVE  /\ Weight(<<s[1] \ {m}, seen>>) < Weight(s)
             /\ m \in seen /\ m \notin s[2] => Weight(<<rest, seen>>) < Weight(s)
  <2> DEFINE b == Cardinality(Tag \ seen)
             q == Cardinality(rest)
  <2>1. b \in Nat /\ q \in Nat /\ q <= N
    BY <1>1
  <2>2. b <= a
    BY <1>1, <1>3, <1>5, FS_Subset
  <2>3. Cardinality(s[1] \ {m}) = r - 1 /\ r > 0
    <3>1. IsFiniteSet(s[1]) /\ s[1] # {}
      BY <1>1, <1>3
    <3>2. Cardinality(s[1] \ {m}) = r - 1
      BY <3>1, FS_RemoveElement
    <3>3. r # 0
      BY <3>1, FS_EmptySet
    <3> QED
      BY <1>4, <3>2, <3>3
  <2>4. /\ Weight(<<s[1] \ {m}, seen>>) = b * (N + 1) + Cardinality(s[1] \ {m})
        /\ Weight(<<rest, seen>>) = b * (N + 1) + q
    BY DEF Weight
  <2>5. ASSUME m \in seen, m \notin s[2] PROVE b < a
    <3>1. Tag \ seen \subseteq (Tag \ s[2]) \ {m}
      BY <1>5, <2>5
    <3>2. Cardinality((Tag \ s[2]) \ {m}) = a - 1
      BY <1>1, <1>3, <2>5, FS_RemoveElement
    <3>3. b <= Cardinality((Tag \ s[2]) \ {m})
      BY <1>1, <3>1, FS_Subset
    <3> QED
      BY <1>4, <2>1, <3>2, <3>3
  <2>6. b * (N + 1) <= a * (N + 1) /\ b * (N + 1) \in Nat
    <3> HIDE DEF a, b, N
    <3> QED
      BY <1>2, <1>4, <2>1, <2>2, Scaled
  <2>7. b < a => b * (N + 1) + N + 1 <= a * (N + 1)
    <3> HIDE DEF a, b, N
    <3> SUFFICES ASSUME b < a PROVE b * (N + 1) + N + 1 <= a * (N + 1)
      OBVIOUS
    <3>1. b + 1 <= a
      BY <1>4, <2>1
    <3>2. (b + 1) * (N + 1) <= a * (N + 1)
      BY <1>2, <1>4, <2>1, <3>1, Scaled
    <3>3. (b + 1) * (N + 1) = b * (N + 1) + N + 1
      BY <1>2, <2>1, Z3
    <3> QED
      BY <3>2, <3>3
  <2> DEFINE A == a * (N + 1)
             B == b * (N + 1)
  <2>8. A \in Nat /\ B \in Nat /\ B <= A /\ (b < a => B + N + 1 <= A)
    BY <1>4, <2>6, <2>7
  <2> HIDE DEF A, B, a, b, N
  <2>9. Weight(s) = A + r /\ Weight(<<s[1] \ {m}, seen>>) = B + (r - 1) /\ Weight(<<rest, seen>>) = B + q
    BY <1>4, <2>3, <2>4 DEF A, B
  <2> QED
    BY <1>2, <1>4, <2>1, <2>3, <2>5, <2>8, <2>9
<1>6. Weight(s) \in Nat
  BY <1>4
<1> QED
  BY <1>5, <1>6, Zenon

\* Searches that look into what is left of one search.
Rests(h, U) == \A t \in U : h[t] \in Results /\ t[2] \subseteq h[t].visited

Agree(h, k, U) == \A t \in U : k[t] = h[t]
Lighter(s) == {t \in Searches : Weight(t) < Weight(s)}

\* One turn needs the search only where it is lighter, and visits more.
LEMMA OneTurn ==
    ASSUME NEW i \in Instance, NEW tag, NEW s \in Searches,
           NEW h, NEW k, NEW U, Rests(h, U), Agree(h, k, U), Lighter(s) \subseteq U
    PROVE  /\ Finds(k, i, tag, s) = Finds(h, i, tag, s)
           /\ Finds(h, i, tag, s) \in Results
           /\ s[2] \subseteq Finds(h, i, tag, s).visited
<1> DEFINE member == AnyOf(s[1])
           others == s[1] \ {member}
           inner == <<Members[i][member], s[2] \union {member}>>
<1>1. s[1] \in SUBSET Tag /\ s[2] \in SUBSET Tag
  BY DEF Searches
<1>2. CASE s[1] = {}
  BY <1>1, <1>2 DEF Finds, Results
<1>3. CASE s[1] # {}
  <2>1. member \in s[1] /\ member \in Tag /\ Members[i][member] \in SUBSET Tag
    BY <1>1, <1>3, UrlTestAssumption DEF AnyOf
  <2>2. ASSUME NEW seen \in SUBSET Tag, s[2] \subseteq seen
        PROVE  <<others, seen>> \in U
    BY <1>1, <2>1, <2>2, WeightFalls, UrlTestAssumption DEF Searches, Lighter
  <2>3. /\ <<others, s[2]>> \in U /\ h[<<others, s[2]>>] \in Results
        /\ s[2] \subseteq h[<<others, s[2]>>].visited /\ k[<<others, s[2]>>] = h[<<others, s[2]>>]
    BY <1>1, <2>2 DEF Rests, Agree
  <2>4. CASE member = tag \/ member \in s[2] \/ member \notin Groups(i)
    <3> HIDE DEF others, member
    <3> QED
    BY <1>1, <1>3, <2>1, <2>3, <2>4 DEF Finds, Results, member, others
  <2>5. CASE ~(member = tag \/ member \in s[2] \/ member \notin Groups(i))
    <3>1. inner \in U
      BY <1>1, <2>1, <2>5, WeightFalls, UrlTestAssumption DEF Searches, Lighter
    <3>2. h[inner] \in Results /\ s[2] \subseteq h[inner].visited /\ k[inner] = h[inner]
      BY <3>1 DEF Rests, Agree
    <3> DEFINE seen == h[inner].visited
    <3>3. <<others, seen>> \in U
      BY <2>2, <3>2 DEF Results
    <3>4. /\ h[<<others, seen>>] \in Results /\ seen \subseteq h[<<others, seen>>].visited
          /\ k[<<others, seen>>] = h[<<others, seen>>]
      BY <3>3 DEF Rests, Agree
    <3>5. Finds(h, i, tag, s) = IF h[inner].found THEN h[inner] ELSE h[<<others, seen>>]
      BY <1>3, <2>5 DEF Finds
    <3>6. Finds(k, i, tag, s) = IF k[inner].found THEN k[inner] ELSE k[<<others, k[inner].visited>>]
      BY <1>3, <2>5 DEF Finds
    <3> DEFINE x == h[inner]
               y == h[<<others, seen>>]
    <3>7. /\ x \in Results /\ s[2] \subseteq x.visited /\ y \in Results /\ x.visited \subseteq y.visited
          /\ Finds(h, i, tag, s) = (IF x.found THEN x ELSE y)
          /\ Finds(k, i, tag, s) = (IF x.found THEN x ELSE y)
      BY <3>2, <3>4, <3>5, <3>6
    <3> HIDE DEF x, y
    <3> QED
      BY <3>7
  <2> QED
    BY <2>4, <2>5
<1> QED
  BY <1>2, <1>3
(***************************************************************************)
(* The equation of the search has a solution, by induction on the weight.  *)
(***************************************************************************)
LEMMA SearchExists ==
    ASSUME NEW i \in Instance, NEW tag
    PROVE  \E h : Search(h, i, tag)
<1> DEFINE Below(n) == {s \in Searches : Weight(s) < n}
           Solves(h, n) == \A s \in Below(n) : h[s] = Finds(h, i, tag, s)
           N == {n \in Nat : \E h : Rests(h, Below(n)) /\ Solves(h, n)}
<1>1. \A s \in Searches : Weight(s) \in Nat
  BY WeightFalls, UrlTestAssumption
<1>2. 0 \in N
  <2>1. Below(0) = {}
    BY <1>1
  <2> QED
    BY <2>1 DEF Rests
<1>3. ASSUME NEW n \in Nat, n \in N PROVE n + 1 \in N
  <2>1. PICK h : Rests(h, Below(n)) /\ Solves(h, n)
    BY <1>3
  <2> DEFINE k == [s \in Below(n + 1) |-> IF s \in Below(n) THEN h[s] ELSE Finds(h, i, tag, s)]
  <2>2. \A s \in Below(n) : s \in Below(n + 1) /\ k[s] = h[s]
    BY <1>1
  <2>3. ASSUME NEW s \in Below(n + 1)
        PROVE  k[s] = Finds(k, i, tag, s) /\ k[s] \in Results /\ s[2] \subseteq k[s].visited
    <3>1. s \in Searches /\ \A t \in Searches : Weight(t) < Weight(s) => t \in Below(n)
      BY <1>1
    <3>2. k[s] = Finds(h, i, tag, s)
      BY <2>1, <2>2
    <3> DEFINE U == Below(n)
    <3>3. Rests(h, U) /\ Agree(h, k, U) /\ Lighter(s) \subseteq U
      BY <2>1, <2>2, <3>1 DEF Agree, Lighter
    <3> HIDE DEF k, U
    <3>4. /\ Finds(k, i, tag, s) = Finds(h, i, tag, s)
          /\ Finds(h, i, tag, s) \in Results
          /\ s[2] \subseteq Finds(h, i, tag, s).visited
      BY <3>1, <3>3, OneTurn
    <3> QED
      BY <3>2, <3>4
  <2>4. Rests(k, Below(n + 1)) /\ Solves(k, n + 1)
    <3> HIDE DEF k, Below
    <3> QED
      BY <2>3 DEF Rests
  <2> HIDE DEF k, Solves, Below
  <2> QED
    BY <2>4
<1>4. Nat \subseteq N
  <2> HIDE DEF N
  <2> QED
    BY <1>2, <1>3, NatInductive
<1> DEFINE top == Weight(<<Tag, {}>>) + 1
<1>5. top \in Nat /\ \A s \in Searches : Weight(s) < top
  <2> SUFFICES ASSUME NEW s \in Searches PROVE top \in Nat /\ Weight(s) < top
    <3>1. <<Tag, {}>> \in Searches
      BY DEF Searches
    <3> QED
      BY <3>1
  <2> DEFINE c == Cardinality(Tag)
             a == Cardinality(Tag \ s[2])
             r == Cardinality(s[1])
  <2>1. s[1] \in SUBSET Tag /\ Tag \ s[2] \in SUBSET Tag /\ IsFiniteSet(Tag)
    BY UrlTestAssumption DEF Searches
  <2>2. c \in Nat /\ a \in Nat /\ r \in Nat /\ a <= c /\ r <= c
    BY <2>1, FS_Subset, FS_CardinalityType
  <2>3. Weight(s) = a * (c + 1) + r /\ Weight(<<Tag, {}>>) = c * (c + 1) + c
    <3>1. Tag \ {} = Tag
      OBVIOUS
    <3> QED
      BY <3>1 DEF Weight
  <2> DEFINE d == c + 1
  <2>4. d \in Nat /\ Weight(s) = a * d + r /\ Weight(<<Tag, {}>>) = c * d + c
    BY <2>2, <2>3
  <2> HIDE DEF c, a, r, d
  <2>5. a * d <= c * d /\ a * d \in Nat /\ c * d \in Nat
    BY <2>2, <2>4, Scaled
  <2> QED
    BY <2>2, <2>4, <2>5
<1>6. PICK h : Rests(h, Below(top)) /\ Solves(h, top)
  <2> HIDE DEF Below, Solves, top
  <2> QED
    BY <1>4, <1>5
<1>7. Below(top) = Searches
  BY <1>5
<1> DEFINE k == [s \in Searches |-> h[s]]
<1>8. ASSUME NEW s \in Searches PROVE k[s] = Finds(k, i, tag, s)
  <2>1. Rests(h, Searches) /\ Agree(h, k, Searches) /\ Lighter(s) \subseteq Searches
    BY <1>6, <1>7 DEF Agree, Lighter
  <2>3. k[s] = h[s] /\ h[s] = Finds(h, i, tag, s)
    BY <1>6, <1>7
  <2> HIDE DEF k
  <2>2. Finds(k, i, tag, s) = Finds(h, i, tag, s)
    BY <2>1, OneTurn
  <2> QED
    BY <2>2, <2>3
<1>9. k = [s \in Searches |-> Finds(k, i, tag, s)]
  <2>1. k = [s \in Searches |-> k[s]]
    OBVIOUS
  <2> HIDE DEF k
  <2> QED
    BY <1>8, <2>1
<1> QED
  BY <1>9 DEF Search, Searches
\* What a search that found nothing has seen, and where one found its tag.
Clear(i, tag, members, visited) == tag \notin members /\ members \intersect Groups(i) \subseteq visited

Outcome(i, tag, s, r) ==
    /\ r \in Results /\ s[2] \subseteq r.visited
    /\ ~r.found => /\ Clear(i, tag, s[1], r.visited)
                  /\ \A v \in r.visited \ s[2] : Clear(i, tag, Members[i][v], r.visited)
    /\ r.found => \A inside \in SUBSET Tag :
                     s[1] \subseteq inside /\ Closed(i, inside) => tag \in inside

\* One turn has the outcome if what it goes on with has.
LEMMA TurnsOut ==
    ASSUME NEW i \in Instance, NEW tag, NEW s \in Searches, NEW h,
           \A t \in Lighter(s) : Outcome(i, tag, t, h[t])
    PROVE  Outcome(i, tag, s, Finds(h, i, tag, s))
<1> DEFINE member == AnyOf(s[1])
           others == s[1] \ {member}
           inner == <<Members[i][member], s[2] \union {member}>>
           found == Finds(h, i, tag, s)
<1> SUFFICES Outcome(i, tag, s, found)
  OBVIOUS
<1>1. s[1] \in SUBSET Tag /\ s[2] \in SUBSET Tag
  BY DEF Searches
<1>2. CASE s[1] = {}
  <2>1. found = [found |-> FALSE, visited |-> s[2]]
    BY <1>2 DEF Finds
  <2> HIDE DEF found
  <2> QED
    BY <1>1, <1>2, <2>1 DEF Results, Outcome, Clear
<1>3. CASE s[1] # {} /\ member = tag
  <2>1. found = [found |-> TRUE, visited |-> s[2]] /\ tag \in s[1]
    BY <1>3 DEF Finds, AnyOf
  <2> HIDE DEF found
  <2> QED
    BY <1>1, <2>1 DEF Results, Outcome
<1>4. CASE s[1] # {} /\ member # tag
  <2>1. member \in s[1] /\ member \in Tag /\ Members[i][member] \in SUBSET Tag
    BY <1>1, <1>4, UrlTestAssumption DEF AnyOf
  <2>2. ASSUME NEW seen \in SUBSET Tag, s[2] \subseteq seen
        PROVE  Outcome(i, tag, <<others, seen>>, h[<<others, seen>>])
    BY <1>1, <2>1, <2>2, WeightFalls, UrlTestAssumption DEF Searches, Lighter
  <2>3. s[1] = others \union {member}
    BY <2>1
  <2>4. CASE member \in s[2] \/ member \notin Groups(i)
    <3>1. found = h[<<others, s[2]>>]
      BY <1>4, <2>4 DEF Finds
    <3>2. Outcome(i, tag, <<others, s[2]>>, found)
      BY <1>1, <2>2, <3>1
    <3> HIDE DEF found, others, member
    <3>3. /\ found \in Results /\ s[2] \subseteq found.visited
          /\ ~found.found => /\ Clear(i, tag, others, found.visited)
                            /\ \A v \in found.visited \ s[2] : Clear(i, tag, Members[i][v], found.visited)
          /\ found.found => \A inside \in SUBSET Tag :
                               others \subseteq inside /\ Closed(i, inside) => tag \in inside
      BY <3>2 DEF Outcome
    <3>4. ~found.found => Clear(i, tag, s[1], found.visited)
      BY <1>4, <2>3, <2>4, <3>3 DEF Clear
    <3>5. \A inside \in SUBSET Tag : s[1] \subseteq inside => others \subseteq inside
      BY <2>3
    <3> QED
      BY <3>3, <3>4, <3>5 DEF Outcome
  <2>5. CASE ~(member \in s[2] \/ member \notin Groups(i))
    <3> DEFINE nested == h[inner]
               rest == <<others, nested.visited>>
    <3>1. inner \in Lighter(s)
      BY <1>1, <2>1, <2>5, WeightFalls, UrlTestAssumption DEF Searches, Lighter
    <3>2. Outcome(i, tag, inner, nested)
      BY <3>1
    <3>3. /\ nested \in Results /\ s[2] \union {member} \subseteq nested.visited
          /\ ~nested.found =>
                /\ Clear(i, tag, Members[i][member], nested.visited)
                /\ \A v \in nested.visited \ (s[2] \union {member}) :
                       Clear(i, tag, Members[i][v], nested.visited)
          /\ nested.found => \A inside \in SUBSET Tag :
                Members[i][member] \subseteq inside /\ Closed(i, inside) => tag \in inside
      BY <3>2 DEF Outcome
    <3>4. found = IF nested.found THEN nested ELSE h[rest]
      BY <1>4, <2>5 DEF Finds
    <3>5. nested.visited \in SUBSET Tag /\ s[2] \subseteq nested.visited
      BY <3>3 DEF Results
    <3>6. Outcome(i, tag, rest, h[rest])
      BY <2>2, <3>5
    <3>7. CASE nested.found
      <4>1. found = nested
        BY <3>4, <3>7
      <4>2. ASSUME NEW inside \in SUBSET Tag, s[1] \subseteq inside, Closed(i, inside)
            PROVE  tag \in inside
        <5>1. Members[i][member] \subseteq inside
          BY <2>1, <4>2 DEF Closed
        <5> QED
          BY <3>3, <3>7, <4>2, <5>1
      <4> HIDE DEF found, nested, member
      <4> QED
        BY <3>3, <3>7, <4>1, <4>2 DEF Outcome
    <3>8. CASE ~nested.found
      <4>1. Outcome(i, tag, rest, found)
        BY <3>4, <3>6, <3>8
      <4> DEFINE seen == nested.visited
      <4> HIDE DEF found, nested, others, member
      <4>2. /\ found \in Results /\ seen \subseteq found.visited
            /\ ~found.found => /\ Clear(i, tag, others, found.visited)
                              /\ \A v \in found.visited \ seen : Clear(i, tag, Members[i][v], found.visited)
            /\ found.found => \A inside \in SUBSET Tag :
                                 others \subseteq inside /\ Closed(i, inside) => tag \in inside
        BY <4>1 DEF Outcome
      <4>3. ASSUME ~found.found PROVE Clear(i, tag, s[1], found.visited)
        BY <1>4, <2>3, <3>3, <4>2, <4>3 DEF Clear
      <4>4. ASSUME ~found.found, NEW v \in found.visited \ s[2]
            PROVE  Clear(i, tag, Members[i][v], found.visited)
        <5>1. CASE v \notin seen
          BY <4>2, <4>4, <5>1
        <5>2. CASE v \in seen
          <6>1. Clear(i, tag, Members[i][v], seen)
            BY <3>3, <3>8, <4>4, <5>2
          <6> QED
            BY <4>2, <6>1 DEF Clear
        <5> QED
          BY <5>1, <5>2
      <4>5. \A inside \in SUBSET Tag : s[1] \subseteq inside => others \subseteq inside
        BY <2>3
      <4>6. s[2] \subseteq found.visited
        BY <3>5, <4>2
      <4> QED
        BY <4>2, <4>3, <4>4, <4>5, <4>6 DEF Outcome
    <3> QED
      BY <3>7, <3>8
  <2> QED
    BY <2>4, <2>5
<1> QED
  BY <1>2, <1>3, <1>4

\* So has every search, by induction on the weight.
LEMMA SearchOutcome ==
    ASSUME NEW i \in Instance, NEW tag, NEW h, Search(h, i, tag), NEW s \in Searches
    PROVE  Outcome(i, tag, s, h[s])
<1> DEFINE N == {n \in Nat : \A t \in Searches : Weight(t) < n => Outcome(i, tag, t, h[t])}
<1>1. \A t \in Searches : Weight(t) \in Nat
  BY WeightFalls, UrlTestAssumption
<1>2. 0 \in N
  BY <1>1
<1>3. ASSUME NEW n \in Nat, n \in N PROVE n + 1 \in N
  <2> SUFFICES ASSUME NEW t \in Searches, Weight(t) < n + 1
               PROVE  Outcome(i, tag, t, h[t])
    OBVIOUS
  <2>1. \A u \in Lighter(t) : Outcome(i, tag, u, h[u])
    <3>1. \A u \in Lighter(t) : u \in Searches /\ Weight(u) < n
      BY <1>1 DEF Lighter
    <3> QED
      BY <1>3, <3>1
  <2>2. h[t] = Finds(h, i, tag, t)
    BY DEF Search, Searches
  <2> QED
    BY <2>1, <2>2, TurnsOut
<1>4. Nat \subseteq N
  <2> HIDE DEF N
  <2> QED
    BY <1>2, <1>3, NatInductive
<1>5. Weight(s) + 1 \in Nat /\ Weight(s) < Weight(s) + 1
  BY <1>1
<1> QED
  BY <1>4, <1>5

(***************************************************************************)
(* url_test_options.go:159: whatever was visited on the way, the search    *)
(* finds a tag in a group exactly if it is a member, or contained in a     *)
(* member; groups that hold each other do not keep it from ending.         *)
(***************************************************************************)
THEOREM ContainsExactly ==
    ASSUME NEW i \in Instance, NEW g \in Tag, NEW tag \in Tag
    PROVE  tag \in Within[i][g] <=> GroupContains(i, g, tag, {g}).found
<1> DEFINE h == CHOOSE f : Search(f, i, tag)
           s == <<Members[i][g], {g}>>
           r == h[s]
<1>1. Search(h, i, tag)
  BY SearchExists
<1>2. GroupContains(i, g, tag, {g}) = r
  BY ChosenSearch
<1>3. Members[i][g] \in SUBSET Tag /\ s \in Searches
  BY UrlTestAssumption DEF Searches
<1>4. Outcome(i, tag, s, r)
  <2> HIDE DEF h, s
  <2> QED
    BY <1>1, <1>3, SearchOutcome
<1> HIDE DEF h
<1>5. /\ r \in Results /\ g \in r.visited
      /\ ~r.found => /\ Clear(i, tag, Members[i][g], r.visited)
                    /\ \A v \in r.visited \ {g} : Clear(i, tag, Members[i][v], r.visited)
      /\ r.found => \A inside \in SUBSET Tag :
                       Members[i][g] \subseteq inside /\ Closed(i, inside) => tag \in inside
  BY <1>4 DEF Outcome
<1>6. tag \in Within[i][g] <=> \A inside \in SUBSET Tag :
          Members[i][g] \subseteq inside /\ Closed(i, inside) => tag \in inside
  BY DEF Within
<1> HIDE DEF r
<1>7. CASE r.found
  BY <1>2, <1>5, <1>6, <1>7
<1>8. CASE ~r.found
  <2> DEFINE inside == UNION {Members[i][v] : v \in r.visited}
  <2>1. r.visited \in SUBSET Tag
    BY <1>5 DEF Results
  <2>2. inside \in SUBSET Tag /\ Members[i][g] \subseteq inside
    BY <1>5, <2>1, UrlTestAssumption
  <2>3. \A v \in r.visited : Clear(i, tag, Members[i][v], r.visited)
    BY <1>5, <1>8
  <2>4. tag \notin inside
    BY <2>3 DEF Clear
  <2>5. Closed(i, inside)
    <3> SUFFICES ASSUME NEW m \in inside PROVE Members[i][m] \subseteq inside
      BY DEF Closed
    <3>1. m \in Tag
      BY <2>2
    <3>2. CASE m \in Groups(i)
      <4>1. m \in r.visited
        BY <2>3, <3>2 DEF Clear
      <4> QED
        BY <4>1
    <3>3. CASE m \notin Groups(i)
      BY <3>1, <3>3, UrlTestAssumption DEF Groups
    <3> QED
      BY <3>2, <3>3
  <2> HIDE DEF inside
  <2>6. tag \notin Within[i][g]
    BY <1>6, <2>2, <2>4, <2>5
  <2>7. ~GroupContains(i, g, tag, {g}).found
    BY <1>2, <1>8
  <2> QED
    BY <2>6, <2>7
<1> QED
  BY <1>7, <1>8

-----------------------------------------------------------------------------
(* The options on the wire.                                                *)

\* What a request decodes to so far.
Decoding == [valid : BOOLEAN, loaded : BOOLEAN, options : Options]
NothingYet == [valid |-> TRUE, loaded |-> FALSE, options |-> NoOptions]

\* The fields that AppendOptions may attach.
OwnField == {Field("link", "bytes", link) : link \in Links \union {None}}
          \union {Field("timeout", "varint", timeout) : timeout \in 0..MaxTimeout}
          \union {Field("flags", "varint", flags) : flags \in 0..FlagRange}

ConsumeStep == [p \in Decoding \X OwnField |-> Consume(p[1], p[2])]

\* What fits a width is not changed by it.
LEMMA Small ==
    ASSUME NEW n \in Nat, NEW x \in 0..n
    PROVE  x % (n + 1) = x /\ (IF x < n THEN x ELSE n) = x
<1>1. x % (n + 1) = x
  BY Z3
<1>2. (IF x < n THEN x ELSE n) = x
  OBVIOUS
<1> QED
  BY <1>1, <1>2

\* The values of the wrapper fit.
LEMMA Narrowed ==
    ASSUME NEW link, NEW timeout \in 0..MaxTimeout, NEW flags \in 0..FlagRange
    PROVE  /\ Narrow(Field("link", "bytes", link)) = link
           /\ Narrow(Field("timeout", "varint", timeout)) = timeout
           /\ Narrow(Field("flags", "varint", flags)) = flags
<1>1. Narrow(Field("link", "bytes", link)) = link
  BY DEF Narrow, Field
<1>2. Narrow(Field("timeout", "varint", timeout)) = timeout
  <2>1. Narrow(Field("timeout", "varint", timeout)) = IF timeout < MaxTimeout THEN timeout ELSE MaxTimeout
    BY DEF Narrow, Field
  <2>2. MaxTimeout \in Nat
    BY UrlTestAssumption
  <2> QED
    BY <2>1, <2>2, Small
<1>3. Narrow(Field("flags", "varint", flags)) = flags
  <2>1. FlagRange \in Nat
    BY UrlTestAssumption
  <2>2. Narrow(Field("flags", "varint", flags)) = flags % (FlagRange + 1)
    BY DEF Narrow, Field
  <2> QED
    BY <2>1, <2>2, Small
<1> QED
  BY <1>1, <1>2, <1>3

\* A request that has said this much.
Says(link, timeout, flags) ==
    [valid |-> TRUE, loaded |-> TRUE, options |-> [link |-> link, timeout |-> timeout, flags |-> flags]]

\* Each field of the wrapper sets its option and no other.
LEMMA ConsumeOwn ==
    ASSUME NEW d \in Decoding, d.valid, NEW link \in Links \union {None},
           NEW timeout \in 0..MaxTimeout, NEW flags \in 0..FlagRange
    PROVE  /\ Consume(d, Field("link", "bytes", link)) = Says(link, d.options.timeout, d.options.flags)
           /\ Consume(d, Field("timeout", "varint", timeout)) = Says(d.options.link, timeout, d.options.flags)
           /\ Consume(d, Field("flags", "varint", flags)) = Says(d.options.link, d.options.timeout, flags)
<1>1. Consume(d, Field("link", "bytes", link)) = Says(link, d.options.timeout, d.options.flags)
  BY Narrowed DEF Consume, Field, WireType, Decoding, Options, Says
<1>2. Consume(d, Field("timeout", "varint", timeout)) = Says(d.options.link, timeout, d.options.flags)
  BY Narrowed DEF Consume, Field, WireType, Decoding, Options, Says
<1>3. Consume(d, Field("flags", "varint", flags)) = Says(d.options.link, d.options.timeout, flags)
  BY Narrowed DEF Consume, Field, WireType, Decoding, Options, Says
<1> QED
  BY <1>1, <1>2, <1>3

\* Decoding goes on.
LEMMA ConsumeStays ==
    ASSUME NEW d \in Decoding, NEW f \in OwnField
    PROVE  Consume(d, f) \in Decoding
<1>1. CASE ~d.valid
  <2>1. Consume(d, f) = [d EXCEPT !.valid = FALSE]
    BY <1>1 DEF Consume
  <2> QED
    BY <2>1 DEF Decoding
<1>2. CASE d.valid
  <2>1. /\ d.options.link \in Links \union {None} /\ d.options.timeout \in 0..MaxTimeout
        /\ d.options.flags \in 0..FlagRange
    BY DEF Decoding, Options
  <2>2. \A link \in Links \union {None}, timeout \in 0..MaxTimeout, flags \in 0..FlagRange :
            Says(link, timeout, flags) \in Decoding
    BY DEF Says, Decoding, Options
  <2>3. CASE \E link \in Links \union {None} : f = Field("link", "bytes", link)
    BY <1>2, <2>1, <2>2, <2>3, ConsumeOwn
  <2>4. CASE \E timeout \in 0..MaxTimeout : f = Field("timeout", "varint", timeout)
    BY <1>2, <2>1, <2>2, <2>4, ConsumeOwn
  <2>5. CASE \E flags \in 0..FlagRange : f = Field("flags", "varint", flags)
    BY <1>2, <2>1, <2>2, <2>5, ConsumeOwn
  <2> QED
    BY <2>3, <2>4, <2>5 DEF OwnField
<1> QED
  BY <1>1, <1>2 DEF Decoding

\* So the loop is a fold of a function ...
LEMMA ConsumeSteps == Steps(ConsumeStep, Decoding, OwnField) /\ NothingYet \in Decoding
<1>1. Steps(ConsumeStep, Decoding, OwnField)
  BY ConsumeStays DEF Steps, ConsumeStep
<1>2. NoOptions \in Options
  BY UrlTestAssumption DEF NoOptions, Options
<1>3. NothingYet \in Decoding
  BY <1>2 DEF NothingYet, Decoding
<1> QED
  BY <1>1, <1>3
\* ... and the decoder runs it over the fields of a request.
LEMMA ConsumeFolded ==
    ASSUME NEW wire \in Seq(OwnField)
    PROVE  FoldLeft(Consume, NothingYet, wire) = Folded(ConsumeStep, NothingYet, wire)
<1> DEFINE Solves(f) == f = [T \in SUBSET DOMAIN wire |->
               IF T = {} THEN NothingYet ELSE Consume(f[T \ {Max(T)}], wire[Max(T)])]
           h == CHOOSE f : Solves(f)
<1>1. FoldLeft(Consume, NothingYet, wire) = h[DOMAIN wire]
  BY DEF FoldLeft, MapThenFoldSet
<1>2. Solves(h)
  <2>1. PICK f : FoldsLeft(f, ConsumeStep, NothingYet, wire) /\ FoldsWithin(f, wire, Decoding, OwnField)
    BY ConsumeSteps, FoldLeftExists
  <2>2. Solves(f)
    BY <2>1 DEF FoldsLeft, FoldsWithin, ConsumeStep
  <2> HIDE DEF Solves
  <2> QED
    BY <2>2
<1> HIDE DEF h
<1>3. FoldsPrefixes(h, ConsumeStep, NothingYet, wire, Decoding)
  <2>1. h[1..0] = NothingYet
    BY <1>2, LastOfPrefix
  <2>2. ASSUME NEW i \in 1..Len(wire) PROVE h[1..i] = Consume(h[1..(i - 1)], wire[i])
    BY <1>2, LastOfPrefix
  <2>3. \A i \in 1..Len(wire) : wire[i] \in OwnField
    OBVIOUS
  <2> QED
    BY <2>1, <2>2, <2>3 DEF FoldsPrefixes, ConsumeStep
<1> QED
  BY <1>1, <1>3, ConsumeSteps, FoldedIs, LastOfPrefix

\* What a sequence of fields decodes to, field by field.
Decoded(wire) == Folded(ConsumeStep, NothingYet, wire)

\* A further field is consumed after the others.
LEMMA DecodedEquation ==
    /\ Decoded(<<>>) = NothingYet
    /\ \A wire \in Seq(OwnField) : Decoded(wire) \in Decoding
    /\ \A wire \in Seq(OwnField), f \in OwnField : Decoded(Append(wire, f)) = Consume(Decoded(wire), f)
<1>1. Decoded(<<>>) = NothingYet
  BY ConsumeSteps, FoldedEmpty DEF Decoded
<1>2. ASSUME NEW wire \in Seq(OwnField) PROVE Decoded(wire) \in Decoding
  BY ConsumeSteps, FoldedType DEF Decoded
<1>3. ASSUME NEW wire \in Seq(OwnField), NEW f \in OwnField
      PROVE  Decoded(Append(wire, f)) = Consume(Decoded(wire), f)
  <2>1. Decoded(Append(wire, f)) = ConsumeStep[<<Decoded(wire), f>>]
    BY ConsumeSteps, FoldedAppend DEF Decoded
  <2> QED
    BY <1>2, <2>1 DEF ConsumeStep
<1> QED
  BY <1>1, <1>2, <1>3

(***************************************************************************)
(* url_test_options.go:208, 231: the decoder takes off the wire what the   *)
(* encoder put on it, in every combination of fields that are sent and     *)
(* left out.                                                               *)
(***************************************************************************)
LEMMA DecodeAppended ==
    ASSUME NEW link \in Links \union {None}, NEW timeout \in -MaxTimeout - 1 .. MaxTimeout,
           NEW flags \in 0..FlagRange
    PROVE  Decode(AppendOptions(link, timeout, flags)) =
               [link |-> link, timeout |-> IF timeout > 0 THEN timeout ELSE 0, flags |-> flags]
<1> DEFINE l == Field("link", "bytes", link)
           t == Field("timeout", "varint", timeout)
           f == Field("flags", "varint", flags)
           none == <<>>
           a == IF link = None THEN none ELSE Append(none, l)
           b == IF timeout <= 0 THEN a ELSE Append(a, t)
           c == Append(b, f)
           time == IF timeout > 0 THEN timeout ELSE 0
<1>1. MaxTimeout \in Nat /\ FlagRange \in Nat
  BY UrlTestAssumption
<1>2. timeout > 0 => timeout \in 0..MaxTimeout
  BY <1>1
<1>3. l \in OwnField /\ f \in OwnField /\ (timeout > 0 => t \in OwnField)
  BY <1>2 DEF OwnField
<1>4. AppendOptions(link, timeout, flags) = c
  <2> HIDE DEF l, t, f
  <2>1. AppendOptions(link, timeout, flags) =
            (IF link = None THEN <<>> ELSE <<l>>) \o (IF timeout <= 0 THEN <<>> ELSE <<t>>) \o <<f>>
    BY DEF AppendOptions, l, t, f
  <2>2. /\ (<<>> \o <<>>) \o <<f>> = Append(<<>>, f)
        /\ (<<>> \o <<t>>) \o <<f>> = Append(Append(<<>>, t), f)
        /\ (<<l>> \o <<>>) \o <<f>> = Append(Append(<<>>, l), f)
        /\ (<<l>> \o <<t>>) \o <<f>> = Append(Append(Append(<<>>, l), t), f)
    OBVIOUS
  <2>3. CASE link = None
    BY <2>1, <2>2, <2>3, Zenon
  <2>4. CASE link # None
    BY <2>1, <2>2, <2>4, Zenon
  <2> QED
    BY <2>3, <2>4
<1>5. none \in Seq(OwnField) /\ Decoded(none) = NothingYet
  BY DecodedEquation
<1> HIDE DEF none
<1>6. /\ a \in Seq(OwnField) /\ Decoded(a) \in Decoding /\ Decoded(a).valid
      /\ Decoded(a).options = [link |-> link, timeout |-> 0, flags |-> 0]
  <2>1. NothingYet \in Decoding
    BY ConsumeSteps
  <2>2. CASE link = None
    <3>1. a = none
      BY <2>2
    <3>2. NothingYet.valid /\ NothingYet.options = [link |-> link, timeout |-> 0, flags |-> 0]
      BY <2>2 DEF NothingYet, NoOptions
    <3> HIDE DEF a
    <3> QED
      BY <1>5, <2>1, <3>1, <3>2
  <2>3. CASE link # None
    <3>1. Decoded(a) = Consume(NothingYet, l) /\ a \in Seq(OwnField)
      <4> HIDE DEF l
      <4> QED
        BY <1>3, <1>5, <2>3, DecodedEquation
    <3>2. Consume(NothingYet, l) = Says(link, 0, 0)
      <4>1. NothingYet.valid /\ NothingYet.options.timeout = 0 /\ NothingYet.options.flags = 0
        BY DEF NothingYet, NoOptions
      <4>2. 0 \in 0..MaxTimeout /\ 0 \in 0..FlagRange
        BY <1>1
      <4> QED
        BY <2>1, <4>1, <4>2, ConsumeOwn
    <3>3. Decoded(a) \in Decoding
      BY <3>1, DecodedEquation
    <3> QED
      BY <3>1, <3>2, <3>3 DEF Says
  <2> QED
    BY <2>2, <2>3
<1> HIDE DEF a
<1>7. /\ b \in Seq(OwnField) /\ Decoded(b) \in Decoding /\ Decoded(b).valid
      /\ Decoded(b).options = [link |-> link, timeout |-> time, flags |-> 0]
  <2>1. CASE timeout <= 0
    BY <1>6, <2>1
  <2>2. CASE ~(timeout <= 0)
    <3>1. b = Append(a, t) /\ t \in OwnField /\ timeout \in 0..MaxTimeout /\ time = timeout
      BY <1>2, <1>3, <2>2
    <3>2. Decoded(b) = Consume(Decoded(a), t) /\ b \in Seq(OwnField)
      <4> HIDE DEF t
      <4> QED
        BY <1>6, <3>1, DecodedEquation
    <3>3. Consume(Decoded(a), t) = Says(link, timeout, 0)
      <4>1. 0 \in 0..FlagRange
        BY <1>1
      <4> DEFINE d == Decoded(a)
      <4>2. /\ d \in Decoding /\ d.valid /\ d.options.link = link /\ d.options.flags = 0
            /\ timeout \in 0..MaxTimeout
        BY <1>6, <3>1
      <4> HIDE DEF d
      <4>3. Consume(d, t) = Says(d.options.link, timeout, d.options.flags)
        BY <4>1, <4>2, ConsumeOwn
      <4> QED
        BY <4>2, <4>3 DEF d
    <3>4. Decoded(b) \in Decoding
      BY <3>2, DecodedEquation
    <3> QED
      BY <3>1, <3>2, <3>3, <3>4 DEF Says
  <2> QED
    BY <2>1, <2>2
<1> HIDE DEF b
<1>8. Decoded(c) = Says(link, time, flags)
  <2>1. Decoded(c) = Consume(Decoded(b), f)
    <3> HIDE DEF f
    <3> QED
      BY <1>3, <1>7, DecodedEquation
  <2>2. time \in 0..MaxTimeout
    BY <1>1, <1>2
  <2>3. Consume(Decoded(b), f) = Says(Decoded(b).options.link, Decoded(b).options.timeout, flags)
    BY <1>7, <2>2, ConsumeOwn
  <2> QED
    BY <1>7, <2>1, <2>3
<1>9. c \in Seq(OwnField)
  <2> HIDE DEF f
  <2> QED
    BY <1>3, <1>7
<1>10. FoldLeft(Consume, NothingYet, c) = Says(link, time, flags)
  BY <1>8, <1>9, ConsumeFolded DEF Decoded
<1> HIDE DEF c, time
<1> QED
  BY <1>4, <1>10 DEF Decode, NothingYet, Says, time

-----------------------------------------------------------------------------
(* The invariant.                                                          *)

\* What was asked for is on the wire, and then in the options.
Told(x, r) ==
    r.asked # None =>
        IF r.at = "sent"
        THEN r.asked \in Asked[x] /\ r.wire = AppendOptions(r.asked.link, r.asked.timeout, r.asked.flags)
        ELSE /\ r.options # None
             /\ r.options.link = r.asked.link
             /\ r.options.flags = r.asked.flags
             /\ r.options.timeout = IF r.asked.timeout > 0 THEN r.asked.timeout ELSE 0

\* A test has the group still to do.
WillUpdate(r, i, g) == r.at = "update" /\ r.inst = i /\ g \in r.todo

\* An entry that a group has not seen will be seen: a test has it to do.
GroupsWillSee ==
    \A i \in Instance : \A g \in UrlTestGroups(i), t \in Tag :
        <<g, t>> \in behind[i] /\ t \in Within[i][g] => \E x \in Test : WillUpdate(test[x], i, g)

Locals == {"at", "wire", "asked", "options", "target", "inst", "detour", "network", "unified",
           "via", "ok", "todo"}

\* What the values of the variables are functions of.
Shaped == /\ DOMAIN history = Instance /\ DOMAIN behind = Instance /\ DOMAIN test = Test
          /\ \A x \in Test : DOMAIN test[x] = Locals

UrlTestInv == Shaped /\ (\A x \in Test : Told(x, test[x])) /\ GroupsWillSee

\* A test at rest has every local.
LEMMA LocalsOfNone == DOMAIN NoTest = Locals
  BY DEF NoTest, Locals

\* No test has begun.
LEMMA InitHolds == Init => UrlTestInv
<1> SUFFICES ASSUME Init PROVE UrlTestInv
  OBVIOUS
<1>1. Shaped
  BY LocalsOfNone DEF Init, Shaped
<1>2. \A x \in Test : Told(x, test[x])
  BY DEF Init, Told, NoTest
<1>3. GroupsWillSee
  BY DEF Init, GroupsWillSee
<1> QED
  BY <1>1, <1>2, <1>3 DEF UrlTestInv

\* A step of one test that leaves the groups alone.
Quiet(x, r) ==
    /\ test' = [test EXCEPT ![x] = r] /\ DOMAIN r = Locals /\ Told(x, r)
    /\ test[x].at = "update" => test[x].todo = {}
    /\ UNCHANGED <<history, behind>>

\* Such a step keeps the invariant.
LEMMA QuietKeeps ==
    ASSUME UrlTestInv, NEW x \in Test, NEW r, Quiet(x, r)
    PROVE  UrlTestInv'
<1>1. DOMAIN test' = Test /\ test'[x] = r /\ \A y \in Test \ {x} : test'[y] = test[y]
  BY DEF UrlTestInv, Shaped, Quiet
<1>2. Shaped'
  BY <1>1 DEF UrlTestInv, Shaped, Quiet
<1>3. \A y \in Test : Told(y, test'[y])
  BY <1>1 DEF UrlTestInv, Quiet
<1>4. GroupsWillSee'
  <2> SUFFICES ASSUME NEW i \in Instance, NEW g \in UrlTestGroups(i), NEW t \in Tag,
                      <<g, t>> \in behind'[i], t \in Within[i][g]
               PROVE  \E y \in Test : WillUpdate(test'[y], i, g)
    BY DEF GroupsWillSee, UrlTestGroups, Within, Closed
  <2>1. PICK y \in Test : WillUpdate(test[y], i, g)
    BY DEF UrlTestInv, GroupsWillSee, Quiet
  <2>2. y # x
    BY <2>1 DEF WillUpdate, Quiet
  <2> QED
    BY <1>1, <2>1, <2>2
<1>5. (\A y \in Test : Told(y, test[y]))'
  BY <1>3 DEF Told
<1> QED
  BY <1>2, <1>4, <1>5 DEF UrlTestInv

\* Sending puts on the wire what is asked for.
LEMMA SendQuiet ==
    ASSUME UrlTestInv, NEW x \in Test, Send(x) \/ SendOther(x)
    PROVE  \E r : Quiet(x, r)
<1>1. CASE Send(x)
  <2>1. PICK ask \in Asked[x] :
           test' = [test EXCEPT ![x] = [NoTest EXCEPT
               !.at = "sent", !.target = ask.target, !.asked = ask,
               !.wire = AppendOptions(ask.link, ask.timeout, ask.flags)]]
    BY <1>1 DEF Send
  <2> DEFINE r == [NoTest EXCEPT
               !.at = "sent", !.target = ask.target, !.asked = ask,
               !.wire = AppendOptions(ask.link, ask.timeout, ask.flags)]
  <2>2. DOMAIN r = Locals
    BY LocalsOfNone
  <2>3. r.at = "sent" /\ r.asked = ask /\ r.wire = AppendOptions(ask.link, ask.timeout, ask.flags)
    BY DEF NoTest
  <2>4. test' = [test EXCEPT ![x] = r] /\ test[x].at = "idle" /\ UNCHANGED <<history, behind>>
    BY <1>1, <2>1 DEF Send, Rest
  <2> HIDE DEF r
  <2>5. Told(x, r)
    BY <2>3 DEF Told
  <2> QED
    BY <2>2, <2>4, <2>5 DEF Quiet
<1>2. CASE SendOther(x)
  <2>1. PICK wire \in Wires[x] : test' = [test EXCEPT ![x] = [NoTest EXCEPT !.at = "sent", !.wire = wire]]
    BY <1>2 DEF SendOther
  <2> DEFINE r == [NoTest EXCEPT !.at = "sent", !.wire = wire]
  <2>2. DOMAIN r = Locals
    BY LocalsOfNone
  <2>3. r.asked = None
    BY DEF NoTest
  <2>4. test' = [test EXCEPT ![x] = r] /\ test[x].at = "idle" /\ UNCHANGED <<history, behind>>
    BY <1>2, <2>1 DEF SendOther, Rest
  <2> HIDE DEF r
  <2>5. Told(x, r)
    BY <2>3 DEF Told
  <2> QED
    BY <2>2, <2>4, <2>5 DEF Quiet
<1> QED
  BY <1>1, <1>2

\* A test that ends is at rest, and asks for nothing.
LEMMA EndQuiet ==
    ASSUME NEW x \in Test, NEW how, End(x, how), UNCHANGED <<history, behind>>,
           test[x].at = "update" => test[x].todo = {}
    PROVE  \E r : Quiet(x, r)
<1> DEFINE r == [NoTest EXCEPT !.at = how]
<1>1. DOMAIN r = Locals
  BY LocalsOfNone
<1>2. r.asked = None
  BY DEF NoTest
<1>3. test' = [test EXCEPT ![x] = r]
  BY DEF End
<1> HIDE DEF r
<1>4. Told(x, r)
  BY <1>2 DEF Told
<1> QED
  BY <1>1, <1>3, <1>4 DEF Quiet

\* Decoding takes off the wire what was asked for.
LEMMA ReceiveQuiet ==
    ASSUME UrlTestInv, NEW x \in Test, Receive(x)
    PROVE  \E r : Quiet(x, r)
<1> DEFINE options == Decode(test[x].wire)
           at == IF options = None THEN "stock" ELSE "look"
           r == [test[x] EXCEPT !.at = at, !.wire = <<>>, !.options = options]
<1>1. DOMAIN test = Test /\ DOMAIN test[x] = Locals /\ Told(x, test[x])
  BY DEF UrlTestInv, Shaped
<1>2. test[x].at = "sent" /\ UNCHANGED <<history, behind>>
  BY DEF Receive, Rest
<1>3. test' = [test EXCEPT ![x] = r]
  BY <1>1 DEF Receive
<1>4. DOMAIN r = Locals
  BY <1>1
<1>5. r.at = at /\ r.asked = test[x].asked /\ r.options = options
  BY <1>1 DEF Locals
<1>6. ASSUME r.asked # None
      PROVE  /\ options # None
             /\ options.link = r.asked.link /\ options.flags = r.asked.flags
             /\ options.timeout = IF r.asked.timeout > 0 THEN r.asked.timeout ELSE 0
  <2> DEFINE asked == test[x].asked
             said == [link |-> asked.link, timeout |-> IF asked.timeout > 0 THEN asked.timeout ELSE 0,
                      flags |-> asked.flags]
  <2>1. /\ r.asked = asked /\ asked \in Asked[x]
        /\ test[x].wire = AppendOptions(asked.link, asked.timeout, asked.flags)
    BY <1>1, <1>2, <1>5, <1>6 DEF Told
  <2>2. /\ MaxTimeout \in Nat /\ FlagRange \in Nat \ 0..2 /\ None \notin Options
        /\ Asked[x] \subseteq [target: Tag \union {None}, link: Links \union {None},
                               timeout: -MaxTimeout - 1 .. MaxTimeout,
                               flags: {0, Unified, Ignore, Unified + Ignore}]
    BY UrlTestAssumption
  <2>3. /\ asked.link \in Links \union {None} /\ asked.timeout \in -MaxTimeout - 1 .. MaxTimeout
        /\ asked.flags \in 0..FlagRange
    BY <2>1, <2>2 DEF Unified, Ignore
  <2>4. options = said
    <3>1. options = Decode(AppendOptions(asked.link, asked.timeout, asked.flags))
      BY <2>1
    <3> DEFINE link == asked.link
               timeout == asked.timeout
               flags == asked.flags
    <3>2. link \in Links \union {None} /\ timeout \in -MaxTimeout - 1 .. MaxTimeout /\ flags \in 0..FlagRange
      BY <2>3
    <3> HIDE DEF link, timeout, flags
    <3>3. Decode(AppendOptions(link, timeout, flags)) =
              [link |-> link, timeout |-> IF timeout > 0 THEN timeout ELSE 0, flags |-> flags]
      BY <3>2, DecodeAppended
    <3> QED
      BY <3>1, <3>3 DEF link, timeout, flags
  <2>5. said \in Options
    BY <2>2, <2>3 DEF Options
  <2>6. options # None
    BY <2>2, <2>4, <2>5
  <2> HIDE DEF r, options, asked
  <2> QED
    BY <2>1, <2>4, <2>6
<1> HIDE DEF r, options
<1>7. at # "sent"
  OBVIOUS
<1>8. Told(x, r)
  <2> HIDE DEF at
  <2> QED
  BY <1>5, <1>6, <1>7 DEF Told
<1> QED
  BY <1>2, <1>3, <1>4, <1>8 DEF Quiet

\* A step keeps what the test was asked for, or drops it with the options.
LEMMA GotoQuiet ==
    ASSUME UrlTestInv, NEW x \in Test, NEW r,
           test' = [test EXCEPT ![x] = r], DOMAIN r = Locals, UNCHANGED <<history, behind>>,
           test[x].at \notin {"sent", "update"}, r.at # "sent",
           r.asked = None \/ (r.asked = test[x].asked /\ r.options = test[x].options)
    PROVE  \E q : Quiet(x, q)
<1>1. Told(x, test[x])
  BY DEF UrlTestInv
<1>2. Told(x, r)
  BY <1>1 DEF Told
<1> QED
  BY <1>2 DEF Quiet

\* Measuring changes nothing but the test.
LEMMA MeasureQuiet ==
    ASSUME UrlTestInv, NEW x \in Test, Warm(x) \/ Dial(x) \/ Head1(x) \/ Second(x) \/ Cut(x)
    PROVE  \E r : Quiet(x, r)
<1>1. DOMAIN test = Test /\ DOMAIN test[x] = Locals
  BY DEF UrlTestInv, Shaped
<1>2. UNCHANGED <<history, behind>>
  BY DEF Warm, Dial, Head1, Second, Cut, Rest
<1>3. CASE Warm(x)
  <2> DEFINE r == [test[x] EXCEPT !.at = "dial"]
  <2>1. test' = [test EXCEPT ![x] = r] /\ test[x].at = "warm"
    BY <1>1, <1>3 DEF Warm, Goto
  <2>2. DOMAIN r = Locals /\ r.at = "dial" /\ r.asked = test[x].asked /\ r.options = test[x].options
    BY <1>1 DEF Locals
  <2> HIDE DEF r
  <2> QED
    BY <1>2, <2>1, <2>2, GotoQuiet
<1>4. CASE Dial(x)
  <2> DEFINE via == Real(test[x].inst, test[x].detour, test[x].network)
             r == [test[x] EXCEPT !.at = "head", !.via = via]
  <2>1. test' = [test EXCEPT ![x] = r] /\ test[x].at = "dial"
    <3> HIDE DEF via
    <3>1. test' = [test EXCEPT ![x].at = "head", ![x].via = via] /\ test[x].at = "dial"
      BY <1>4 DEF Dial, via
    <3> QED
      BY <1>1, <3>1
  <2> HIDE DEF via
  <2>2. DOMAIN r = Locals /\ r.at = "head" /\ r.asked = test[x].asked /\ r.options = test[x].options
    BY <1>1 DEF Locals
  <2> HIDE DEF r
  <2> QED
    BY <1>2, <2>1, <2>2, GotoQuiet
<1>5. CASE Head1(x)
  <2> DEFINE at == IF test[x].unified THEN "second" ELSE "record"
             r == [test[x] EXCEPT !.at = at, !.ok = TRUE]
  <2>1. test' = [test EXCEPT ![x] = r] /\ test[x].at = "head"
    BY <1>1, <1>5 DEF Head1
  <2>2. DOMAIN r = Locals /\ r.at = at /\ r.asked = test[x].asked /\ r.options = test[x].options
    BY <1>1 DEF Locals
  <2>3. at # "sent"
    OBVIOUS
  <2> HIDE DEF r, at
  <2> QED
    BY <1>2, <2>1, <2>2, <2>3, GotoQuiet
<1>6. CASE Second(x) \/ Cut(x)
  <2> DEFINE r == [test[x] EXCEPT !.at = "record"]
  <2>1. test' = [test EXCEPT ![x] = r] /\ test[x].at \in {"second", "warm", "dial", "head"}
    BY <1>1, <1>6 DEF Second, Cut, Goto
  <2>2. DOMAIN r = Locals /\ r.at = "record" /\ r.asked = test[x].asked /\ r.options = test[x].options
    BY <1>1 DEF Locals
  <2> HIDE DEF r
  <2> QED
    BY <1>2, <2>1, <2>2, GotoQuiet
<1> QED
  BY <1>3, <1>4, <1>5, <1>6

\* Neither does looking for the target, twice.
LEMMA LookQuiet ==
    ASSUME UrlTestInv, NEW x \in Test, Look(x) \/ LookAgain(x)
    PROVE  \E r : Quiet(x, r)
<1>1. DOMAIN test = Test /\ DOMAIN test[x] = Locals
  BY DEF UrlTestInv, Shaped
<1>2. UNCHANGED <<history, behind>> /\ test[x].at \in {"look", "again"}
  BY DEF Look, LookAgain, Rest
<1>3. CASE End(x, "answered") \/ End(x, "stock")
  <2>1. test[x].at = "update" => test[x].todo = {}
    BY <1>2
  <2> QED
    BY <1>2, <1>3, <2>1, EndQuiet
<1>4. CASE Look(x) /\ ~(End(x, "answered") \/ End(x, "stock"))
  <2> DEFINE r == [test[x] EXCEPT !.at = "again", !.asked = None]
  <2>1. test' = [test EXCEPT ![x] = r]
    BY <1>1, <1>4 DEF Look
  <2>2. DOMAIN r = Locals /\ r.at = "again" /\ r.asked = None
    BY <1>1 DEF Locals
  <2> HIDE DEF r
  <2> QED
    BY <1>2, <2>1, <2>2, GotoQuiet
<1>5. CASE LookAgain(x) /\ ~(End(x, "answered") \/ End(x, "stock"))
  <2>1. PICK place \in {"warm", "dial"}, unified \in BOOLEAN :
            test' = [test EXCEPT ![x] = [NoTest EXCEPT
                !.at = place, !.inst = instance, !.detour = Found(x), !.unified = unified,
                !.network = IF test[x].options.link \in Http3 THEN "udp" ELSE "tcp"]]
    BY <1>5 DEF LookAgain
  <2> DEFINE net == IF test[x].options.link \in Http3 THEN "udp" ELSE "tcp"
             found == Found(x)
             r == [NoTest EXCEPT !.at = place, !.inst = instance, !.detour = found, !.unified = unified,
                                 !.network = net]
  <2>2. test' = [test EXCEPT ![x] = r]
    BY <2>1
  <2> HIDE DEF net, found
  <2>3. DOMAIN r = Locals /\ r.at = place /\ r.asked = None
    BY LocalsOfNone DEF NoTest
  <2> HIDE DEF r
  <2> QED
    BY <1>2, <2>2, <2>3, GotoQuiet
<1> QED
  BY <1>3, <1>4, <1>5

(***************************************************************************)
(* urlTestUpdateGroups: the groups that have not seen the new entry are    *)
(* all those that contain its outbound, and the test has them to do.       *)
(***************************************************************************)
LEMMA RecordKeeps ==
    ASSUME UrlTestInv, NEW x \in Test, Record(x)
    PROVE  UrlTestInv'
<1> DEFINE j == test[x].inst
           real == Real(test[x].inst, test[x].detour, "tcp")
           todo == {g \in UrlTestGroups(j) : real \in Contained[j][g]}
           r == [test[x] EXCEPT !.at = "update", !.via = None, !.ok = FALSE, !.todo = todo]
           entry == IF test[x].ok THEN test[x].via ELSE None
<1>1. DOMAIN test = Test /\ DOMAIN test[x] = Locals /\ Told(x, test[x]) /\ test[x].at = "record"
  BY DEF UrlTestInv, Shaped, Record
<1>2. /\ history' = [history EXCEPT ![j][real] = entry]
      /\ behind' = [behind EXCEPT ![j] = @ \union (UrlTestGroups(j) \X {real})]
      /\ test' = [test EXCEPT ![x].at = "update", ![x].via = None, ![x].ok = FALSE, ![x].todo = todo]
  BY DEF Record, Store
<1> HIDE DEF real, entry
<1>3. Contained \in [Instance -> [Tag -> SUBSET Tag]]
  BY DEF Contained
<1>4. \A i \in Instance, g \in Tag, t \in Tag : t \in Within[i][g] => t \in Contained[i][g]
  <2> SUFFICES ASSUME NEW i \in Instance, NEW g \in Tag, NEW t \in Tag, t \in Within[i][g]
               PROVE  t \in Contained[i][g]
    OBVIOUS
  <2>1. GroupContains(i, g, t, {g}).found
    BY ContainsExactly
  <2>2. Contained[i][g] = {u \in Tag : GroupContains(i, g, u, {g}).found}
    BY DEF Contained
  <2> QED
    BY <2>1, <2>2
<1> HIDE DEF todo
<1>5. test' = [test EXCEPT ![x] = r]
  BY <1>1, <1>2
<1>6. DOMAIN r = Locals /\ r.at = "update" /\ r.inst = j /\ r.todo = todo /\ r.asked = test[x].asked
      /\ r.options = test[x].options
  BY <1>1 DEF Locals
<1> HIDE DEF r, j
<1>7. DOMAIN test' = Test /\ test'[x] = r /\ \A y \in Test \ {x} : test'[y] = test[y]
  BY <1>1, <1>5
<1>8. Shaped'
  BY <1>2, <1>6, <1>7 DEF UrlTestInv, Shaped
<1>9. Told(x, r)
  BY <1>1, <1>6 DEF Told
<1>10. (\A y \in Test : Told(y, test[y]))'
  <2>1. \A y \in Test : Told(y, test'[y])
    BY <1>7, <1>9 DEF UrlTestInv
  <2> QED
    BY <2>1 DEF Told
<1>11. GroupsWillSee'
  <2> SUFFICES ASSUME NEW i \in Instance, NEW g \in UrlTestGroups(i), NEW t \in Tag,
                      <<g, t>> \in behind'[i], t \in Within[i][g]
               PROVE  \E y \in Test : WillUpdate(test'[y], i, g)
    BY DEF GroupsWillSee, UrlTestGroups, Within, Closed
  <2>1. CASE <<g, t>> \in behind[i]
    <3>1. PICK y \in Test : WillUpdate(test[y], i, g)
      BY <2>1 DEF UrlTestInv, GroupsWillSee
    <3>2. y # x
      BY <1>1, <3>1 DEF WillUpdate
    <3> QED
      BY <1>7, <3>1, <3>2
  <2>2. CASE <<g, t>> \notin behind[i]
    <3>1. i = j /\ t = real
      BY <1>2, <2>2 DEF UrlTestInv, Shaped
    <3>2. g \in todo
      BY <1>4, <3>1 DEF todo, UrlTestGroups
    <3>3. WillUpdate(test'[x], i, g)
      BY <1>6, <1>7, <3>1, <3>2 DEF WillUpdate
    <3> QED
      BY <3>3
  <2> QED
    BY <2>1, <2>2
<1> QED
  BY <1>8, <1>10, <1>11 DEF UrlTestInv

\* A group that selects has seen every entry; the others are still to do.
LEMMA UpdateKeeps ==
    ASSUME UrlTestInv, NEW x \in Test, NEW u \in Tag, Update(x, u)
    PROVE  UrlTestInv'
<1> DEFINE j == test[x].inst
           r == [test[x] EXCEPT !.todo = test[x].todo \ {u}]
<1>1. DOMAIN test = Test /\ DOMAIN test[x] = Locals /\ Told(x, test[x]) /\ test[x].at = "update"
  BY DEF UrlTestInv, Shaped, Update
<1>2. /\ history' = history
      /\ behind' = [behind EXCEPT ![j] = @ \ ({u} \X Tag)]
      /\ test' = [test EXCEPT ![x] = r]
  BY <1>1 DEF Update
<1>3. DOMAIN r = Locals /\ r.at = "update" /\ r.inst = j /\ r.todo = test[x].todo \ {u}
      /\ r.asked = test[x].asked /\ r.options = test[x].options
  BY <1>1 DEF Locals
<1> HIDE DEF r
<1>4. DOMAIN test' = Test /\ test'[x] = r /\ \A y \in Test \ {x} : test'[y] = test[y]
  BY <1>1, <1>2
<1>5. Shaped'
  BY <1>2, <1>3, <1>4 DEF UrlTestInv, Shaped
<1>6. Told(x, r)
  BY <1>1, <1>3 DEF Told
<1>7. (\A y \in Test : Told(y, test[y]))'
  <2>1. \A y \in Test : Told(y, test'[y])
    BY <1>4, <1>6 DEF UrlTestInv
  <2> QED
    BY <2>1 DEF Told
<1>8. GroupsWillSee'
  <2> SUFFICES ASSUME NEW i \in Instance, NEW g \in UrlTestGroups(i), NEW t \in Tag,
                      <<g, t>> \in behind'[i], t \in Within[i][g]
               PROVE  \E y \in Test : WillUpdate(test'[y], i, g)
    BY DEF GroupsWillSee, UrlTestGroups, Within, Closed
  <2>1. <<g, t>> \in behind[i] /\ (i = j => g # u)
    BY <1>2 DEF UrlTestInv, Shaped
  <2>2. PICK y \in Test : WillUpdate(test[y], i, g)
    BY <2>1 DEF UrlTestInv, GroupsWillSee
  <2>3. CASE y # x
    BY <1>4, <2>2, <2>3
  <2>4. CASE y = x
    <3>1. WillUpdate(r, i, g)
      BY <1>3, <2>1, <2>2, <2>4 DEF WillUpdate
    <3> QED
      BY <1>4, <3>1
  <2> QED
    BY <2>3, <2>4
<1> QED
  BY <1>5, <1>7, <1>8 DEF UrlTestInv

\* The service and the user do not touch what the invariant speaks of.
LEMMA ElsewhereKeeps ==
    ASSUME UrlTestInv, UNCHANGED <<history, behind, test>>
    PROVE  UrlTestInv'
<1>1. Shaped'
  BY DEF UrlTestInv, Shaped
<1>2. (\A x \in Test : Told(x, test[x]))'
  BY DEF UrlTestInv, Told
<1>3. GroupsWillSee'
  BY DEF UrlTestInv, GroupsWillSee, WillUpdate, UrlTestGroups, Within, Closed
<1> QED
  BY <1>1, <1>2, <1>3 DEF UrlTestInv

\* One step for each action.
LEMMA NextKeeps == UrlTestInv /\ [Next]_vars => UrlTestInv'
<1> SUFFICES ASSUME UrlTestInv, [Next]_vars PROVE UrlTestInv'
  OBVIOUS
<1>1. CASE \E x \in Test : Send(x) \/ SendOther(x)
  BY <1>1, SendQuiet, QuietKeeps
<1>2. CASE \E x \in Test : Receive(x)
  BY <1>2, ReceiveQuiet, QuietKeeps
<1>3. CASE \E x \in Test : Look(x) \/ LookAgain(x)
  BY <1>3, LookQuiet, QuietKeeps
<1>4. CASE \E x \in Test : Warm(x) \/ Dial(x) \/ Head1(x) \/ Second(x) \/ Cut(x)
  BY <1>4, MeasureQuiet, QuietKeeps
<1>5. CASE \E x \in Test : Record(x)
  BY <1>5, RecordKeeps
<1>6. CASE \E x \in Test : \E g \in Tag : Update(x, g)
  BY <1>6, UpdateKeeps
<1>7. CASE \E x \in Test : Return(x)
  <2>1. PICK x \in Test : Return(x)
    BY <1>7
  <2>2. /\ End(x, "answered") /\ UNCHANGED <<history, behind>>
        /\ test[x].at = "update" => test[x].todo = {}
    BY <2>1 DEF Return, Rest
  <2> QED
    BY <2>2, EndQuiet, QuietKeeps
<1>8. CASE StopService \/ StartService \/ \E i \in Instance, g \in Tag : SelectOutbound(i, g)
  <2>1. UNCHANGED <<history, behind, test>>
    BY <1>8 DEF StopService, StartService, SelectOutbound
  <2> QED
    BY <2>1, ElsewhereKeeps
<1>9. CASE UNCHANGED vars
  <2>1. UNCHANGED <<history, behind, test>>
    BY <1>9 DEF vars
  <2> QED
    BY <2>1, ElsewhereKeeps
<1> QED
  BY <1>1, <1>2, <1>3, <1>4, <1>5, <1>6, <1>7, <1>8, <1>9 DEF Next, TestStep

(* The inductive invariant of url_test_options.go.                         *)
THEOREM UrlTestInvariant == Spec => []UrlTestInv
  BY InitHolds, NextKeeps, PTL DEF Spec

(***************************************************************************)
(* url_test_options.go:208, 231: the daemon decodes what the caller of the *)
(* wrapper asked for, whatever it was.                                     *)
(***************************************************************************)
THEOREM OptionsAlwaysArrive == Spec => []OptionsArrive
<1>1. UrlTestInv => OptionsArrive
  BY DEF UrlTestInv, Told, OptionsArrive
<1> QED
  BY <1>1, UrlTestInvariant, PTL

(***************************************************************************)
(* url_test_options.go:140: once no test is at work on an instance, every  *)
(* urltest group has selected after the last entry of every outbound it    *)
(* contains, however many tests overlapped.                                *)
(***************************************************************************)
THEOREM GroupsSeeWhatTheyContain == Spec => []GroupsSeeHistory
<1>1. UrlTestInv => GroupsSeeHistory
  BY DEF UrlTestInv, GroupsWillSee, WillUpdate, GroupsSeeHistory
<1> QED
  BY <1>1, UrlTestInvariant, PTL

\* One step of the property.
HistoryStep == \A i \in Instance : history[i] # history'[i] => \E x \in Test : test[x].inst = i

(***************************************************************************)
(* url_test_options.go:100: an entry is only ever written to the instance  *)
(* that the test was started with, however often the service was reloaded  *)
(* meanwhile.                                                              *)
(***************************************************************************)
THEOREM HistoryStaysWithItsInstance == Spec => HistoryOfInstance
<1>1. UrlTestInv /\ [Next]_vars => [HistoryStep]_vars
  <2> SUFFICES ASSUME UrlTestInv, [Next]_vars, NEW i \in Instance, history[i] # history'[i]
               PROVE  \E x \in Test : test[x].inst = i
    BY DEF HistoryStep
  <2>1. PICK x \in Test : Record(x)
    BY DEF Next, TestStep, Send, SendOther, Receive, Look, LookAgain, Warm, Dial, Head1, Second, Cut,
           Update, Return, StopService, StartService, SelectOutbound, Rest, vars
  <2> DEFINE j == test[x].inst
             real == Real(test[x].inst, test[x].detour, "tcp")
             entry == IF test[x].ok THEN test[x].via ELSE None
  <2>2. history' = [history EXCEPT ![j][real] = entry]
    BY <2>1 DEF Record, Store
  <2> HIDE DEF real, entry
  <2>3. i = j
    BY <2>2 DEF UrlTestInv, Shaped
  <2> QED
    BY <2>3
<1>2. Spec => [][HistoryStep]_vars
  BY <1>1, UrlTestInvariant, PTL DEF Spec
<1> QED
  BY <1>2 DEF HistoryOfInstance, HistoryStep
===============================================================================
