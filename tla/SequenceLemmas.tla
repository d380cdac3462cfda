---------------------------- MODULE SequenceLemmas ---------------------------
(***************************************************************************)
(* Lemmas about sequences and sums.  What Append, Tail and \o do to the    *)
(* set of elements of a queue, and to one in which nothing occurs twice;   *)
(* how often an element occurs in what is selected, turned round, joined,  *)
(* sorted or merged, and how it is counted; that a sequence is given by    *)
(* its elements and their order; how strings compare; and that a sum does  *)
(* not depend on the order it is taken in.  Used by the proofs about all   *)
(* the programs.                                                           *)
(***************************************************************************)
EXTENDS SequencesExt, Selection, SequenceTheorems, FiniteSetTheorems, WellFoundedInduction,
        TLAPS

\* A push adds one element, and a new one does not make a duplicate.
LEMMA AppendElements ==
  ASSUME NEW S, NEW q \in Seq(S), NEW e \in S
  PROVE  /\ Append(q, e) \in Seq(S)
         /\ ToSet(Append(q, e)) = ToSet(q) \cup {e}
         /\ IsInjective(q) /\ e \notin ToSet(q) => IsInjective(Append(q, e))
  <1> DEFINE p == Append(q, e)
  <1>1. /\ p \in Seq(S) /\ Len(p) = Len(q) + 1 /\ Len(q) \in Nat
        /\ DOMAIN p = 1 .. Len(q) + 1 /\ DOMAIN q = 1 .. Len(q)
        /\ \A i \in 1 .. Len(q) : p[i] = q[i]
        /\ p[Len(q) + 1] = e
    BY AppendProperties, LenProperties
  <1>2. ToSet(p) = ToSet(q) \cup {e}
    <2>1. ToSet(p) \subseteq ToSet(q) \cup {e}
      BY <1>1 DEF ToSet
    <2>2. ToSet(q) \cup {e} \subseteq ToSet(p)
      BY <1>1 DEF ToSet
    <2> QED
      BY <2>1, <2>2
  <1>3. ASSUME IsInjective(q), e \notin ToSet(q) PROVE IsInjective(p)
    BY <1>1, <1>3 DEF ToSet, IsInjective
  <1> QED
    BY <1>1, <1>2, <1>3

\* A pop takes one element away; it was there once if nothing occurs twice.
LEMMA TailElements ==
  ASSUME NEW S, NEW q \in Seq(S), q # <<>>
  PROVE  /\ Head(q) \in S /\ Tail(q) \in Seq(S)
         /\ ToSet(q) = ToSet(Tail(q)) \cup {Head(q)}
         /\ IsInjective(q) => /\ IsInjective(Tail(q))
                              /\ Head(q) \notin ToSet(Tail(q))
  <1> DEFINE p == Tail(q)
  <1>1. /\ p \in Seq(S) /\ Len(q) \in Nat /\ Len(q) > 0 /\ Len(p) = Len(q) - 1
        /\ DOMAIN p = 1 .. Len(q) - 1 /\ DOMAIN q = 1 .. Len(q)
        /\ \A i \in 1 .. Len(q) - 1 : p[i] = q[i + 1]
        /\ Head(q) = q[1] /\ Head(q) \in S
    BY HeadTailProperties, LenProperties, EmptySeq
  <1>2. ToSet(q) = ToSet(p) \cup {Head(q)}
    <2>1. ASSUME NEW i \in DOMAIN q PROVE q[i] \in ToSet(p) \cup {Head(q)}
      <3>1. CASE i = 1
        BY <1>1, <3>1
      <3>2. CASE i # 1
        <4>1. i - 1 \in DOMAIN p /\ p[i - 1] = q[i]
          BY <1>1, <3>2
        <4> QED
          BY <4>1 DEF ToSet
      <3> QED
        BY <3>1, <3>2
    <2>2. ToSet(p) \cup {Head(q)} \subseteq ToSet(q)
      BY <1>1 DEF ToSet
    <2> QED
      BY <2>1, <2>2 DEF ToSet
  <1>3. ASSUME IsInjective(q)
        PROVE  IsInjective(p) /\ Head(q) \notin ToSet(p)
    BY <1>1, <1>3 DEF ToSet, IsInjective
  <1> QED
    BY <1>1, <1>2, <1>3

\* One queue behind another holds the elements of both, and a duplicate only if
\* one of them does or they share an element.
LEMMA ConcatElements ==
  ASSUME NEW S, NEW p \in Seq(S), NEW q \in Seq(S)
  PROVE  /\ p \o q \in Seq(S)
         /\ ToSet(p \o q) = ToSet(p) \cup ToSet(q)
         /\ IsInjective(p \o q) <=>
              IsInjective(p) /\ IsInjective(q) /\ ToSet(p) \cap ToSet(q) = {}
  <1> DEFINE c == p \o q
  <1>1. /\ c \in Seq(S) /\ Len(p) \in Nat /\ Len(q) \in Nat
        /\ DOMAIN c = 1 .. Len(p) + Len(q)
        /\ DOMAIN p = 1 .. Len(p) /\ DOMAIN q = 1 .. Len(q)
        /\ \A i \in 1 .. Len(p) + Len(q) : c[i] = IF i <= Len(p) THEN p[i] ELSE q[i - Len(p)]
    BY ConcatProperties, LenProperties
  <1> HIDE DEF c
  <1>2. \A i \in DOMAIN p : i \in DOMAIN c /\ c[i] = p[i]
    BY <1>1
  <1>3. ASSUME NEW i \in DOMAIN q
        PROVE  Len(p) + i \in DOMAIN c /\ c[Len(p) + i] = q[i]
    <2>1. Len(p) + i \in 1 .. Len(p) + Len(q) /\ ~ Len(p) + i <= Len(p) /\ Len(p) + i - Len(p) = i
      BY <1>1
    <2> QED
      BY <1>1, <2>1
  <1>4. ASSUME NEW i \in DOMAIN c
        PROVE  \/ i \in DOMAIN p /\ c[i] = p[i]
               \/ i - Len(p) \in DOMAIN q /\ c[i] = q[i - Len(p)] /\ i \in Nat /\ i > Len(p)
    BY <1>1
  <1>5. ToSet(c) = ToSet(p) \cup ToSet(q)
    <2>1. ToSet(c) \subseteq ToSet(p) \cup ToSet(q)
      BY <1>4 DEF ToSet
    <2>2. ToSet(p) \subseteq ToSet(c)
      BY <1>2 DEF ToSet
    <2>3. ToSet(q) \subseteq ToSet(c)
      BY <1>3 DEF ToSet
    <2> QED
      BY <2>1, <2>2, <2>3
  <1>6. ASSUME IsInjective(c)
        PROVE  IsInjective(p) /\ IsInjective(q) /\ ToSet(p) \cap ToSet(q) = {}
    <2>1. IsInjective(p)
      BY <1>2, <1>6 DEF IsInjective
    <2>2. ASSUME NEW i \in DOMAIN q, NEW j \in DOMAIN q, q[i] = q[j] PROVE i = j
      <3>1. Len(p) + i = Len(p) + j
        BY <1>3, <1>6, <2>2 DEF IsInjective
      <3> QED
        BY <1>1, <3>1
    <2>3. ASSUME NEW i \in DOMAIN p, NEW j \in DOMAIN q, p[i] = q[j] PROVE FALSE
      <3>1. i = Len(p) + j
        BY <1>2, <1>3, <1>6, <2>3 DEF IsInjective
      <3> QED
        BY <1>1, <3>1
    <2> QED
      BY <2>1, <2>2, <2>3 DEF IsInjective, ToSet
  <1>7. ASSUME IsInjective(p), IsInjective(q), ToSet(p) \cap ToSet(q) = {},
               NEW i \in DOMAIN c, NEW j \in DOMAIN c, c[i] = c[j]
        PROVE  i = j
    <2>1. \A k \in DOMAIN p, l \in DOMAIN q : p[k] # q[l]
      BY <1>7 DEF ToSet
    <2>2. CASE i \in DOMAIN p /\ c[i] = p[i] /\ j \in DOMAIN p /\ c[j] = p[j]
      BY <1>7, <2>2 DEF IsInjective
    <2>3. CASE /\ i - Len(p) \in DOMAIN q /\ c[i] = q[i - Len(p)] /\ i \in Nat
               /\ j - Len(p) \in DOMAIN q /\ c[j] = q[j - Len(p)] /\ j \in Nat
      <3>1. i - Len(p) = j - Len(p)
        BY <1>7, <2>3 DEF IsInjective
      <3> QED
        BY <1>1, <2>3, <3>1
    <2> QED
      BY <1>4, <1>7, <2>1, <2>2, <2>3
  <1>8. IsInjective(c) <=> IsInjective(p) /\ IsInjective(q) /\ ToSet(p) \cap ToSet(q) = {}
    BY <1>6, <1>7 DEF IsInjective
  <1> QED
    BY <1>1, <1>5, <1>8 DEF c

\* A queue in which nothing occurs twice is as long as it has elements.
LEMMA InjectiveLength ==
  ASSUME NEW S, NEW q \in Seq(S), IsInjective(q)
  PROVE  IsFiniteSet(ToSet(q)) /\ Cardinality(ToSet(q)) = Len(q)
  <1>1. Len(q) \in Nat /\ DOMAIN q = 1 .. Len(q) /\ q \in [1 .. Len(q) -> S]
    BY LenProperties
  <1>2. q \in Bijection(1 .. Len(q), ToSet(q))
    BY <1>1 DEF Bijection, Injection, Surjection, IsInjective, ToSet
  <1>3. ExistsBijection(1 .. Len(q), ToSet(q))
    BY <1>2 DEF ExistsBijection
  <1> QED
    BY <1>1, <1>3, FS_CountingElements, FS_NatBijection

\* An empty queue holds nothing.
LEMMA EmptyElements == ToSet(<<>>) = {} /\ IsInjective(<<>>)
  BY DEF ToSet, IsInjective

-----------------------------------------------------------------------------
\* A set of numbers has a least one.
LEMMA LeastNumber ==
  ASSUME NEW I \in SUBSET Nat, I # {}
  PROVE  \E x \in I : \A y \in I : x <= y
  <1>1. PICK x \in I : \A y \in I : ~ (<<y, x>> \in OpToRel(<, Nat))
    BY NatLessThanWellFounded, WFMin
  <1>2. \A y \in I : x <= y
    <2> SUFFICES ASSUME NEW y \in I, y < x PROVE FALSE
      OBVIOUS
    <2> QED
      BY <1>1 DEF OpToRel
  <1> QED
    BY <1>2

\* There is a least one: those below it are not in the set.
LEMMA Least ==
  ASSUME NEW I \in SUBSET Nat, I # {}
  PROVE  \E x \in I : x \in Nat /\ \A y \in Nat : y < x => y \notin I
  <1>1. PICK x \in I : \A y \in I : x <= y
    BY LeastNumber
  <1> QED
    BY <1>1

\* A bounded set of numbers has a greatest one.
LEMMA GreatestNumber ==
  ASSUME NEW m \in Int, NEW n \in Int, NEW I \in SUBSET (m .. n), I # {}
  PROVE  \E x \in I : \A y \in I : y <= x
  <1> DEFINE J == {k \in Nat : n - k \in I}
  <1>1. J \in SUBSET Nat /\ J # {}
    <2>1. PICK x \in I : TRUE
      OBVIOUS
    <2>2. n - x \in Nat /\ n - (n - x) = x
      BY <2>1
    <2> QED
      BY <2>1, <2>2
  <1>2. PICK k \in J : \A l \in J : k <= l
    <2> HIDE DEF J
    <2> QED
      BY <1>1, LeastNumber
  <1>3. ASSUME NEW y \in I PROVE y <= n - k
    <2>1. n - y \in Nat /\ n - (n - y) = y
      OBVIOUS
    <2>2. n - y \in J
      BY <2>1
    <2> QED
      BY <1>2, <2>1, <2>2
  <1> QED
    BY <1>2, <1>3

\* The n-th place of n that there are, for each n.
LEMMA PlaceProperties ==
  ASSUME NEW N \in Nat, NEW I \in SUBSET (1 .. N)
  PROVE  /\ IsFiniteSet(I) /\ Cardinality(I) \in Nat
         /\ \A n \in 1 .. Cardinality(I) : Place(I, n) \in I
         /\ \A m, n \in 1 .. Cardinality(I) : m < n => Place(I, m) < Place(I, n)
         /\ \A i \in I : \E n \in 1 .. Cardinality(I) : Place(I, n) = i
  <1> DEFINE upTo(i) == {j \in I : j <= i}
             c(i) == Cardinality(upTo(i))
  <1>0. \A i \in I : i \in Int /\ 1 <= i /\ i <= N
    OBVIOUS
  <1>u. \A i \in Int, j \in Int : j \in upTo(i) <=> j \in I /\ j <= i
    OBVIOUS
  <1>v. \A i \in Int : upTo(i) \in SUBSET I /\ \A j \in upTo(i) : j \in Int
    BY <1>0
  <1> HIDE DEF upTo
  <1>1. IsFiniteSet(1 .. N)
    BY FS_Interval
  <1>2. IsFiniteSet(I) /\ Cardinality(I) \in Nat
    BY <1>1, FS_Subset, FS_CardinalityType
  <1>3. ASSUME NEW i \in Int PROVE IsFiniteSet(upTo(i)) /\ c(i) \in Nat /\ c(i) <= Cardinality(I)
    <2> QED
      BY <1>2, <1>v, FS_Subset, FS_CardinalityType
  <1>4. ASSUME NEW i \in Int
        PROVE  c(i + 1) = IF i + 1 \in I THEN c(i) + 1 ELSE c(i)
    <2>1. i + 1 \in Int /\ i + 1 \notin upTo(i)
      BY <1>u
    <2>2. CASE i + 1 \in I
      <3>1. upTo(i + 1) = upTo(i) \cup {i + 1}
        BY <2>2, <1>0, <1>u, <1>v
      <3> QED
        BY <1>3, <2>1, <2>2, <3>1, FS_AddElement
    <2>3. CASE i + 1 \notin I
      <3>1. ASSUME NEW j PROVE j \in upTo(i + 1) <=> j \in upTo(i)
        BY <2>3, <1>0, <1>u, <1>v
      <3>2. upTo(i + 1) = upTo(i)
        BY <3>1
      <3> QED
        BY <2>3, <3>2
    <2> QED
      BY <2>2, <2>3
  <1>5. c(0) = 0 /\ c(N) = Cardinality(I)
    <2>1. 0 \in Int /\ N \in Int
      OBVIOUS
    <2>2. upTo(0) = {}
      BY <2>1, <1>0, <1>u, <1>v
    <2>3. upTo(N) = I
      BY <2>1, <1>0, <1>u, <1>v
    <2> QED
      BY <2>2, <2>3, FS_EmptySet
  <1>6. ASSUME NEW i \in Int, NEW j \in I, i < j PROVE c(i) < c(j)
    <2>1. upTo(i) \cup {j} \in SUBSET upTo(j) /\ j \notin upTo(i)
      <3>1. /\ \A k : k \in upTo(i) \cup {j} => k \in upTo(j)
            /\ j \notin upTo(i)
        BY <1>0, <1>6, <1>u, <1>v
      <3> QED
        BY <3>1
    <2>2. Cardinality(upTo(i) \cup {j}) = c(i) + 1
      <3> QED
        BY <1>3, <2>1, FS_AddElement
    <2>3. Cardinality(upTo(i) \cup {j}) <= c(j)
      <3>1. j \in Int
        OBVIOUS
      <3> QED
        BY <1>3, <2>1, <3>1, FS_Subset
    <2> QED
      BY <1>3, <2>2, <2>3
  <1> HIDE DEF c
  <1>7. ASSUME NEW n \in 1 .. Cardinality(I) PROVE \E i \in I : c(i) = n
    <2> DEFINE T == {i \in 0 .. N : n <= c(i)}
    <2>1. N \in T
      BY <1>2, <1>5
    <2>2. PICK i \in T : \A j \in T : i <= j
      <3>1. T \in SUBSET Nat /\ T # {}
        BY <2>1
      <3> HIDE DEF T
      <3> QED
        BY <3>1, LeastNumber
    <2>3. i # 0
      BY <1>5
    <2>4. i - 1 \in 0 .. N /\ ~ n <= c(i - 1) /\ i - 1 \in Int /\ (i - 1) + 1 = i
      BY <2>2, <2>3
    <2>5. c(i) = IF i \in I THEN c(i - 1) + 1 ELSE c(i - 1)
      BY <1>4, <2>4
    <2>6. c(i - 1) \in Nat /\ n \in Nat /\ n <= c(i)
      BY <1>2, <1>3, <2>4
    <2> QED
      BY <2>4, <2>5, <2>6
  <1>8. \A n : Place(I, n) = CHOOSE i \in I : c(i) = n
    BY DEF Place, c, upTo
  <1>9. \A n \in 1 .. Cardinality(I) : Place(I, n) \in I /\ c(Place(I, n)) = n
    BY <1>7, <1>8
  <1>10. \A i, j \in I : c(i) = c(j) => i = j
    <2> SUFFICES ASSUME NEW i \in I, NEW j \in I, c(i) = c(j), i < j PROVE FALSE
      OBVIOUS
    <2> QED
      BY <1>3, <1>6
  <1>11. ASSUME NEW i \in I PROVE c(i) \in 1 .. Cardinality(I) /\ Place(I, c(i)) = i
    <2>1. c(0) < c(i)
      BY <1>6
    <2>2. c(i) \in 1 .. Cardinality(I)
      BY <1>2, <1>3, <1>5, <2>1
    <2> QED
      BY <1>9, <1>10, <2>2
  <1>12. ASSUME NEW m \in 1 .. Cardinality(I), NEW n \in 1 .. Cardinality(I), m < n
         PROVE  Place(I, m) < Place(I, n)
    <2> DEFINE x == Place(I, m)
               y == Place(I, n)
    <2>1. x \in I /\ y \in I /\ c(x) = m /\ c(y) = n /\ x \in Int /\ y \in Int
      BY <1>0, <1>9
    <2>2. m \in Int /\ n \in Int
      BY <1>2
    <2> HIDE DEF x, y
    <2>3. y < x => c(y) < c(x)
      BY <2>1, <1>6
    <2>4. x # y /\ ~ y < x
      BY <2>1, <2>2, <2>3, <1>12
    <2>5. x < y
      BY <2>1, <2>4
    <2> QED
      BY <2>5 DEF x, y
  <1> QED
    BY <1>2, <1>9, <1>11, <1>12

\* What is selected has an element for each place, the one at it.
LEMMA SelectedProperties ==
  ASSUME NEW S, NEW s \in Seq(S), NEW I \in SUBSET (1 .. Len(s))
  PROVE  /\ Selected(s, I) \in Seq(S) /\ Len(Selected(s, I)) = Cardinality(I)
         /\ Cardinality(I) \in Nat
         /\ \A n \in 1 .. Cardinality(I) : Selected(s, I)[n] = s[Place(I, n)]
         /\ ToSet(Selected(s, I)) = {s[i] : i \in I}
  <1>1. Len(s) \in Nat /\ \A i \in 1 .. Len(s) : s[i] \in S
    BY LenProperties, ElementOfSeq
  <1> DEFINE c == Cardinality(I)
             q == Selected(s, I)
  <1>2. /\ c \in Nat /\ \A n \in 1 .. c : Place(I, n) \in I
        /\ \A i \in I : \E n \in 1 .. c : Place(I, n) = i
    BY <1>1, PlaceProperties
  <1>3. q = [n \in 1 .. c |-> s[Place(I, n)]]
    BY DEF Selected
  <1> HIDE DEF q, c
  <1>4. q \in [1 .. c -> S]
    BY <1>1, <1>2, <1>3
  <1>5. q \in Seq(S) /\ Len(q) = c
    BY <1>2, <1>4, SeqDef, LenProperties
  <1>6. ToSet(q) = {s[i] : i \in I}
    BY <1>2, <1>3 DEF ToSet
  <1> QED
    BY <1>2, <1>3, <1>5, <1>6 DEF q, c

-----------------------------------------------------------------------------
Occurrences(q, x) == Cardinality({i \in DOMAIN q : q[i] = x})

\* Sequences occur alike when their places can be matched.
LEMMA MatchedOccurrences ==
  ASSUME NEW A, NEW B, NEW f \in [A -> B], IsFiniteSet(A),
         \A i, j \in A : f[i] = f[j] => i = j,
         \A k \in B : \E i \in A : f[i] = k
  PROVE  IsFiniteSet(B) /\ Cardinality(A) = Cardinality(B)
  <1>1. f \in Bijection(A, B)
    BY DEF Bijection, Injection, Surjection, IsInjective
  <1>2. ExistsBijection(A, B)
    BY <1>1 DEF ExistsBijection
  <1> QED
    BY <1>2, FS_Bijection

\* An element occurs a number of times in a queue, none if it is not in it.
LEMMA FinitePlaces ==
  ASSUME NEW S, NEW q \in Seq(S), NEW x
  PROVE  /\ IsFiniteSet({i \in DOMAIN q : q[i] = x}) /\ Occurrences(q, x) \in Nat
         /\ Occurrences(q, x) = 0 <=> x \notin ToSet(q)
  <1>1. DOMAIN q = 1 .. Len(q) /\ Len(q) \in Nat
    BY LenProperties
  <1> DEFINE I == {i \in DOMAIN q : q[i] = x}
  <1>2. I \in SUBSET (1 .. Len(q))
    BY <1>1
  <1>3. I = {} <=> x \notin ToSet(q)
    BY DEF ToSet
  <1> HIDE DEF I
  <1>4. IsFiniteSet(I) /\ Cardinality(I) \in Nat
    <2>1. IsFiniteSet(1 .. Len(q))
      BY <1>1, FS_Interval
    <2> QED
      BY <1>2, <2>1, FS_Subset, FS_CardinalityType
  <1> QED
    BY <1>3, <1>4, FS_EmptySet DEF I, Occurrences

\* An element occurs as often as it does at the selected places.
LEMMA SelectedOccurrences ==
  ASSUME NEW S, NEW q \in Seq(S), NEW I \in SUBSET (1 .. Len(q)), NEW x
  PROVE  Occurrences(Selected(q, I), x) = Cardinality({i \in I : q[i] = x})
  <1> DEFINE p == Selected(q, I)
             A == {n \in DOMAIN p : p[n] = x}
             B == {i \in I : q[i] = x}
  <1>1. p \in Seq(S) /\ DOMAIN p = 1 .. Cardinality(I) /\ Cardinality(I) \in Nat
        /\ \A n \in 1 .. Cardinality(I) : p[n] = q[Place(I, n)]
    BY SelectedProperties, LenProperties
  <1>2. /\ \A n \in 1 .. Cardinality(I) : Place(I, n) \in I
        /\ \A m, n \in 1 .. Cardinality(I) : m < n => Place(I, m) < Place(I, n)
        /\ \A i \in I : \E n \in 1 .. Cardinality(I) : Place(I, n) = i
    BY PlaceProperties, LenProperties
  <1>3. \A i \in I : i \in Int
    OBVIOUS
  <1> HIDE DEF p
  <1> DEFINE f == [n \in A |-> Place(I, n)]
  <1>4. f \in [A -> B]
    BY <1>1, <1>2
  <1>5. ASSUME NEW m \in A, NEW n \in A, f[m] = f[n] PROVE m = n
    <2>1. m \in 1 .. Cardinality(I) /\ n \in 1 .. Cardinality(I)
      BY <1>1
    <2>2. Place(I, m) = Place(I, n) /\ Place(I, m) \in Int
      BY <2>1, <1>2, <1>3, <1>5
    <2>3. ~ Place(I, m) < Place(I, n) /\ ~ Place(I, n) < Place(I, m)
      BY <2>2
    <2> QED
      BY <2>1, <2>3, <1>1, <1>2
  <1>6. ASSUME NEW k \in B PROVE \E n \in A : f[n] = k
    <2>1. PICK n \in 1 .. Cardinality(I) : Place(I, n) = k
      BY <1>2
    <2>2. n \in A
      BY <2>1, <1>1
    <2> QED
      BY <2>1, <2>2
  <1>7. IsFiniteSet(A)
    BY <1>1, FinitePlaces
  <1> HIDE DEF A, B, f
  <1>8. Cardinality(A) = Cardinality(B)
    BY <1>4, <1>5, <1>6, <1>7, MatchedOccurrences
  <1> QED
    BY <1>8 DEF A, B, Occurrences, p

\* A queue that is turned round holds the same elements, as often.
LEMMA ReverseOccurrences ==
  ASSUME NEW S, NEW q \in Seq(S), NEW x
  PROVE  /\ Reverse(q) \in Seq(S) /\ Len(Reverse(q)) = Len(q)
         /\ \A i \in 1 .. Len(q) : Reverse(q)[i] = q[Len(q) - i + 1]
         /\ Occurrences(Reverse(q), x) = Occurrences(q, x)
  <1>1. Len(q) \in Nat /\ DOMAIN q = 1 .. Len(q) /\ \A i \in 1 .. Len(q) : q[i] \in S
    BY LenProperties, ElementOfSeq
  <1> DEFINE p == Reverse(q)
             n == Len(q)
             A == {i \in DOMAIN q : q[i] = x}
             B == {i \in DOMAIN p : p[i] = x}
             f == [i \in A |-> n - i + 1]
  <1>2. p = [i \in 1 .. n |-> q[n - i + 1]]
    BY DEF Reverse
  <1>3. /\ p \in [1 .. n -> S] /\ DOMAIN p = 1 .. n
        /\ \A i \in 1 .. n : p[i] = q[n - i + 1]
    <2>1. \A i \in 1 .. n : n - i + 1 \in 1 .. n
      BY <1>1
    <2> QED
      BY <1>1, <1>2, <2>1
  <1>4. p \in Seq(S) /\ Len(p) = n
    BY <1>1, <1>3, SeqDef, LenProperties
  <1> HIDE DEF p
  <1>5. f \in [A -> B]
    <2> SUFFICES ASSUME NEW i \in A PROVE n - i + 1 \in B
      OBVIOUS
    <2>1. n - i + 1 \in 1 .. n /\ n - (n - i + 1) + 1 = i
      BY <1>1
    <2> QED
      BY <1>3, <2>1
  <1>6. \A i, j \in A : f[i] = f[j] => i = j
    BY <1>1
  <1>7. ASSUME NEW k \in B PROVE \E i \in A : f[i] = k
    <2>1. n - k + 1 \in 1 .. n /\ n - (n - k + 1) + 1 = k
      BY <1>1, <1>3
    <2>2. n - k + 1 \in A
      BY <2>1, <1>1, <1>3
    <2> QED
      BY <2>1, <2>2
  <1>8. IsFiniteSet(A)
    BY FinitePlaces
  <1> HIDE DEF A, B, f
  <1>9. Cardinality(A) = Cardinality(B)
    BY <1>5, <1>6, <1>7, <1>8, MatchedOccurrences
  <1> QED
    BY <1>3, <1>4, <1>9 DEF A, B, p, Occurrences

\* In two queues joined an element occurs as often as in both.
LEMMA ConcatOccurrences ==
  ASSUME NEW S, NEW p \in Seq(S), NEW q \in Seq(S), NEW x
  PROVE  Occurrences(p \o q, x) = Occurrences(p, x) + Occurrences(q, x)
  <1> DEFINE c == p \o q
             m == Len(p)
             A == {i \in DOMAIN p : p[i] = x}
             B == {i \in DOMAIN q : q[i] = x}
             C == {i \in DOMAIN c : c[i] = x}
             D == {i \in C : i > m}
             f == [i \in B |-> m + i]
  <1>1. /\ c \in Seq(S) /\ Len(p) \in Nat /\ Len(q) \in Nat
        /\ DOMAIN c = 1 .. Len(p) + Len(q) /\ DOMAIN p = 1 .. Len(p) /\ DOMAIN q = 1 .. Len(q)
        /\ \A i \in 1 .. Len(p) + Len(q) : c[i] = IF i <= Len(p) THEN p[i] ELSE q[i - Len(p)]
    BY ConcatProperties, LenProperties
  <1> HIDE DEF c
  <1>2. f \in [B -> D]
    <2> SUFFICES ASSUME NEW i \in B PROVE m + i \in D
      OBVIOUS
    <2>1. m + i \in 1 .. Len(p) + Len(q) /\ ~ m + i <= m /\ (m + i) - m = i
      BY <1>1
    <2> QED
      BY <1>1, <2>1
  <1>3. \A i, j \in B : f[i] = f[j] => i = j
    BY <1>1
  <1>4. ASSUME NEW k \in D PROVE \E i \in B : f[i] = k
    <2>1. k - m \in 1 .. Len(q) /\ m + (k - m) = k /\ ~ k <= m
      BY <1>1
    <2>2. k - m \in B
      BY <2>1, <1>1
    <2> QED
      BY <2>1, <2>2
  <1>5. IsFiniteSet(A) /\ IsFiniteSet(B)
    BY FinitePlaces
  <1>6. A \cap D = {} /\ C = A \cup D
    BY <1>1
  <1> HIDE DEF A, B, C, D, f
  <1>7. IsFiniteSet(D) /\ Cardinality(D) = Cardinality(B)
    BY <1>2, <1>3, <1>4, <1>5, MatchedOccurrences
  <1>8. Cardinality(C) = Cardinality(A) + Cardinality(D)
    <2>1. Cardinality(A \cap D) = 0 /\ Cardinality(A) \in Nat /\ Cardinality(D) \in Nat
      BY <1>5, <1>6, <1>7, FS_EmptySet, FS_CardinalityType
    <2>2. Cardinality(A \cup D) = Cardinality(A) + Cardinality(D) - Cardinality(A \cap D)
      BY <1>5, <1>7, FS_Union
    <2> QED
      BY <1>6, <2>1, <2>2
  <1> QED
    BY <1>7, <1>8 DEF A, B, C, c, Occurrences

\* An element occurs once in the queue of it alone.
LEMMA SingleOccurrence ==
  ASSUME NEW x, NEW y
  PROVE  Occurrences(<<x>>, y) = IF x = y THEN 1 ELSE 0
  <1>1. DOMAIN <<x>> = {1} /\ <<x>>[1] = x
    OBVIOUS
  <1>2. {i \in DOMAIN <<x>> : <<x>>[i] = y} = IF x = y THEN {1} ELSE {}
    BY <1>1
  <1> QED
    BY <1>2, FS_EmptySet, FS_Singleton DEF Occurrences

\* Nothing occurs twice where what occurs does so once.
LEMMA InjectiveOccurrences ==
  ASSUME NEW S, NEW q \in Seq(S)
  PROVE  IsInjective(q) <=> \A x \in ToSet(q) : Occurrences(q, x) = 1
  <1>1. ASSUME IsInjective(q), NEW x \in ToSet(q) PROVE Occurrences(q, x) = 1
    <2>1. PICK i \in DOMAIN q : q[i] = x
      BY DEF ToSet
    <2>2. {j \in DOMAIN q : q[j] = x} = {i}
      BY <1>1, <2>1 DEF IsInjective
    <2> QED
      BY <2>2, FS_Singleton DEF Occurrences
  <1>2. ASSUME \A x \in ToSet(q) : Occurrences(q, x) = 1 PROVE IsInjective(q)
    <2> SUFFICES ASSUME NEW i \in DOMAIN q, NEW j \in DOMAIN q, q[i] = q[j] PROVE i = j
      BY DEF IsInjective
    <2> DEFINE I == {k \in DOMAIN q : q[k] = q[i]}
    <2>1. Cardinality(I) = 1
      BY <1>2 DEF Occurrences, ToSet
    <2>2. i \in I /\ j \in I
      OBVIOUS
    <2>3. IsFiniteSet(I)
      BY FinitePlaces
    <2> HIDE DEF I
    <2>4. PICK k : I = {k}
      BY <2>1, <2>3, FS_Singleton
    <2> QED
      BY <2>2, <2>4
  <1> QED
    BY <1>1, <1>2

-----------------------------------------------------------------------------
RisesIn(q) == \A i, j \in DOMAIN q : i < j => q[i] < q[j]

\* Two rising sequences of the same numbers do not differ first where p is less.
LEMMA FirstDifference ==
  ASSUME NEW p \in Seq(Int), NEW q \in Seq(Int), RisesIn(p), RisesIn(q), ToSet(p) = ToSet(q),
         NEW i \in DOMAIN p \cap DOMAIN q, \A k \in 1 .. i - 1 : p[k] = q[k]
  PROVE  q[i] <= p[i]
  <1>1. /\ DOMAIN p = 1 .. Len(p) /\ Len(p) \in Nat /\ DOMAIN q = 1 .. Len(q) /\ Len(q) \in Nat
        /\ \A k \in DOMAIN p : p[k] \in Int
        /\ \A k \in DOMAIN q : q[k] \in Int
    BY LenProperties, ElementOfSeq
  <1> SUFFICES ASSUME p[i] < q[i] PROVE FALSE
    BY <1>1
  <1>2. PICK j \in DOMAIN q : q[j] = p[i]
    BY DEF ToSet
  <1>3. CASE j < i
    <2>1. j \in 1 .. i - 1 /\ j \in DOMAIN p
      BY <1>1, <1>3
    <2>2. p[j] = p[i] /\ p[j] < p[i]
      BY <1>2, <1>3, <2>1 DEF RisesIn
    <2> QED
      BY <1>1, <2>2
  <1>4. CASE j > i
    <2>1. q[i] < q[j]
      BY <1>4, <1>1 DEF RisesIn
    <2> QED
      BY <1>1, <1>2, <2>1
  <1> QED
    BY <1>1, <1>2, <1>3, <1>4

\* A rising sequence is determined by its elements.
LEMMA RisingUnique ==
  ASSUME NEW p \in Seq(Int), NEW q \in Seq(Int), RisesIn(p), RisesIn(q), ToSet(p) = ToSet(q)
  PROVE  p = q
  <1>1. /\ DOMAIN p = 1 .. Len(p) /\ Len(p) \in Nat /\ DOMAIN q = 1 .. Len(q) /\ Len(q) \in Nat
        /\ \A k \in DOMAIN p : p[k] \in Int
        /\ \A k \in DOMAIN q : q[k] \in Int
    BY LenProperties, ElementOfSeq
  <1>2. \A i \in DOMAIN p \cap DOMAIN q : p[i] = q[i]
    <2> DEFINE T == {i \in DOMAIN p \cap DOMAIN q : p[i] # q[i]}
    <2> SUFFICES ASSUME T # {} PROVE FALSE
      OBVIOUS
    <2>1. T \in SUBSET Nat
      BY <1>1
    <2>2. PICK i \in T : \A k \in T : i <= k
      BY <2>1, LeastNumber
    <2>3. ASSUME NEW k \in 1 .. i - 1 PROVE p[k] = q[k]
      <3>1. i \in DOMAIN p /\ i \in DOMAIN q /\ i \in Nat
        <4>1. i \in T
          OBVIOUS
        <4> HIDE DEF T
        <4>2. i \in Nat
          BY <2>1, <4>1
        <4> QED
          BY <4>1, <4>2, Zenon DEF T
      <3>2. k \in DOMAIN p \cap DOMAIN q /\ ~ i <= k
        BY <1>1, <3>1
      <3>3. k \notin T
        BY <2>2, <3>2
      <3> QED
        BY <3>2, <3>3
    <2>4. q[i] <= p[i] /\ p[i] <= q[i]
      BY <2>3, FirstDifference
    <2> QED
      BY <1>1, <2>4
  <1>3. ASSUME NEW u \in Seq(Int), NEW v \in Seq(Int), RisesIn(v), ToSet(u) = ToSet(v),
               DOMAIN u = 1 .. Len(u), Len(u) \in Nat, DOMAIN v = 1 .. Len(v), Len(v) \in Nat,
               \A k \in DOMAIN v : v[k] \in Int,
               \A i \in DOMAIN u \cap DOMAIN v : u[i] = v[i]
        PROVE  Len(v) <= Len(u)
    <2> SUFFICES ASSUME Len(u) < Len(v) PROVE FALSE
      BY <1>3
    <2> DEFINE n == Len(u) + 1
    <2>1. n \in DOMAIN v
      BY <1>3
    <2>2. PICK j \in DOMAIN u : u[j] = v[n]
      BY <1>3, <2>1 DEF ToSet
    <2>3. j \in DOMAIN v /\ j < n /\ v[j] = v[n]
      BY <1>3, <2>2
    <2>4. v[j] < v[n]
      BY <1>3, <2>1, <2>3 DEF RisesIn
    <2> QED
      BY <1>3, <2>1, <2>3, <2>4
  <1>4. Len(p) = Len(q)
    <2>1. Len(p) <= Len(q)
      BY <1>1, <1>2, <1>3
    <2>2. Len(q) <= Len(p)
      BY <1>1, <1>2, <1>3
    <2>3. \A m, n \in Nat : m <= n /\ n <= m => m = n
      OBVIOUS
    <2> QED
      BY <1>1, <2>1, <2>2, <2>3, Zenon
  <1> QED
    BY <1>1, <1>2, <1>4, SeqEqual

KeysAscend(q, key) == \A i, j \in DOMAIN q : i < j => key[q[i]] <= key[q[j]]
KeysRise(q, key) == \A i, j \in DOMAIN q : i < j => key[q[i]] < key[q[j]]
RunStarts(q, key) == {i \in DOMAIN q : i = 1 \/ ~ key[q[i - 1]] = key[q[i]]}

\* Of a sorted sequence the first of each run of equal elements: each key once,
\* in its order.
LEMMA FirstOfRuns ==
  ASSUME NEW S, NEW b \in Seq(S), NEW key \in [S -> Int],
         KeysAscend(b, key), NEW p, p = Selected(b, RunStarts(b, key))
  PROVE  /\ p \in Seq(S) /\ ToSet(p) \subseteq ToSet(b) /\ KeysRise(p, key)
         /\ \A x \in ToSet(b) : \E y \in ToSet(p) : key[y] = key[x]
  <1>1. /\ DOMAIN b = 1 .. Len(b) /\ Len(b) \in Nat /\ \A i \in 1 .. Len(b) : b[i] \in S
        /\ \A i \in 1 .. Len(b) : key[b[i]] \in Int
    BY LenProperties, ElementOfSeq
  <1> DEFINE I == RunStarts(b, key)
  <1>0. /\ I \in SUBSET (1 .. Len(b)) /\ p = Selected(b, I)
        /\ \A i \in 1 .. Len(b) : i \in I <=> i = 1 \/ key[b[i - 1]] # key[b[i]]
    BY <1>1 DEF RunStarts
  <1> HIDE DEF I
  <1>2. /\ p \in Seq(S) /\ DOMAIN p = 1 .. Cardinality(I) /\ ToSet(p) = {b[i] : i \in I}
        /\ \A n \in 1 .. Cardinality(I) : p[n] = b[Place(I, n)]
    BY <1>0, SelectedProperties, LenProperties
  <1>3. /\ \A n \in 1 .. Cardinality(I) : Place(I, n) \in I
        /\ \A m, n \in 1 .. Cardinality(I) : m < n => Place(I, m) < Place(I, n)
    BY <1>0, <1>1, PlaceProperties
  <1>4. ASSUME NEW i \in I, NEW j \in I, i < j PROVE key[b[i]] < key[b[j]]
    <2>1. /\ j - 1 \in 1 .. Len(b) /\ key[b[j - 1]] # key[b[j]]
          /\ j - 1 < j /\ (i < j - 1 \/ i = j - 1) /\ i \in 1 .. Len(b) /\ j \in 1 .. Len(b)
      BY <1>0, <1>1, <1>4
    <2>2. key[b[j - 1]] <= key[b[j]] /\ (i < j - 1 => key[b[i]] <= key[b[j - 1]])
      BY <1>1, <2>1 DEF KeysAscend
    <2> QED
      BY <1>1, <2>1, <2>2
  <1>5. ASSUME NEW i \in DOMAIN p, NEW j \in DOMAIN p, i < j PROVE key[p[i]] < key[p[j]]
    <2>1. i \in 1 .. Cardinality(I) /\ j \in 1 .. Cardinality(I)
      BY <1>2
    <2>2. Place(I, i) \in I /\ Place(I, j) \in I /\ Place(I, i) < Place(I, j)
      BY <1>3, <1>5, <2>1
    <2>3. key[b[Place(I, i)]] < key[b[Place(I, j)]]
      BY <1>4, <2>2
    <2> QED
      BY <1>2, <2>1, <2>3
  <1>6. ASSUME NEW x \in ToSet(b) PROVE \E y \in ToSet(p) : key[y] = key[x]
    <2> DEFINE T == {i \in 1 .. Len(b) : key[b[i]] = key[x]}
    <2>1. T # {} /\ T \in SUBSET Nat
      BY <1>1 DEF ToSet
    <2>2. PICK i \in T : \A k \in T : i <= k
      BY <2>1, LeastNumber
    <2>3. i = 1 \/ i - 1 \in 1 .. Len(b)
      BY <1>1, <2>2
    <2>4. i - 1 \notin T
      BY <1>1, <2>2
    <2>5. i \in I
      BY <1>0, <2>2, <2>3, <2>4
    <2> QED
      BY <1>2, <2>2, <2>5
  <1>7. ToSet(p) \subseteq ToSet(b)
    BY <1>0, <1>1, <1>2 DEF ToSet
  <1> QED
    BY <1>2, <1>5, <1>6, <1>7 DEF KeysRise

-----------------------------------------------------------------------------
\* h is the sum of the weights w over each part of D, taken in the order in
\* which m names the elements.
IsSum(h, D, m, w) ==
  /\ IsFiniteSet(D) /\ \A x \in D : w[x] \in Int
  /\ \A s \in SUBSET D : s # {} => m[s] \in s
  /\ h = [s \in SUBSET D |-> IF s = {} THEN 0 ELSE h[s \ {m[s]}] + w[m[s]]]

\* There is such a function for every order.
LEMMA SumExists ==
  ASSUME NEW D, IsFiniteSet(D), NEW m, \A s \in SUBSET D : s # {} => m[s] \in s,
         NEW w, \A x \in D : w[x] \in Int
  PROVE  \E h : IsSum(h, D, m, w)
  <1> DEFINE Sub(k) == {s \in SUBSET D : Cardinality(s) <= k}
             Eqn(h, k) == h = [s \in Sub(k) |-> IF s = {} THEN 0 ELSE h[s \ {m[s]}] + w[m[s]]]
             Bad == {k \in Nat : ~ \E h : Eqn(h, k)}
  <1>1. ASSUME NEW s \in SUBSET D PROVE IsFiniteSet(s) /\ Cardinality(s) \in Nat
    BY FS_Subset, FS_CardinalityType
  <1>2. Cardinality(D) \in Nat /\ Sub(Cardinality(D)) = SUBSET D
    <2>1. \A s \in SUBSET D : Cardinality(s) <= Cardinality(D)
      BY FS_Subset
    <2> QED
      BY <1>1, <2>1
  <1>3. ASSUME NEW s \in SUBSET D PROVE Cardinality(s) = 0 <=> s = {}
    BY <1>1, FS_EmptySet
  <1>4. ASSUME NEW s \in SUBSET D, s # {} PROVE s \ {m[s]} \in SUBSET D
                                              /\ Cardinality(s \ {m[s]}) = Cardinality(s) - 1
    BY <1>1, <1>4, FS_RemoveElement
  <1>5. Bad = {}
    <2> SUFFICES ASSUME Bad # {} PROVE FALSE
      OBVIOUS
    <2>1. PICK k \in Bad : k \in Nat /\ \A l \in Nat : l < k => l \notin Bad
      <3>1. Bad \in SUBSET Nat /\ Bad # {}
        OBVIOUS
      <3> HIDE DEF Bad
      <3> QED
        BY <3>1, Least
    <2>2. CASE k = 0
      <3> DEFINE h == [s \in Sub(0) |-> 0]
      <3>1. \A s \in Sub(0) : s = {}
        BY <1>1, <1>3
      <3> HIDE DEF Sub
      <3>2. Eqn(h, 0)
        BY <3>1
      <3> HIDE DEF h, Eqn
      <3> QED
        BY <2>2, <3>2
    <2>3. CASE k # 0
      <3>1. k - 1 \in Nat /\ k - 1 < k
        BY <2>1, <2>3
      <3>2. PICK h : Eqn(h, k - 1)
        BY <2>1, <3>1
      <3> DEFINE g == [s \in Sub(k) |-> IF s = {} THEN 0 ELSE h[s \ {m[s]}] + w[m[s]]]
      <3>3. \A s \in Sub(k) : s # {} => s \ {m[s]} \in Sub(k - 1)
        BY <1>1, <1>4, <3>1
      <3>4. \A s \in Sub(k - 1) : s \in Sub(k)
        BY <1>1, <3>1
      <3> HIDE DEF Sub
      <3>5. \A s \in Sub(k - 1) : h[s] = g[s]
        BY <3>2, <3>4
      <3>6. Eqn(g, k)
        BY <3>3, <3>5
      <3> HIDE DEF g, Eqn
      <3> QED
        BY <3>6
    <2> QED
      BY <2>2, <2>3
  <1>6. PICK h : Eqn(h, Cardinality(D))
    BY <1>2, <1>5
  <1>7. IsSum(h, D, m, w)
    <2> HIDE DEF Sub
    <2> QED
      BY <1>2, <1>6 DEF IsSum
  <1> QED
    BY <1>7

\* Its order does not matter: any element may be taken last.
LEMMA SumStep ==
  ASSUME NEW D, NEW m, NEW w, NEW h, IsSum(h, D, m, w)
  PROVE  /\ h[{}] = 0 /\ \A s \in SUBSET D : h[s] \in Int
         /\ \A s \in SUBSET D : \A x \in s : h[s] = h[s \ {x}] + w[x]
  <1>0. /\ IsFiniteSet(D) /\ \A x \in D : w[x] \in Int
        /\ \A s \in SUBSET D : s # {} => m[s] \in s
    BY DEF IsSum
  <1>1. ASSUME NEW s \in SUBSET D PROVE IsFiniteSet(s) /\ Cardinality(s) \in Nat
    BY <1>0, FS_Subset, FS_CardinalityType
  <1>2. ASSUME NEW s \in SUBSET D PROVE h[s] = IF s = {} THEN 0 ELSE h[s \ {m[s]}] + w[m[s]]
    BY DEF IsSum
  <1>3. ASSUME NEW s \in SUBSET D, NEW x \in s
        PROVE  s \ {x} \in SUBSET D /\ Cardinality(s \ {x}) = Cardinality(s) - 1
               /\ Cardinality(s \ {x}) \in Nat
    BY <1>1, FS_RemoveElement
  <1>4. h[{}] = 0
    BY <1>2
  <1>5. \A s \in SUBSET D : h[s] \in Int
    <2> DEFINE Bad == {k \in Nat : \E s \in SUBSET D : Cardinality(s) = k /\ h[s] \notin Int}
    <2> SUFFICES ASSUME Bad # {} PROVE FALSE
      BY <1>1
    <2>1. PICK k \in Bad : k \in Nat /\ \A l \in Nat : l < k => l \notin Bad
      <3>1. Bad \in SUBSET Nat /\ Bad # {}
        OBVIOUS
      <3> HIDE DEF Bad
      <3> QED
        BY <3>1, Least
    <2>2. PICK s \in SUBSET D : Cardinality(s) = k /\ h[s] \notin Int
      OBVIOUS
    <2>3. \A t \in SUBSET D : Cardinality(t) < k => h[t] \in Int
      BY <1>1, <2>1
    <2> HIDE DEF Bad
    <2> DEFINE y == m[s]
    <2>4. s # {} /\ y \in s /\ h[s] = h[s \ {y}] + w[y]
      <3>1. s # {}
        <4>1. h[s] = 0 => h[s] \in Int
          OBVIOUS
        <4>2. s = {} => h[s] = 0
          BY <1>4
        <4> QED
          BY <2>2, <4>1, <4>2
      <3>2. y \in s
        BY <1>0, <3>1
      <3> QED
        BY <1>2, <3>1, <3>2
    <2> HIDE DEF y
    <2>5. s \ {y} \in SUBSET D /\ Cardinality(s \ {y}) < k /\ w[y] \in Int
      BY <1>0, <1>1, <1>3, <2>2, <2>4
    <2> QED
      BY <2>2, <2>3, <2>4, <2>5
  <1>6. \A s \in SUBSET D : \A x \in s : h[s] = h[s \ {x}] + w[x]
    <2> DEFINE Bad == {k \in Nat : \E s \in SUBSET D : \E x \in s :
                                     Cardinality(s) = k /\ h[s] # h[s \ {x}] + w[x]}
    <2> SUFFICES ASSUME Bad # {} PROVE FALSE
      BY <1>1
    <2>1. PICK k \in Bad : k \in Nat /\ \A l \in Nat : l < k => l \notin Bad
      <3>1. Bad \in SUBSET Nat /\ Bad # {}
        OBVIOUS
      <3> HIDE DEF Bad
      <3> QED
        BY <3>1, Least
    <2>2. PICK s \in SUBSET D : \E x \in s : Cardinality(s) = k /\ h[s] # h[s \ {x}] + w[x]
      OBVIOUS
    <2>3. PICK x \in s : Cardinality(s) = k /\ h[s] # h[s \ {x}] + w[x]
      BY <2>2
    <2>a. ASSUME NEW t \in SUBSET D, Cardinality(t) < k, NEW z \in t PROVE h[t] = h[t \ {z}] + w[z]
      <3>1. Cardinality(t) \in Nat /\ Cardinality(t) \notin Bad
        BY <1>1, <2>1, <2>a
      <3> QED
        BY <3>1
    <2> HIDE DEF Bad
    <2> DEFINE y == m[s]
    <2>4. y \in s /\ h[s] = h[s \ {y}] + w[y]
      BY <1>0, <1>2, <2>3
    <2>b. x # y
      BY <2>3, <2>4
    <2> HIDE DEF y
    <2>5. /\ s \ {x} \in SUBSET D /\ Cardinality(s \ {x}) < k
          /\ s \ {y} \in SUBSET D /\ Cardinality(s \ {y}) < k
      BY <1>1, <1>3, <2>3, <2>4
    <2>7. /\ h[s \ {y}] = h[(s \ {y}) \ {x}] + w[x]
          /\ h[s \ {x}] = h[(s \ {x}) \ {y}] + w[y]
      <3>1. x \in s \ {y} /\ y \in s \ {x}
        BY <2>3, <2>4, <2>b
      <3> QED
        BY <2>5, <2>a, <3>1
    <2>8. (s \ {x}) \ {y} = (s \ {y}) \ {x} /\ (s \ {x}) \ {y} \in SUBSET D
      OBVIOUS
    <2>9. w[x] \in Int /\ w[y] \in Int /\ h[(s \ {x}) \ {y}] \in Int
      BY <1>0, <1>5, <2>4, <2>8
    <2> DEFINE a == h[(s \ {x}) \ {y}]
    <2>10. h[s \ {y}] = a + w[x] /\ h[s \ {x}] = a + w[y]
      BY <2>7, <2>8
    <2> HIDE DEF a
    <2>11. a \in Int
      BY <2>9 DEF a
    <2>12. \A k1, k2, k3 \in Int : (k1 + k2) + k3 = (k1 + k3) + k2
      OBVIOUS
    <2> QED
      BY <2>3, <2>4, <2>9, <2>10, <2>11, <2>12
  <1> QED
    BY <1>4, <1>5, <1>6

\* The elements of one weight.
LEMMA SumOfEqual ==
  ASSUME NEW D, NEW m, NEW w, NEW h, IsSum(h, D, m, w),
         NEW A \in SUBSET D, NEW P \in SUBSET D, A \cap P = {},
         NEW v \in Int, \A x \in P : w[x] = v
  PROVE  h[A \cup P] = h[A] + v * Cardinality(P)
  <1>1. ASSUME NEW s \in SUBSET D PROVE IsFiniteSet(s) /\ Cardinality(s) \in Nat /\ h[s] \in Int
    <2>1. IsFiniteSet(D)
      BY DEF IsSum
    <2> QED
      BY <2>1, FS_Subset, FS_CardinalityType, SumStep
  <1>2. ASSUME NEW s \in SUBSET D, NEW x \in s PROVE h[s] = h[s \ {x}] + w[x]
    <2>1. /\ h[{}] = 0 /\ \A t \in SUBSET D : h[t] \in Int
          /\ \A t \in SUBSET D : \A y \in t : h[t] = h[t \ {y}] + w[y]
      BY ONLY IsSum(h, D, m, w), SumStep
    <2> QED
      BY <2>1
  <1> DEFINE Bad == {k \in Nat : \E Q \in SUBSET P : Cardinality(Q) = k /\ h[A \cup Q] # h[A] + v * k}
  <1>3. Bad = {}
    <2> SUFFICES ASSUME Bad # {} PROVE FALSE
      OBVIOUS
    <2>1. PICK k \in Bad : k \in Nat /\ \A l \in Nat : l < k => l \notin Bad
      <3>1. Bad \in SUBSET Nat /\ Bad # {}
        OBVIOUS
      <3> HIDE DEF Bad
      <3> QED
        BY <3>1, Least
    <2>2. PICK Q \in SUBSET P : Cardinality(Q) = k /\ h[A \cup Q] # h[A] + v * k
      OBVIOUS
    <2>3. Q \in SUBSET D
      OBVIOUS
    <2>4. Q # {}
      <3> SUFFICES ASSUME Q = {} PROVE FALSE
        OBVIOUS
      <3>1. k = 0
        BY <2>2, FS_EmptySet
      <3>2. A \cup Q = A /\ h[A] \in Int
        BY <1>1
      <3>3. h[A] + v * 0 = h[A]
        BY <3>2
      <3> QED
        BY <2>2, <3>1, <3>2, <3>3
    <2>5. PICK x \in Q : TRUE
      BY <2>4
    <2> DEFINE R == Q \ {x}
    <2>6. R \in SUBSET P /\ Cardinality(R) = k - 1 /\ k - 1 \in Nat
      <3>1. Cardinality(R) = k - 1
        BY <1>1, <2>2, <2>3, FS_RemoveElement
      <3>2. R \in SUBSET D /\ R \in SUBSET P
        OBVIOUS
      <3> HIDE DEF R
      <3> QED
        BY <1>1, <3>1, <3>2
    <2>7. h[A \cup R] = h[A] + v * (k - 1)
      <3>1. k - 1 \notin Bad
        <4>1. k - 1 \in Nat /\ k - 1 < k
          BY <2>1, <2>6
        <4> HIDE DEF Bad
        <4> QED
          BY <2>1, <4>1
      <3> HIDE DEF R
      <3> QED
        BY <2>6, <3>1
    <2> HIDE DEF Bad
    <2>8. h[A \cup Q] = h[A \cup R] + v
      <3>1. A \cup Q \in SUBSET D /\ x \in A \cup Q /\ (A \cup Q) \ {x} = A \cup R /\ w[x] = v
        OBVIOUS
      <3> QED
        BY <1>2, <3>1
    <2>9. \A a \in Int : (a + v * (k - 1)) + v = a + v * k
      <3>1. v * (k - 1) = v * k - v /\ v * k \in Int
        BY <2>1
      <3> QED
        BY <3>1
    <2>10. h[A] \in Int
      BY <1>1
    <2> HIDE DEF R
    <2> QED
      BY <2>2, <2>7, <2>8, <2>9, <2>10
  <1>4. Cardinality(P) \in Nat
    BY <1>1
  <1>5. Cardinality(P) \notin Bad
    BY <1>3
  <1> QED
    BY <1>4, <1>5

\* The sum over the places is that over the values, each as often as it occurs.
LEMMA SumByValue ==
  ASSUME NEW c \in Seq(Int), NEW m, NEW h, IsSum(h, DOMAIN c, m, c), NEW n, NEW g,
         IsSum(g, ToSet(c), n, [v \in ToSet(c) |-> v * Occurrences(c, v)])
  PROVE  h[DOMAIN c] = g[ToSet(c)]
  <1> DEFINE w == [v \in ToSet(c) |-> v * Occurrences(c, v)]
             at(W) == {i \in DOMAIN c : c[i] \in W}
  <1>1. IsFiniteSet(DOMAIN c) /\ \A i \in DOMAIN c : c[i] \in Int
    <2>1. DOMAIN c = 1 .. Len(c) /\ Len(c) \in Nat
      BY LenProperties
    <2>2. IsFiniteSet(1 .. Len(c))
      BY <2>1, FS_Interval
    <2> QED
      BY <2>1, <2>2, ElementOfSeq
  <1>2. IsFiniteSet(ToSet(c))
    <2>1. c \in Surjection(DOMAIN c, ToSet(c))
      BY DEF ToSet, Surjection
    <2> QED
      BY <1>1, <2>1, FS_Surjection
  <1>3. \A v \in ToSet(c) : v \in Int /\ Occurrences(c, v) \in Nat
    BY <1>1, FinitePlaces DEF ToSet
  <1>4. \A v \in ToSet(c) : w[v] \in Int /\ w[v] = v * Occurrences(c, v)
    BY <1>3
  <1>5. /\ h[{}] = 0 /\ g[{}] = 0
        /\ \A W \in SUBSET ToSet(c) : g[W] \in Int /\ \A v \in W : g[W] = g[W \ {v}] + w[v]
    <2>1. h[{}] = 0
      BY <1>1, SumStep
    <2>2. IsSum(g, ToSet(c), n, w)
      OBVIOUS
    <2> HIDE DEF w
    <2>3. /\ g[{}] = 0 /\ \A W \in SUBSET ToSet(c) : g[W] \in Int
          /\ \A W \in SUBSET ToSet(c) : \A v \in W : g[W] = g[W \ {v}] + w[v]
      BY <1>2, <1>4, <2>2, SumStep
    <2> QED
      BY <2>1, <2>3
  <1>6. ASSUME NEW W \in SUBSET ToSet(c) PROVE IsFiniteSet(W) /\ Cardinality(W) \in Nat
    BY <1>2, FS_Subset, FS_CardinalityType
  <1> DEFINE Bad == {k \in Nat : \E W \in SUBSET ToSet(c) : Cardinality(W) = k /\ h[at(W)] # g[W]}
  <1>7. Bad = {}
    <2> SUFFICES ASSUME Bad # {} PROVE FALSE
      OBVIOUS
    <2>1. PICK k \in Bad : k \in Nat /\ \A l \in Nat : l < k => l \notin Bad
      <3>1. Bad \in SUBSET Nat /\ Bad # {}
        OBVIOUS
      <3> HIDE DEF Bad
      <3> QED
        BY <3>1, Least
    <2>2. PICK W \in SUBSET ToSet(c) : Cardinality(W) = k /\ h[at(W)] # g[W]
      OBVIOUS
    <2>3. ASSUME NEW X \in SUBSET ToSet(c), Cardinality(X) < k PROVE h[at(X)] = g[X]
      <3>1. Cardinality(X) \in Nat /\ Cardinality(X) \notin Bad
        BY <1>6, <2>1, <2>3
      <3> HIDE DEF at
      <3> QED
        BY <3>1
    <2> HIDE DEF Bad
    <2>4. W # {}
      <3>1. W = {} => at(W) = {}
        OBVIOUS
      <3> QED
        BY <1>5, <2>2, <3>1
    <2>5. PICK v \in W : TRUE
      BY <2>4
    <2> DEFINE X == W \ {v}
               P == {i \in DOMAIN c : c[i] = v}
    <2>6. X \in SUBSET ToSet(c) /\ Cardinality(X) < k
      <3>1. Cardinality(X) = Cardinality(W) - 1
        BY <1>6, FS_RemoveElement
      <3> QED
        BY <1>6, <2>2, <3>1
    <2>7. h[at(X)] = g[X]
      BY <2>3, <2>6
    <2>8. g[W] = g[X] + v * Occurrences(c, v)
      BY <1>4, <1>5
    <2>9. h[at(X) \cup P] = h[at(X)] + v * Cardinality(P)
      <3>1. /\ at(X) \in SUBSET DOMAIN c /\ P \in SUBSET DOMAIN c /\ at(X) \cap P = {}
            /\ v \in Int /\ \A i \in P : c[i] = v
        BY <1>3
      <3> HIDE DEF at, P, X
      <3> QED
        BY <1>1, <3>1, SumOfEqual
    <2>10. at(X) \cup P = at(W)
      OBVIOUS
    <2> HIDE DEF at, X
    <2> QED
      BY <2>2, <2>7, <2>8, <2>9, <2>10 DEF Occurrences
  <1>8. ToSet(c) \in SUBSET ToSet(c) /\ at(ToSet(c)) = DOMAIN c
    BY DEF ToSet
  <1>9. h[at(ToSet(c))] = g[ToSet(c)]
    <2>1. Cardinality(ToSet(c)) \in Nat /\ Cardinality(ToSet(c)) \notin Bad
      BY <1>6, <1>7
    <2> HIDE DEF at
    <2> QED
      BY <2>1, <1>8
  <1> QED
    BY <1>8, <1>9

\* What is left of a queue from one place on.
LEMMA SubSeqFrom ==
  ASSUME NEW S, NEW s \in Seq(S), NEW m \in 1 .. Len(s) + 1
  PROVE  /\ SubSeq(s, m, Len(s)) \in Seq(S) /\ Len(SubSeq(s, m, Len(s))) = Len(s) - m + 1
         /\ \A k \in 1 .. Len(s) - m + 1 : SubSeq(s, m, Len(s))[k] = s[m + k - 1]
  <1>1. /\ Len(s) \in Int /\ Len(s) >= 0 /\ m \in Int
        /\ \A i \in m .. Len(s) : s[i] \in S
    BY ElementOfSeq, LenProperties
  <1>2. /\ SubSeq(s, m, Len(s)) \in Seq(S)
        /\ Len(SubSeq(s, m, Len(s))) = IF m <= Len(s) THEN Len(s) - m + 1 ELSE 0
        /\ \A k \in 1 .. Len(s) - m + 1 : SubSeq(s, m, Len(s))[k] = s[m + k - 1]
    BY <1>1, SubSeqProperties
  <1>3. (IF m <= Len(s) THEN Len(s) - m + 1 ELSE 0) = Len(s) - m + 1
    BY <1>1
  <1> QED
    BY <1>2, <1>3

PlacesFrom(c, val, n, k) == {j \in k .. n : c[j] = val}

\* Of the places behind i those that satisfy the condition, and i itself.
LEMMA Suffix ==
  ASSUME NEW c, NEW val, NEW n \in Nat, NEW i \in 1 .. n
  PROVE  /\ Cardinality(PlacesFrom(c, val, n, i + 1)) \in Nat
         /\ Cardinality(PlacesFrom(c, val, n, i))
              = Cardinality(PlacesFrom(c, val, n, i + 1)) + (IF c[i] = val THEN 1 ELSE 0)
  <1> DEFINE A == PlacesFrom(c, val, n, i)
             B == PlacesFrom(c, val, n, i + 1)
  <1>1. IsFiniteSet(i + 1 .. n) /\ B \in SUBSET (i + 1 .. n)
    BY FS_Interval DEF PlacesFrom
  <1>2. IsFiniteSet(B) /\ Cardinality(B) \in Nat
    BY <1>1, FS_Subset, FS_CardinalityType
  <1>3. i \notin B
    BY DEF PlacesFrom
  <1>4. A = IF c[i] = val THEN B \cup {i} ELSE B
    BY DEF PlacesFrom
  <1>5. Cardinality(B \cup {i}) = Cardinality(B) + 1
    BY <1>2, <1>3, FS_AddElement
  <1> HIDE DEF A, B
  <1>6. Cardinality(A) = Cardinality(B) + (IF c[i] = val THEN 1 ELSE 0)
    BY <1>2, <1>4, <1>5
  <1> QED
    BY <1>2, <1>6 DEF A, B

\* Counted from each place on, it is how often a value occurs.
LEMMA CountOccurrences ==
  ASSUME NEW S, NEW c \in Seq(S), NEW val
  PROVE  LET res[first \in 1 .. Len(c) + 1] ==
               IF first = Len(c) + 1 THEN 0
               ELSE res[first + 1] + (IF c[first] = val THEN 1 ELSE 0)
         IN res[1] = Occurrences(c, val)
  <1> DEFINE n == Len(c)
             From(k) == PlacesFrom(c, val, n, k)
             res == CHOOSE h : h = [first \in 1 .. n + 1 |->
                                      IF first = n + 1 THEN 0
                                      ELSE h[first + 1] + (IF c[first] = val THEN 1 ELSE 0)]
             g == [first \in 1 .. n + 1 |-> Cardinality(From(first))]
  <1>2. n \in Nat /\ DOMAIN c = 1 .. n
    BY LenProperties
  <1> HIDE DEF n
  <1>3. From(n + 1) = {} /\ Cardinality(From(n + 1)) = 0
    <2>1. From(n + 1) = {}
      BY <1>2 DEF PlacesFrom
    <2> QED
      BY <2>1, FS_EmptySet
  <1>4. ASSUME NEW i \in 1 .. n
        PROVE  Cardinality(From(i)) = Cardinality(From(i + 1)) + (IF c[i] = val THEN 1 ELSE 0)
    BY <1>2, Suffix
  <1> HIDE DEF From
  <1>5. g = [first \in 1 .. n + 1 |-> IF first = n + 1 THEN 0
                                      ELSE g[first + 1] + (IF c[first] = val THEN 1 ELSE 0)]
    <2>1. ASSUME NEW i \in 1 .. n + 1
          PROVE  g[i] = IF i = n + 1 THEN 0 ELSE g[i + 1] + (IF c[i] = val THEN 1 ELSE 0)
      <3>1. CASE i = n + 1
        BY <1>3, <3>1
      <3>2. CASE i # n + 1
        <4>1. i \in 1 .. n /\ i + 1 \in 1 .. n + 1
          BY <1>2, <3>2
        <4> QED
          BY <1>4, <3>2, <4>1
      <3> QED
        BY <3>1, <3>2
    <2> QED
      BY <2>1
  <1>6. res = [first \in 1 .. n + 1 |-> IF first = n + 1 THEN 0
                                        ELSE res[first + 1] + (IF c[first] = val THEN 1 ELSE 0)]
    <2> HIDE DEF g
    <2> QED
      BY <1>5
  <1> HIDE DEF res, g
  <1> DEFINE Bad == {i \in 1 .. n + 1 : res[i] # Cardinality(From(i))}
  <1>7. Bad = {}
    <2> SUFFICES ASSUME Bad # {} PROVE FALSE
      OBVIOUS
    <2>1. PICK i \in Bad : \A j \in Bad : j <= i
      <3>1. Bad \in SUBSET (1 .. n + 1) /\ n + 1 \in Int /\ 1 \in Int /\ Bad # {}
        BY <1>2
      <3> HIDE DEF Bad
      <3> QED
        BY <3>1, GreatestNumber
    <2>2. i # n + 1
      BY <1>2, <1>3, <1>6, <2>1
    <2>3. i \in 1 .. n /\ i + 1 \in 1 .. n + 1 /\ i + 1 \notin Bad
      BY <1>2, <2>1, <2>2
    <2>4. res[i] = res[i + 1] + (IF c[i] = val THEN 1 ELSE 0)
      BY <1>6, <2>1, <2>2
    <2> QED
      BY <1>4, <2>1, <2>3, <2>4
  <1>8. res[1] = Cardinality(From(1))
    BY <1>2, <1>7
  <1> QED
    BY <1>2, <1>8, Zenon DEF n, res, From, PlacesFrom, Occurrences

\* The first place of val, or the one behind the last.
FirstPlace(c, first, val) ==
  LET found == {i \in first..Len(c) : c[i] = val} IN
  IF found = {} THEN Len(c) + 1 ELSE CHOOSE i \in found : \A j \in found : i <= j

\* Behind that place begins the rest of the count.
LEMMA FirstPlaceCounts ==
  ASSUME NEW c, NEW val, NEW n \in Nat, n = Len(c), NEW k \in 1 .. n + 1
  PROVE  LET f == FirstPlace(c, k, val) IN
         /\ f \in k .. n + 1
         /\ f = n + 1 => PlacesFrom(c, val, n, k) = {}
         /\ f # n + 1 => Cardinality(PlacesFrom(c, val, n, k))
                           = 1 + Cardinality(PlacesFrom(c, val, n, f + 1))
  <1> DEFINE From(i) == PlacesFrom(c, val, n, i)
             f == FirstPlace(c, k, val)
  <1>1. f = IF From(k) = {} THEN n + 1 ELSE CHOOSE i \in From(k) : \A j \in From(k) : i <= j
    BY DEF FirstPlace, PlacesFrom
  <1>2. CASE From(k) = {}
    BY <1>1, <1>2
  <1>3. CASE From(k) # {}
    <2>1. \E i \in From(k) : \A j \in From(k) : i <= j
      <3>1. From(k) \in SUBSET Nat
        BY DEF PlacesFrom
      <3> HIDE DEF From
      <3> QED
        BY <1>3, <3>1, LeastNumber
    <2>2. f \in From(k) /\ \A j \in From(k) : f <= j
      <3> HIDE DEF From, f
      <3> QED
        BY <1>1, <1>3, <2>1
    <2> HIDE DEF f
    <2>3. f \in 1 .. n /\ f \in k .. n /\ c[f] = val
      BY <2>2 DEF PlacesFrom
    <2>4. From(k) = From(f)
      BY <2>2, <2>3 DEF PlacesFrom
    <2>5. Cardinality(From(f)) = Cardinality(From(f + 1)) + 1 /\ Cardinality(From(f + 1)) \in Nat
      BY <2>3, Suffix
    <2> QED
      BY <1>3, <2>3, <2>4, <2>5 DEF f
  <1> QED
    BY <1>2, <1>3

\* Counted from each first place to the next one, a value occurs as often.
LEMMA PlacesCount ==
  ASSUME NEW S, NEW c \in Seq(S), NEW val
  PROVE  LET n[iter \in 1 .. Len(c) + 2] ==
               IF iter > Len(c) THEN 0 ELSE 1 + n[FirstPlace(c, iter + 1, val)]
         IN n[FirstPlace(c, 1, val)] = Occurrences(c, val)
  <1> DEFINE len == Len(c)
             find(k) == FirstPlace(c, k, val)
             From(k) == PlacesFrom(c, val, len, k)
             n == CHOOSE h : h = [iter \in 1 .. len + 2 |->
                                    IF iter > len THEN 0 ELSE 1 + h[FirstPlace(c, iter + 1, val)]]
             g == [iter \in 1 .. len + 2 |-> IF iter > len THEN 0 ELSE 1 + Cardinality(From(iter + 1))]
  <1>2. len \in Nat /\ DOMAIN c = 1 .. len
    BY LenProperties
  <1>4. ASSUME NEW k \in 1 .. len + 1
        PROVE  /\ find(k) \in k .. len + 1
               /\ find(k) = len + 1 => From(k) = {}
               /\ find(k) # len + 1 => Cardinality(From(k)) = 1 + Cardinality(From(find(k) + 1))
    BY <1>2, FirstPlaceCounts
  <1> HIDE DEF len, find, From
  <1>5. ASSUME NEW h, NEW lo \in 1 .. len + 1,
               \A i \in lo .. len + 2 : h[i] = IF i > len THEN 0 ELSE 1 + Cardinality(From(i + 1))
        PROVE  h[find(lo)] = Cardinality(From(lo))
    <2>1. find(lo) \in lo .. len + 2
      BY <1>2, <1>4
    <2>2. CASE find(lo) = len + 1
      <3>1. From(lo) = {} /\ Cardinality(From(lo)) = 0
        BY <1>4, <2>2, FS_EmptySet
      <3>2. h[find(lo)] = 0
        BY <1>2, <1>5, <2>1, <2>2
      <3> QED
        BY <3>1, <3>2
    <2>3. CASE find(lo) # len + 1
      <3>1. ~ find(lo) > len
        BY <1>2, <1>4, <2>3
      <3> QED
        BY <1>4, <1>5, <2>1, <2>3, <3>1
    <2> QED
      BY <2>2, <2>3
  <1>6. g = [iter \in 1 .. len + 2 |->
               IF iter > len THEN 0 ELSE 1 + g[FirstPlace(c, iter + 1, val)]]
    <2>1. ASSUME NEW i \in 1 .. len + 2
          PROVE  g[i] = IF i > len THEN 0 ELSE 1 + g[find(i + 1)]
      <3>1. CASE i > len
        BY <3>1
      <3>2. CASE ~ i > len
        <4>1. i + 1 \in 1 .. len + 1
          BY <1>2, <3>2
        <4>2. \A j \in i + 1 .. len + 2 : g[j] = IF j > len THEN 0 ELSE 1 + Cardinality(From(j + 1))
          BY <1>2
        <4> HIDE DEF g
        <4>3. g[find(i + 1)] = Cardinality(From(i + 1))
          BY <1>5, <4>1, <4>2
        <4> QED
          BY <3>2, <4>3 DEF g
      <3> QED
        BY <3>1, <3>2
    <2> QED
      BY <2>1 DEF find
  <1>7. n = [iter \in 1 .. len + 2 |->
               IF iter > len THEN 0 ELSE 1 + n[FirstPlace(c, iter + 1, val)]]
    <2> HIDE DEF g
    <2> QED
      BY <1>6
  <1>8. \A i \in 1 .. len + 2 : n[i] = IF i > len THEN 0 ELSE 1 + n[find(i + 1)]
    <2> HIDE DEF n
    <2> QED
      BY <1>7 DEF find
  <1> HIDE DEF n, g
  <1> DEFINE Bad == {i \in 1 .. len + 2 : n[i] # IF i > len THEN 0 ELSE 1 + Cardinality(From(i + 1))}
  <1>9. Bad = {}
    <2> SUFFICES ASSUME Bad # {} PROVE FALSE
      OBVIOUS
    <2>1. PICK i \in Bad : \A j \in Bad : j <= i
      <3>1. Bad \in SUBSET (1 .. len + 2) /\ len + 2 \in Int /\ 1 \in Int /\ Bad # {}
        BY <1>2
      <3> HIDE DEF Bad
      <3> QED
        BY <3>1, GreatestNumber
    <2>2. i \in 1 .. len + 2 /\ n[i] # IF i > len THEN 0 ELSE 1 + Cardinality(From(i + 1))
      OBVIOUS
    <2>3. ~ i > len /\ i + 1 \in 1 .. len + 1
      BY <1>2, <1>8, <2>2
    <2>4. \A j \in i + 1 .. len + 2 : n[j] = IF j > len THEN 0 ELSE 1 + Cardinality(From(j + 1))
      BY <1>2, <2>1, <2>2
    <2>5. n[find(i + 1)] = Cardinality(From(i + 1))
      BY <1>5, <2>3, <2>4
    <2> QED
      BY <1>8, <2>2, <2>3, <2>5
  <1>10. n[find(1)] = Cardinality(From(1))
    <2>1. \A i \in 1 .. len + 2 : n[i] = IF i > len THEN 0 ELSE 1 + Cardinality(From(i + 1))
      BY <1>9
    <2>2. 1 \in 1 .. len + 1
      BY <1>2
    <2> QED
      BY <1>5, <2>1, <2>2
  <1> QED
    BY <1>2, <1>10, Zenon DEF len, n, find, From, PlacesFrom, Occurrences

-----------------------------------------------------------------------------
(* Strings compared by their first difference.                             *)

\* At k the first is less, and before k the two are alike.
Alike(x, y, k) == \A j \in 1 .. k - 1 : /\ j <= Len(x) /\ j <= Len(y)
                                        /\ x[j].letter = y[j].letter
LessAt(x, y, k) == k <= Len(y) /\ (k > Len(x) \/ x[k].letter < y[k].letter)

\* The strings of one order: by their first difference.
ComesBefore(x, y) == \E k \in 1 .. Len(x) + 1 : Alike(x, y, k) /\ LessAt(x, y, k)

\* A sequence of characters that have a letter.
IsText(x) == /\ Len(x) \in Nat /\ DOMAIN x = 1 .. Len(x)
             /\ \A j \in 1 .. Len(x) : x[j].letter \in Int

\* Two strings stop being alike at a first place.
LEMMA FirstDifferenceOf ==
  ASSUME NEW x, IsText(x), NEW y, IsText(y)
  PROVE  \E k \in 1 .. Len(x) + 1 :
           /\ Alike(x, y, k)
           /\ k > Len(x) \/ k > Len(y) \/ x[k].letter # y[k].letter
  <1> DEFINE T == {k \in 1 .. Len(x) + 1 : k > Len(x) \/ k > Len(y) \/ x[k].letter # y[k].letter}
  <1>1. Len(x) \in Nat /\ Len(y) \in Nat
    BY DEF IsText
  <1>2. Len(x) + 1 \in T /\ T \in SUBSET Nat
    BY <1>1
  <1>3. PICK k \in T : \A l \in T : k <= l
    <2> HIDE DEF T
    <2> QED
      BY <1>2, LeastNumber
  <1>4. Alike(x, y, k)
    <2> SUFFICES ASSUME NEW j \in 1 .. k - 1
                 PROVE  j <= Len(x) /\ j <= Len(y) /\ x[j].letter = y[j].letter
      BY DEF Alike
    <2>1. k \in 1 .. Len(x) + 1
      OBVIOUS
    <2>2. j \in 1 .. Len(x) + 1 /\ ~ k <= j
      BY <1>1, <2>1
    <2>3. j \notin T
      BY <1>3, <2>2
    <2> QED
      BY <2>2, <2>3, <1>1
  <1> QED
    BY <1>3, <1>4

\* Only one place can be the first difference.
LEMMA OneFirstDifference ==
  ASSUME NEW x, IsText(x), NEW y, IsText(y),
         NEW k \in 1 .. Len(x) + 1, Alike(x, y, k),
         k > Len(x) \/ k > Len(y) \/ x[k].letter # y[k].letter,
         NEW l \in 1 .. Len(x) + 1, Alike(x, y, l),
         l > Len(x) \/ l > Len(y) \/ x[l].letter # y[l].letter
  PROVE  k = l
  <1>1. Len(x) \in Nat /\ Len(y) \in Nat
    BY DEF IsText
  <1>2. ~ k < l
    BY <1>1 DEF Alike
  <1>3. ~ l < k
    BY <1>1 DEF Alike
  <1> QED
    BY <1>1, <1>2, <1>3

\* That order is one that sort() can use.
LEMMA BeforeIsOrder ==
  ASSUME NEW x, IsText(x), NEW y, IsText(y), NEW z, IsText(z)
  PROVE  /\ ComesBefore(x, y) /\ ComesBefore(y, z) => ComesBefore(x, z)
         /\ ComesBefore(x, z) => ComesBefore(x, y) \/ ComesBefore(y, z)
  <1>1. /\ Len(x) \in Nat /\ Len(y) \in Nat /\ Len(z) \in Nat
        /\ \A j \in 1 .. Len(x) : x[j].letter \in Int
        /\ \A j \in 1 .. Len(y) : y[j].letter \in Int
        /\ \A j \in 1 .. Len(z) : z[j].letter \in Int
    BY DEF IsText
  <1>2. ASSUME ComesBefore(x, y), ComesBefore(y, z) PROVE ComesBefore(x, z)
    <2>1. PICK k \in 1 .. Len(x) + 1 : Alike(x, y, k) /\ LessAt(x, y, k)
      BY <1>2 DEF ComesBefore
    <2>2. PICK l \in 1 .. Len(y) + 1 : Alike(y, z, l) /\ LessAt(y, z, l)
      BY <1>2 DEF ComesBefore
    <2>3. CASE k <= l
      <3>1. Alike(x, z, k)
        BY <1>1, <2>1, <2>2, <2>3 DEF Alike
      <3>2. k <= Len(y)
        BY <2>1 DEF LessAt
      <3>3. CASE k < l
        <4>1. k <= Len(z) /\ y[k].letter = z[k].letter
          BY <1>1, <2>2, <3>3 DEF Alike
        <4>2. LessAt(x, z, k)
          BY <1>1, <2>1, <3>2, <4>1 DEF LessAt
        <4> QED
          BY <2>1, <3>1, <4>2 DEF ComesBefore
      <3>4. CASE k = l
        <4>1. k <= Len(z) /\ y[k].letter < z[k].letter
          BY <1>1, <2>2, <3>2, <3>4 DEF LessAt
        <4>2. ASSUME k <= Len(x) PROVE x[k].letter < z[k].letter
          <5>1. k \in 1 .. Len(x) /\ k \in 1 .. Len(y) /\ k \in 1 .. Len(z)
            BY <1>1, <3>2, <4>1, <4>2
          <5>2. x[k].letter \in Int /\ y[k].letter \in Int /\ z[k].letter \in Int
            BY <1>1, <5>1
          <5>3. x[k].letter < y[k].letter
            BY <1>1, <2>1, <4>2 DEF LessAt
          <5>4. \A p, q, r \in Int : p < q /\ q < r => p < r
            OBVIOUS
          <5> QED
            BY ONLY <4>1, <5>2, <5>3, <5>4
        <4>3. LessAt(x, z, k)
          BY <1>1, <4>1, <4>2 DEF LessAt
        <4> QED
          BY <2>1, <3>1, <4>3 DEF ComesBefore
      <3> QED
        BY <1>1, <2>3, <3>3, <3>4
    <2>4. CASE l < k
      <3>1. Alike(x, z, l)
        BY <1>1, <2>1, <2>2, <2>4 DEF Alike
      <3>2. l \in 1 .. k - 1
        BY <1>1, <2>4
      <3>3. l <= Len(x) /\ l <= Len(y) /\ x[l].letter = y[l].letter
        BY <2>1, <3>2 DEF Alike
      <3>4. LessAt(x, z, l)
        BY <1>1, <2>2, <3>3 DEF LessAt
      <3>5. l \in 1 .. Len(x) + 1
        BY <1>1, <3>3
      <3> QED
        BY <3>1, <3>4, <3>5 DEF ComesBefore
    <2> QED
      BY <1>1, <2>3, <2>4
  <1>3. ASSUME ComesBefore(x, z), ~ ComesBefore(x, y) PROVE ComesBefore(y, z)
    <2>1. PICK k \in 1 .. Len(x) + 1 : Alike(x, z, k) /\ LessAt(x, z, k)
      BY <1>3 DEF ComesBefore
    <2>2. PICK p \in 1 .. Len(x) + 1 :
            Alike(x, y, p) /\ (p > Len(x) \/ p > Len(y) \/ x[p].letter # y[p].letter)
      BY FirstDifferenceOf
    <2>3. ~ LessAt(x, y, p)
      BY <1>3, <2>2 DEF ComesBefore
    <2> DEFINE l == IF p <= k THEN p ELSE k
    <2>4. l \in 1 .. Len(x) + 1 /\ l <= k /\ l <= p
      BY <1>1
    <2>5. Alike(y, z, l)
      BY <1>1, <2>1, <2>2, <2>4 DEF Alike
    <2>6. l \in 1 .. Len(y) + 1
      <3>1. l = 1 \/ l - 1 \in 1 .. p - 1
        BY <1>1, <2>4
      <3>2. l = 1 \/ l - 1 <= Len(y)
        BY <2>2, <3>1 DEF Alike
      <3> QED
        BY <1>1, <2>4, <3>2
    <2>7. l <= Len(z)
      <3>1. CASE l = k
        BY <2>1, <3>1 DEF LessAt
      <3>2. CASE l # k
        <4>1. l \in 1 .. k - 1
          BY <1>1, <2>4, <3>2
        <4> QED
          BY <2>1, <4>1 DEF Alike
      <3> QED
        BY <3>1, <3>2
    <2>8. l > Len(y) \/ y[l].letter < z[l].letter
      <3> SUFFICES ASSUME l <= Len(y) PROVE y[l].letter < z[l].letter
        BY <1>1, <2>4
      <3>1. CASE p < k
        <4>1. l = p /\ p \in 1 .. k - 1
          BY <1>1, <3>1
        <4>2. p <= Len(x) /\ p <= Len(z) /\ x[p].letter = z[p].letter
          BY <2>1, <4>1 DEF Alike
        <4>3. x[p].letter # y[p].letter /\ ~ x[p].letter < y[p].letter
          BY <1>1, <2>2, <2>3, <4>1, <4>2 DEF LessAt
        <4>4. p \in 1 .. Len(x) /\ p \in 1 .. Len(y)
          BY <1>1, <4>1, <4>2
        <4> QED
          BY <1>1, <4>1, <4>2, <4>3, <4>4
      <3>2. CASE p = k
        <4>1. l = p /\ l = k
          BY <3>2
        <4>2. p \in 1 .. Len(x) /\ p \in 1 .. Len(y) /\ p \in 1 .. Len(z)
          BY <1>1, <2>3, <2>4, <2>7, <4>1 DEF LessAt
        <4>3. ~ x[p].letter < y[p].letter /\ x[p].letter < z[p].letter
          BY <1>1, <2>1, <2>3, <4>1, <4>2 DEF LessAt
        <4> QED
          BY <1>1, <4>1, <4>2, <4>3
      <3>3. CASE k < p
        <4>1. l = k /\ k \in 1 .. p - 1
          BY <1>1, <3>3
        <4>2. k <= Len(x) /\ k <= Len(y) /\ x[k].letter = y[k].letter
          BY <2>2, <4>1 DEF Alike
        <4>3. x[k].letter < z[k].letter
          BY <1>1, <2>1, <4>2 DEF LessAt
        <4> QED
          BY <4>1, <4>2, <4>3
      <3> QED
        BY <1>1, <3>1, <3>2, <3>3
    <2> QED
      BY <2>5, <2>6, <2>7, <2>8 DEF ComesBefore, LessAt
  <1> QED
    BY <1>2, <1>3

\* The strings as lists of letters: one is a prefix of the other, or less at the
\* first difference.
LettersOf(x) == [i \in DOMAIN x |-> x[i].letter]
LettersPrecede(x, y) == \/ IsStrictPrefix(LettersOf(x), LettersOf(y))
                        \/ \E i \in DOMAIN x \cap DOMAIN y :
                             /\ SubSeq(LettersOf(x), 1, i - 1) = SubSeq(LettersOf(y), 1, i - 1)
                             /\ x[i].letter < y[i].letter

\* That is the same order.
LEMMA LettersInOrder ==
  ASSUME NEW x, IsText(x), NEW y, IsText(y)
  PROVE  ComesBefore(x, y) = LettersPrecede(x, y)
  <1> DEFINE X == LettersOf(x)
             Y == LettersOf(y)
  <1>1. /\ Len(x) \in Nat /\ DOMAIN x = 1 .. Len(x) /\ Len(y) \in Nat /\ DOMAIN y = 1 .. Len(y)
        /\ \A j \in 1 .. Len(x) : x[j].letter \in Int
        /\ \A j \in 1 .. Len(y) : y[j].letter \in Int
    BY DEF IsText
  <1>2. /\ X = [i \in 1 .. Len(x) |-> x[i].letter]
        /\ Y = [i \in 1 .. Len(y) |-> y[i].letter]
    BY <1>1 DEF LettersOf
  <1>3. /\ X \in Seq(Int) /\ Len(X) = Len(x) /\ Y \in Seq(Int) /\ Len(Y) = Len(y)
    <2>1. X \in [1 .. Len(x) -> Int] /\ Y \in [1 .. Len(y) -> Int]
      BY <1>1, <1>2
    <2>2. X \in Seq(Int) /\ Y \in Seq(Int)
      BY <1>1, <2>1, SeqDef
    <2> HIDE DEF X, Y
    <2>3. DOMAIN X = 1 .. Len(x) /\ DOMAIN Y = 1 .. Len(y)
      BY <2>1
    <2>4. /\ Len(X) \in Nat /\ DOMAIN X = 1 .. Len(X)
          /\ Len(Y) \in Nat /\ DOMAIN Y = 1 .. Len(Y)
      BY <2>2, LenProperties
    <2> QED
      BY <1>1, <2>2, <2>3, <2>4
  <1>4. /\ \A i \in 1 .. Len(x) : X[i] = x[i].letter
        /\ \A i \in 1 .. Len(y) : Y[i] = y[i].letter
    BY <1>2
  <1> HIDE DEF X, Y
  <1>5. ASSUME NEW k \in Int, 1 <= k, k <= Len(x) + 1, k <= Len(y) + 1
        PROVE  Alike(x, y, k) <=> SubSeq(X, 1, k - 1) = SubSeq(Y, 1, k - 1)
    <2> DEFINE A == SubSeq(X, 1, k - 1)
               B == SubSeq(Y, 1, k - 1)
    <2>1. k - 1 \in 0 .. Len(X) /\ k - 1 \in 0 .. Len(Y)
      BY <1>1, <1>3, <1>5
    <2>2. /\ A \in Seq(Int) /\ Len(A) = k - 1 /\ \A j \in 1 .. k - 1 : A[j] = X[j]
          /\ B \in Seq(Int) /\ Len(B) = k - 1 /\ \A j \in 1 .. k - 1 : B[j] = Y[j]
      BY <1>3, <2>1, SubSeqProperties
    <2> HIDE DEF A, B
    <2>3. A = B <=> \A j \in 1 .. k - 1 : A[j] = B[j]
      BY <2>2, SeqEqual
    <2>4. \A j \in 1 .. k - 1 : j \in 1 .. Len(x) /\ j \in 1 .. Len(y) /\ j <= Len(x) /\ j <= Len(y)
      BY <1>1, <1>5
    <2>5. \A j \in 1 .. k - 1 : A[j] = x[j].letter /\ B[j] = y[j].letter
      BY <1>4, <2>2, <2>4
    <2>6. A = B <=> Alike(x, y, k)
      BY <2>3, <2>4, <2>5 DEF Alike
    <2> QED
      BY <2>6 DEF A, B
  <1> DEFINE n == Len(x) + 1
  <1>6. IsStrictPrefix(X, Y) <=> Alike(x, y, n) /\ n <= Len(y)
    <2>1. IsStrictPrefix(X, Y) <=>
            Len(x) <= Len(y) /\ SubSeq(X, 1, Len(x)) = SubSeq(Y, 1, Len(x)) /\ X # Y
      BY <1>3 DEF IsStrictPrefix, IsPrefix
    <2>2. CASE Len(x) < Len(y)
      <3>1. Alike(x, y, n) <=> SubSeq(X, 1, Len(x)) = SubSeq(Y, 1, Len(x))
        <4>1. n \in Int /\ 1 <= n /\ n <= Len(x) + 1 /\ n <= Len(y) + 1 /\ n - 1 = Len(x)
          BY <1>1, <2>2
        <4> HIDE DEF n
        <4>2. Alike(x, y, n) <=> SubSeq(X, 1, n - 1) = SubSeq(Y, 1, n - 1)
          BY <1>5, <4>1
        <4> QED
          BY <4>1, <4>2
      <3>2. X # Y
        BY <1>1, <1>3, <2>2
      <3> QED
        BY <1>1, <2>1, <2>2, <3>1, <3>2
    <2>3. CASE Len(x) = Len(y)
      <3>1. SubSeq(X, 1, Len(x)) = X /\ SubSeq(Y, 1, Len(x)) = Y
        BY <1>3, <2>3, SubSeqFull
      <3>2. ~ n <= Len(y)
        BY <1>1, <2>3
      <3> QED
        BY ONLY <2>1, <3>1, <3>2, Zenon
    <2>4. CASE Len(x) > Len(y)
      BY <1>1, <2>1, <2>4
    <2>5. Len(x) < Len(y) \/ Len(x) = Len(y) \/ Len(x) > Len(y)
      <3>1. \A a, b \in Nat : a < b \/ a = b \/ a > b
        OBVIOUS
      <3> QED
        BY <1>1, <3>1, Zenon
    <2> QED
      BY <2>2, <2>3, <2>4, <2>5
  <1>7. ASSUME NEW i \in DOMAIN x \cap DOMAIN y
        PROVE  /\ SubSeq(LettersOf(x), 1, i - 1) = SubSeq(LettersOf(y), 1, i - 1) <=> Alike(x, y, i)
               /\ x[i].letter < y[i].letter <=> LessAt(x, y, i)
    <2>1. i \in Int /\ 1 <= i /\ i <= Len(x) + 1 /\ i <= Len(y) + 1 /\ i <= Len(y) /\ i <= Len(x)
      BY <1>1
    <2>2. SubSeq(X, 1, i - 1) = SubSeq(Y, 1, i - 1) <=> Alike(x, y, i)
      BY <1>5, <2>1
    <2>3. x[i].letter < y[i].letter <=> LessAt(x, y, i)
      BY <1>1, <2>1 DEF LessAt
    <2> QED
      BY <2>2, <2>3 DEF X, Y
  <1>8. LettersPrecede(x, y) <=> \/ Alike(x, y, n) /\ n <= Len(y)
                               \/ \E i \in DOMAIN x \cap DOMAIN y : Alike(x, y, i) /\ LessAt(x, y, i)
    BY <1>6, <1>7 DEF LettersPrecede, X, Y
  <1>9. ComesBefore(x, y) <=> \/ Alike(x, y, n) /\ n <= Len(y)
                        \/ \E i \in DOMAIN x \cap DOMAIN y : Alike(x, y, i) /\ LessAt(x, y, i)
    <2>1. n \in 1 .. Len(x) + 1 /\ (LessAt(x, y, n) <=> n <= Len(y))
      BY <1>1 DEF LessAt
    <2>2. ASSUME NEW i \in 1 .. Len(x) + 1, LessAt(x, y, i), i # n
          PROVE  i \in DOMAIN x \cap DOMAIN y
      BY <1>1, <2>2 DEF LessAt
    <2>3. \A i \in DOMAIN x \cap DOMAIN y : i \in 1 .. Len(x) + 1
      BY <1>1
    <2> HIDE DEF n
    <2> QED
      BY <2>1, <2>2, <2>3 DEF ComesBefore
  <1>10. LettersPrecede(x, y) \in BOOLEAN /\ ComesBefore(x, y) \in BOOLEAN
    <2>1. ComesBefore(x, y) \in BOOLEAN
      BY Zenon DEF ComesBefore
    <2>2. LettersPrecede(x, y) \in BOOLEAN
      BY Zenon DEF LettersPrecede
    <2> QED
      BY <2>1, <2>2
  <1> HIDE DEF n
  <1> QED
    BY <1>8, <1>9, <1>10

-----------------------------------------------------------------------------
(* Two lists merged.                                                       *)

Pairs(c, d) == (1 .. (Len(c) + 1)) \X (1 .. (Len(d) + 1))

\* What merge() does at the places i and j, h being what it does from there on.
MergeStep(c, d, h, i, j) ==
  IF i > Len(c) THEN SubSeq(d, j, Len(d))
  ELSE IF j > Len(d) THEN SubSeq(c, i, Len(c))
  ELSE IF d[j] < c[i] THEN <<d[j]>> \o h[<<i, j + 1>>] ELSE <<c[i]>> \o h[<<i + 1, j>>]

IsMerge(h, c, d) == h = [p \in Pairs(c, d) |-> MergeStep(c, d, h, p[1], p[2])]

\* There is one: built from the ends of the lists on.
LEMMA MergeExists ==
  ASSUME NEW c, NEW d, Len(c) \in Nat, Len(d) \in Nat
  PROVE  \E f : IsMerge(f, c, d)
  <1> DEFINE a == Len(c) + 1
             b == Len(d) + 1
             D(k) == {p \in Pairs(c, d) : (a - p[1]) + (b - p[2]) <= k}
             Eqn(h, k) == h = [p \in D(k) |-> MergeStep(c, d, h, p[1], p[2])]
             Bad == {k \in Nat : ~ \E h : Eqn(h, k)}
  <1>1. a \in Int /\ b \in Int /\ a - 1 = Len(c) /\ b - 1 = Len(d)
        /\ Pairs(c, d) = (1 .. a) \X (1 .. b)
    BY DEF Pairs
  <1>2. ASSUME NEW f, NEW g, NEW k \in Nat, NEW p \in D(k),
               \A q \in D(k - 1) : f[q] = g[q]
        PROVE  MergeStep(c, d, f, p[1], p[2]) = MergeStep(c, d, g, p[1], p[2])
    <2>1. PICK i \in 1 .. a, j \in 1 .. b : p = <<i, j>>
      BY <1>1
    <2>2. p[1] = i /\ p[2] = j /\ (a - i) + (b - j) <= k
      BY <2>1
    <2>3. CASE i > Len(c)
      BY <2>2, <2>3 DEF MergeStep
    <2>4. CASE ~ i > Len(c) /\ j > Len(d)
      BY <2>2, <2>4 DEF MergeStep
    <2>5. CASE ~ i > Len(c) /\ ~ j > Len(d)
      <3>1. i + 1 \in 1 .. a /\ j + 1 \in 1 .. b
        BY <1>1, <2>5
      <3>2. <<i, j + 1>> \in D(k - 1) /\ <<i + 1, j>> \in D(k - 1)
        <4>1. <<i, j + 1>> \in Pairs(c, d) /\ <<i + 1, j>> \in Pairs(c, d)
          BY <1>1, <3>1
        <4>2. (a - i) + (b - (j + 1)) <= k - 1 /\ (a - (i + 1)) + (b - j) <= k - 1
          BY <1>1, <2>2
        <4> QED
          BY <4>1, <4>2
      <3>3. f[<<i, j + 1>>] = g[<<i, j + 1>>] /\ f[<<i + 1, j>>] = g[<<i + 1, j>>]
        <4> HIDE DEF D
        <4> QED
          BY <1>2, <3>2
      <3> QED
        BY <2>2, <2>5, <3>3 DEF MergeStep
    <2> QED
      BY <2>3, <2>4, <2>5
  <1>3. D(a + b) = Pairs(c, d)
    <2>1. ASSUME NEW p \in Pairs(c, d) PROVE (a - p[1]) + (b - p[2]) <= a + b
      BY <1>1
    <2> QED
      BY <2>1
  <1>4. ASSUME NEW k \in Nat, NEW p \in D(k - 1) PROVE p \in D(k)
    BY <1>1
  <1>5. D(0 - 1) = {}
    <2>1. ASSUME NEW p \in Pairs(c, d) PROVE ~ (a - p[1]) + (b - p[2]) <= 0 - 1
      BY <1>1
    <2> QED
      BY <2>1
  <1> HIDE DEF D
  <1>6. Bad = {}
    <2> SUFFICES ASSUME Bad # {} PROVE FALSE
      OBVIOUS
    <2>1. PICK k \in Bad : k \in Nat /\ \A l \in Nat : l < k => l \notin Bad
      <3>1. Bad \in SUBSET Nat /\ Bad # {}
        OBVIOUS
      <3> HIDE DEF Bad
      <3> QED
        BY <3>1, Least
    <2>2. PICK h : \A p \in D(k - 1) : h[p] = MergeStep(c, d, h, p[1], p[2])
      <3>1. CASE k = 0
        BY <1>5, <3>1
      <3>2. CASE k # 0
        <4>1. k - 1 \in Nat /\ k - 1 < k
          BY <2>1, <3>2
        <4>2. PICK h : Eqn(h, k - 1)
          BY <2>1, <4>1
        <4> QED
          BY <4>2
      <3> QED
        BY <3>1, <3>2
    <2> DEFINE g == [p \in D(k) |-> MergeStep(c, d, h, p[1], p[2])]
    <2>3. \A p \in D(k - 1) : h[p] = g[p]
      BY <1>4, <2>1, <2>2
    <2>4. ASSUME NEW p \in D(k)
          PROVE  MergeStep(c, d, h, p[1], p[2]) = MergeStep(c, d, g, p[1], p[2])
      <3> HIDE DEF g, Bad, Eqn
      <3> QED
        BY <1>2, <2>1, <2>3
    <2>5. Eqn(g, k)
      BY <2>4
    <2> HIDE DEF g, Eqn
    <2>6. ~ \E f : Eqn(f, k)
      OBVIOUS
    <2> QED
      BY ONLY <2>5, <2>6, Zenon
  <1>7. PICK f : Eqn(f, a + b)
    BY <1>1, <1>6
  <1>8. IsMerge(f, c, d)
    BY <1>3, <1>7 DEF IsMerge
  <1> QED
    BY <1>8

AscendsIn(q) == \A i, j \in DOMAIN q : i < j => q[i] <= q[j]

\* The elements from a place on: the first of them and the others.
LEMMA SuffixParts ==
  ASSUME NEW c \in Seq(Int), NEW i \in 1 .. Len(c)
  PROVE  /\ SubSeq(c, i + 1, Len(c)) \in Seq(Int) /\ c[i] \in Int
         /\ \A x : Occurrences(SubSeq(c, i, Len(c)), x)
                     = (IF c[i] = x THEN 1 ELSE 0) + Occurrences(SubSeq(c, i + 1, Len(c)), x)
  <1> DEFINE n == Len(c)
             p == SubSeq(c, i, n)
             q == SubSeq(c, i + 1, n)
             u == <<c[i]>>
  <1>1. n \in Nat /\ DOMAIN c = 1 .. n /\ c[i] \in Int /\ i \in 1 .. n
    BY LenProperties, ElementOfSeq
  <1>2. /\ p \in Seq(Int) /\ Len(p) = n - i + 1
        /\ \A k \in 1 .. n - i + 1 : p[k] = c[i + k - 1]
    <2>1. i \in 1 .. Len(c) + 1
      BY <1>1
    <2> QED
      BY <2>1, SubSeqFrom
  <1>3. /\ q \in Seq(Int) /\ Len(q) = n - i
        /\ \A k \in 1 .. n - i : q[k] = c[i + k]
    <2>1. i + 1 \in 1 .. Len(c) + 1
      BY <1>1
    <2>2. /\ q \in Seq(Int) /\ Len(q) = Len(c) - (i + 1) + 1
          /\ \A k \in 1 .. Len(c) - (i + 1) + 1 : q[k] = c[(i + 1) + k - 1]
      BY <2>1, SubSeqFrom
    <2>3. n - (i + 1) + 1 = n - i /\ \A k \in 1 .. n - i : (i + 1) + k - 1 = i + k
      BY <1>1
    <2> HIDE DEF q
    <2> QED
      BY <2>2, <2>3
  <1>4. u \in Seq(Int) /\ Len(u) = 1 /\ u[1] = c[i]
    BY <1>1
  <1> HIDE DEF p, q, u
  <1>5. u \o q \in Seq(Int) /\ Len(u \o q) = n - i + 1
        /\ \A k \in 1 .. n - i + 1 : (u \o q)[k] = IF k <= 1 THEN u[k] ELSE q[k - 1]
    <2>1. /\ u \o q \in Seq(Int) /\ Len(u \o q) = Len(u) + Len(q)
          /\ \A k \in 1 .. Len(u) + Len(q) : (u \o q)[k] = IF k <= Len(u) THEN u[k] ELSE q[k - Len(u)]
      BY <1>3, <1>4, ConcatProperties
    <2>2. Len(u) + Len(q) = n - i + 1
      BY <1>1, <1>3, <1>4
    <2> QED
      BY <1>4, <2>1, <2>2
  <1>6. ASSUME NEW k \in 1 .. n - i + 1 PROVE p[k] = (u \o q)[k]
    <2>1. CASE k = 1
      <3>1. i + 1 - 1 = i /\ 1 \in 1 .. n - i + 1
        BY <1>1
      <3>2. p[1] = c[i]
        BY <1>2, <3>1
      <3>3. (u \o q)[1] = u[1]
        <4>1. (u \o q)[1] = IF 1 <= 1 THEN u[1] ELSE q[1 - 1]
          BY ONLY <1>5, <3>1
        <4> QED
          BY ONLY <4>1
      <3> QED
        BY <1>4, <2>1, <3>2, <3>3
    <2>2. CASE k # 1
      <3>1. k - 1 \in 1 .. n - i /\ i + (k - 1) = i + k - 1 /\ ~ k <= 1
        BY <1>1, <2>2
      <3> QED
        BY <1>2, <1>3, <1>5, <3>1
    <2> QED
      BY <2>1, <2>2
  <1>7. p = u \o q
    BY <1>2, <1>5, <1>6, SeqEqual
  <1>8. ASSUME NEW x PROVE Occurrences(p, x) = (IF c[i] = x THEN 1 ELSE 0) + Occurrences(q, x)
    <2>1. Occurrences(u \o q, x) = Occurrences(u, x) + Occurrences(q, x)
      BY ONLY <1>3, <1>4, ConcatOccurrences
    <2>2. Occurrences(u, x) = IF c[i] = x THEN 1 ELSE 0
      BY SingleOccurrence DEF u
    <2> QED
      BY ONLY <1>7, <2>1, <2>2, Zenon
  <1> QED
    BY <1>1, <1>3, <1>8 DEF p, q

\* What occurs from a place on is an element there.
LEMMA OccursFrom ==
  ASSUME NEW c \in Seq(Int), NEW i \in 1 .. Len(c) + 1
  PROVE  /\ SubSeq(c, i, Len(c)) \in Seq(Int)
         /\ \A x : /\ Occurrences(SubSeq(c, i, Len(c)), x) \in Nat
                   /\ Occurrences(SubSeq(c, i, Len(c)), x) # 0 => \E k \in i .. Len(c) : c[k] = x
         /\ AscendsIn(c) => AscendsIn(SubSeq(c, i, Len(c)))
  <1> DEFINE n == Len(c)
             p == SubSeq(c, i, n)
  <1>1. n \in Nat /\ DOMAIN c = 1 .. n
    BY LenProperties
  <1>2. /\ p \in Seq(Int) /\ Len(p) = n - i + 1 /\ DOMAIN p = 1 .. n - i + 1
        /\ \A k \in 1 .. n - i + 1 : p[k] = c[i + k - 1]
    <2>1. i \in 1 .. n + 1 /\ n \in i - 1 .. n
      BY <1>1
    <2> QED
      BY <1>1, <2>1, SubSeqProperties, LenProperties
  <1> HIDE DEF p
  <1>3. \A k \in 1 .. n - i + 1 : i + k - 1 \in i .. n /\ i + k - 1 \in DOMAIN c
    BY <1>1
  <1>4. ASSUME NEW x
        PROVE  /\ Occurrences(p, x) \in Nat
               /\ Occurrences(p, x) # 0 => \E k \in i .. n : c[k] = x
    <2>1. Occurrences(p, x) \in Nat /\ (Occurrences(p, x) # 0 => x \in ToSet(p))
      BY <1>2, FinitePlaces
    <2>2. x \in ToSet(p) => \E k \in i .. n : c[k] = x
      BY <1>2, <1>3 DEF ToSet
    <2> QED
      BY <2>1, <2>2
  <1>5. AscendsIn(c) => AscendsIn(p)
    <2> SUFFICES ASSUME AscendsIn(c), NEW k \in 1 .. n - i + 1, NEW l \in 1 .. n - i + 1, k < l
                 PROVE  p[k] <= p[l]
      BY <1>2 DEF AscendsIn
    <2>1. i + k - 1 < i + l - 1
      BY <1>1
    <2> QED
      BY <1>2, <1>3, <2>1 DEF AscendsIn
  <1> QED
    BY <1>2, <1>4, <1>5 DEF p

\* Behind the least of them.
LEMMA LeastFirst ==
  ASSUME NEW x \in Int, NEW q \in Seq(Int), AscendsIn(q), \A y \in ToSet(q) : x <= y
  PROVE  AscendsIn(<<x>> \o q)
  <1> DEFINE u == <<x>>
  <1>1. u \in Seq(Int) /\ Len(u) = 1 /\ u[1] = x
    OBVIOUS
  <1> HIDE DEF u
  <1>2. Len(q) \in Nat /\ DOMAIN q = 1 .. Len(q) /\ \A k \in 1 .. Len(q) : q[k] \in Int /\ x <= q[k]
    BY LenProperties, ElementOfSeq DEF ToSet
  <1>3. /\ DOMAIN (u \o q) = 1 .. Len(q) + 1
        /\ \A k \in 1 .. Len(q) + 1 : (u \o q)[k] = IF k <= 1 THEN x ELSE q[k - 1]
    <2>1. /\ u \o q \in Seq(Int) /\ Len(u \o q) = Len(u) + Len(q)
          /\ \A k \in 1 .. Len(u) + Len(q) : (u \o q)[k] = IF k <= Len(u) THEN u[k] ELSE q[k - Len(u)]
      BY <1>1, ConcatProperties
    <2>2. Len(u) + Len(q) = Len(q) + 1
      BY <1>1, <1>2
    <2>3. \A k \in 1 .. Len(q) + 1 : k <= 1 => k = 1
      BY <1>2
    <2> QED
      BY <1>1, <2>1, <2>2, <2>3, LenProperties
  <1>4. ASSUME NEW i \in 1 .. Len(q) + 1, NEW j \in 1 .. Len(q) + 1, i < j
        PROVE  (u \o q)[i] <= (u \o q)[j]
    <2>1. j - 1 \in 1 .. Len(q) /\ ~ j <= 1
      BY <1>2, <1>4
    <2>2. CASE i = 1
      BY <1>2, <1>3, <2>1, <2>2
    <2>3. CASE i # 1
      <3>1. i - 1 \in 1 .. Len(q) /\ ~ i <= 1 /\ i - 1 < j - 1
        BY <1>2, <1>4, <2>3
      <3> QED
        BY <1>2, <1>3, <2>1, <3>1 DEF AscendsIn
    <2> QED
      BY <2>2, <2>3
  <1> QED
    BY <1>3, <1>4 DEF AscendsIn, u

\* From every two places on merge() gives what both have, ascending if they do.
IsMerged(q, c, i, d, j) ==
  /\ q \in Seq(Int)
  /\ \A x : Occurrences(q, x)
              = Occurrences(SubSeq(c, i, Len(c)), x) + Occurrences(SubSeq(d, j, Len(d)), x)
  /\ AscendsIn(c) /\ AscendsIn(d) => AscendsIn(q)

\* The lists from the places i and j on are merged by c[i] and then the rest, if
\* it comes before d[j].
LEMMA MergeFirst ==
  ASSUME NEW c \in Seq(Int), NEW d \in Seq(Int), NEW q,
         NEW i \in 1 .. Len(c), NEW j \in 1 .. Len(d) + 1,
         IsMerged(q, c, i + 1, d, j), j <= Len(d) => c[i] <= d[j]
  PROVE  IsMerged(<<c[i]>> \o q, c, i, d, j)
  <1> DEFINE m == Len(c)
             n == Len(d)
             x == c[i]
             u == <<x>>
  <1>1. m \in Nat /\ n \in Nat /\ x \in Int /\ DOMAIN c = 1 .. m /\ DOMAIN d = 1 .. n
    BY LenProperties, ElementOfSeq
  <1>2. /\ q \in Seq(Int)
        /\ \A y : Occurrences(q, y) = Occurrences(SubSeq(c, i + 1, m), y) + Occurrences(SubSeq(d, j, n), y)
        /\ AscendsIn(c) /\ AscendsIn(d) => AscendsIn(q)
    BY DEF IsMerged
  <1>3. u \in Seq(Int)
    BY <1>1
  <1> HIDE DEF u
  <1>4. u \o q \in Seq(Int)
    BY <1>2, <1>3, ConcatProperties
  <1>5. ASSUME NEW y
        PROVE  Occurrences(u \o q, y) = Occurrences(SubSeq(c, i, m), y) + Occurrences(SubSeq(d, j, n), y)
    <2>1. Occurrences(u \o q, y) = Occurrences(u, y) + Occurrences(q, y)
      BY ONLY <1>2, <1>3, ConcatOccurrences
    <2>2. Occurrences(u, y) = IF x = y THEN 1 ELSE 0
      BY SingleOccurrence DEF u
    <2>3. Occurrences(SubSeq(c, i, m), y) = (IF x = y THEN 1 ELSE 0) + Occurrences(SubSeq(c, i + 1, m), y)
      BY SuffixParts
    <2>4. Occurrences(SubSeq(c, i + 1, m), y) \in Nat /\ Occurrences(SubSeq(d, j, n), y) \in Nat
      <3>1. i + 1 \in 1 .. m + 1
        BY <1>1
      <3> QED
        BY <3>1, OccursFrom
    <2>5. \A e \in {0, 1}, a \in Nat, b \in Nat : e + (a + b) = (e + a) + b
      OBVIOUS
    <2> HIDE DEF x
    <2>6. (IF x = y THEN 1 ELSE 0) \in {0, 1}
      OBVIOUS
    <2> QED
      BY <1>2, <2>1, <2>2, <2>3, <2>4, <2>5, <2>6
  <1>6. ASSUME AscendsIn(c), AscendsIn(d) PROVE AscendsIn(u \o q)
    <2>1. ASSUME NEW y \in ToSet(q) PROVE x <= y
      <3>1. Occurrences(q, y) # 0
        BY <1>2, FinitePlaces
      <3>2. i + 1 \in 1 .. m + 1
        BY <1>1
      <3>3. CASE Occurrences(SubSeq(c, i + 1, m), y) # 0
        <4>1. PICK k \in i + 1 .. m : c[k] = y
          BY <3>2, <3>3, OccursFrom
        <4>2. k \in DOMAIN c /\ i \in DOMAIN c /\ i < k
          BY <1>1
        <4> QED
          BY <1>6, <4>1, <4>2 DEF AscendsIn
      <3>4. CASE Occurrences(SubSeq(d, j, n), y) # 0
        <4>1. PICK k \in j .. n : d[k] = y
          BY <3>4, OccursFrom
        <4>2. k \in DOMAIN d /\ j \in DOMAIN d /\ j <= k /\ j <= n
          BY <1>1
        <4>3. d[j] <= d[k] /\ d[j] \in Int /\ d[k] \in Int
          BY <1>1, <1>6, <4>2, ElementOfSeq DEF AscendsIn
        <4> QED
          BY <1>1, <4>1, <4>2, <4>3
      <3> QED
        BY <1>2, <3>1, <3>3, <3>4
    <2>2. AscendsIn(q) /\ x \in Int /\ q \in Seq(Int)
      BY <1>1, <1>2, <1>6
    <2> QED
      BY ONLY <2>1, <2>2, LeastFirst DEF u
  <1> QED
    BY <1>4, <1>5, <1>6 DEF IsMerged, u

\* It is the same of either list first.
LEMMA MergedEither ==
  ASSUME NEW c \in Seq(Int), NEW d \in Seq(Int), NEW q,
         NEW i \in 1 .. Len(c) + 1, NEW j \in 1 .. Len(d) + 1, IsMerged(q, d, j, c, i)
  PROVE  IsMerged(q, c, i, d, j)
  <1>1. ASSUME NEW x
        PROVE  Occurrences(SubSeq(c, i, Len(c)), x) \in Nat /\ Occurrences(SubSeq(d, j, Len(d)), x) \in Nat
    BY OccursFrom
  <1>2. \A a, b \in Nat : a + b = b + a
    OBVIOUS
  <1>3. ASSUME NEW x
        PROVE  Occurrences(q, x) = Occurrences(SubSeq(c, i, Len(c)), x) + Occurrences(SubSeq(d, j, Len(d)), x)
    <2>1. Occurrences(q, x) = Occurrences(SubSeq(d, j, Len(d)), x) + Occurrences(SubSeq(c, i, Len(c)), x)
      BY DEF IsMerged
    <2> QED
      BY <1>1, <1>2, <2>1
  <1> QED
    BY <1>3 DEF IsMerged

\* Behind the end of one list it is the rest of the other.
LEMMA MergedRest ==
  ASSUME NEW c \in Seq(Int), NEW d \in Seq(Int), NEW i \in 1 .. Len(c) + 1
  PROVE  IsMerged(SubSeq(c, i, Len(c)), c, i, d, Len(d) + 1)
  <1> DEFINE p == SubSeq(c, i, Len(c))
             j == Len(d) + 1
  <1>1. p \in Seq(Int) /\ (AscendsIn(c) => AscendsIn(p)) /\ \A x : Occurrences(p, x) \in Nat
    BY OccursFrom
  <1>2. Len(d) \in Nat /\ j \in 1 .. Len(d) + 1 /\ \A k : k \notin j .. Len(d)
    BY LenProperties
  <1>3. ASSUME NEW x PROVE Occurrences(SubSeq(d, j, Len(d)), x) = 0
    BY <1>2, OccursFrom
  <1>4. ASSUME NEW x PROVE Occurrences(p, x) = Occurrences(p, x) + Occurrences(SubSeq(d, j, Len(d)), x)
    BY <1>1, <1>3
  <1> QED
    BY <1>1, <1>4 DEF IsMerged

\* The whole has both lists' elements, and ascends if they do.
LEMMA MergeProperties ==
  ASSUME NEW c \in Seq(Int), NEW d \in Seq(Int), NEW h, IsMerge(h, c, d)
  PROVE  /\ h[<<1, 1>>] \in Seq(Int)
         /\ \A x : Occurrences(h[<<1, 1>>], x) = Occurrences(c, x) + Occurrences(d, x)
         /\ AscendsIn(c) /\ AscendsIn(d) => AscendsIn(h[<<1, 1>>])
  <1> DEFINE m == Len(c)
             n == Len(d)
  <1>1. m \in Nat /\ n \in Nat
    BY LenProperties
  <1> DEFINE Bad == {k \in Nat : \E i \in 1 .. m + 1, j \in 1 .. n + 1 :
                       k = ((m + 1) - i) + ((n + 1) - j) /\ ~ IsMerged(h[<<i, j>>], c, i, d, j)}
  <1>3. ASSUME Bad # {} PROVE FALSE
    <2>1. PICK k \in Bad : k \in Nat /\ \A l \in Nat : l < k => l \notin Bad
      <3>1. Bad \in SUBSET Nat
        OBVIOUS
      <3> HIDE DEF Bad
      <3> QED
        BY <1>3, <3>1, Least
    <2>2. PICK i \in 1 .. m + 1, j \in 1 .. n + 1 :
            k = ((m + 1) - i) + ((n + 1) - j) /\ ~ IsMerged(h[<<i, j>>], c, i, d, j)
      OBVIOUS
    <2>3. h[<<i, j>>] = MergeStep(c, d, h, i, j)
      <3>1. <<i, j>> \in Pairs(c, d) /\ <<i, j>>[1] = i /\ <<i, j>>[2] = j
        BY DEF Pairs
      <3> QED
        BY <3>1 DEF IsMerge
    <2>4. ASSUME NEW a \in 1 .. m + 1, NEW b \in 1 .. n + 1, i <= a, j <= b, i < a \/ j < b
          PROVE  IsMerged(h[<<a, b>>], c, a, d, b)
      <3> DEFINE l == ((m + 1) - a) + ((n + 1) - b)
      <3>1. l \in Nat /\ l < k
        <4>1. \A x, y, u, v, e, f \in Int :
                e <= x /\ f <= y /\ u <= e /\ v <= f /\ (u < e \/ v < f)
                  => (x - e) + (y - f) \in Nat /\ (x - e) + (y - f) < (x - u) + (y - v)
          OBVIOUS
        <4>2. /\ m + 1 \in Int /\ n + 1 \in Int /\ i \in Int /\ j \in Int /\ a \in Int /\ b \in Int
              /\ a <= m + 1 /\ b <= n + 1
          BY <1>1
        <4> QED
          BY <2>2, <2>4, <4>1, <4>2
      <3>2. l \notin Bad
        BY <2>1, <3>1
      <3> QED
        BY <3>1, <3>2
    <2> HIDE DEF Bad
    <2>5. CASE i > m
      <3>1. i = m + 1
        BY <1>1, <2>5
      <3>4. h[<<i, j>>] = SubSeq(d, j, n)
        BY <2>3, <2>5, Zenon DEF MergeStep
      <3>2. IsMerged(SubSeq(d, j, n), d, j, c, m + 1)
        BY MergedRest
      <3>3. m + 1 \in 1 .. m + 1
        BY <1>1
      <3> QED
        BY <2>2, <3>1, <3>2, <3>3, <3>4, MergedEither
    <2>6. CASE ~ i > m /\ j > n
      <3>1. j = n + 1
        BY <1>1, <2>6
      <3>3. h[<<i, j>>] = SubSeq(c, i, m)
        BY <2>3, <2>6, Zenon DEF MergeStep
      <3>2. IsMerged(SubSeq(c, i, m), c, i, d, n + 1)
        BY MergedRest
      <3> QED
        BY <2>2, <3>1, <3>2, <3>3
    <2>7. CASE ~ i > m /\ ~ j > n
      <3>1. /\ i \in 1 .. m /\ j \in 1 .. n /\ i + 1 \in 1 .. m + 1 /\ j + 1 \in 1 .. n + 1
            /\ i < i + 1 /\ j < j + 1 /\ i <= i + 1 /\ j <= j + 1 /\ i <= i /\ j <= j
        BY <1>1, <2>7
      <3>2. c[i] \in Int /\ d[j] \in Int
        BY <3>1, ElementOfSeq
      <3>3. CASE d[j] < c[i]
        <4>1. IsMerged(h[<<i, j + 1>>], c, i, d, j + 1)
          BY <2>4, <3>1
        <4>2. IsMerged(h[<<i, j + 1>>], d, j + 1, c, i)
          BY <3>1, <4>1, MergedEither
        <4>3. d[j] <= c[i]
          BY <3>2, <3>3
        <4>4. IsMerged(<<d[j]>> \o h[<<i, j + 1>>], d, j, c, i)
          BY <3>1, <4>2, <4>3, MergeFirst
        <4>5. h[<<i, j>>] = <<d[j]>> \o h[<<i, j + 1>>]
          BY <2>3, <2>7, <3>3 DEF MergeStep
        <4> QED
          BY <2>2, <4>4, <4>5, MergedEither
      <3>4. CASE ~ d[j] < c[i]
        <4>1. IsMerged(h[<<i + 1, j>>], c, i + 1, d, j)
          BY <2>4, <3>1
        <4>3. c[i] <= d[j]
          BY <3>2, <3>4
        <4>4. IsMerged(<<c[i]>> \o h[<<i + 1, j>>], c, i, d, j)
          BY <3>1, <4>1, <4>3, MergeFirst
        <4>5. h[<<i, j>>] = <<c[i]>> \o h[<<i + 1, j>>]
          BY <2>3, <2>7, <3>4 DEF MergeStep
        <4> QED
          BY <2>2, <4>4, <4>5
      <3> QED
        BY <3>3, <3>4
    <2> QED
      BY <2>5, <2>6, <2>7
  <1>4. 1 \in 1 .. m + 1 /\ 1 \in 1 .. n + 1 /\ ((m + 1) - 1) + ((n + 1) - 1) \in Nat
    BY <1>1
  <1>5. IsMerged(h[<<1, 1>>], c, 1, d, 1)
    BY <1>3, <1>4
  <1> HIDE DEF Bad
  <1>6. SubSeq(c, 1, m) = c /\ SubSeq(d, 1, n) = d
    BY SubSeqFull
  <1> QED
    BY <1>5, <1>6 DEF IsMerged

-----------------------------------------------------------------------------
(* A queue without one of its elements.                                    *)

\* A queue in which nothing occurs twice, without what is at one place.
LEMMA RemovedPlace ==
  ASSUME NEW S, NEW q \in Seq(S), IsInjective(q), NEW k \in 1 .. Len(q)
  PROVE  LET s == SubSeq(q, 1, k - 1) \o SubSeq(q, k + 1, Len(q)) IN
         s \in Seq(S) /\ IsInjective(s) /\ ToSet(s) = ToSet(q) \ {q[k]}
  <1>1. /\ Len(q) \in Nat /\ DOMAIN q = 1 .. Len(q)
        /\ \A a \in 1 .. Len(q) : q[a] \in S
    BY LenProperties, ElementOfSeq
  <1> DEFINE p == SubSeq(q, 1, k - 1)
             r == SubSeq(q, k + 1, Len(q))
  <1>6. /\ p \in Seq(S) /\ Len(p) = k - 1 /\ \A a \in 1 .. k - 1 : p[a] = q[a]
        /\ r \in Seq(S) /\ Len(r) = Len(q) - k /\ \A a \in 1 .. Len(q) - k : r[a] = q[k + a]
    <2>1. k + 1 \in 1 .. Len(q) + 1 /\ Len(q) - (k + 1) + 1 = Len(q) - k
          /\ \A a \in 1 .. Len(q) - k : (k + 1) + a - 1 = k + a
      <3>1. k \in 1 .. Len(q) /\ Len(q) \in Nat
        BY <1>1
      <3> QED
        BY ONLY <3>1
    <2>2. /\ r \in Seq(S) /\ Len(r) = Len(q) - (k + 1) + 1
          /\ \A a \in 1 .. Len(q) - (k + 1) + 1 : r[a] = q[(k + 1) + a - 1]
      BY <1>1, <2>1, SubSeqFrom, Zenon
    <2>3. p \in Seq(S) /\ Len(p) = k - 1 /\ \A a \in 1 .. k - 1 : p[a] = q[a]
      <3>1. /\ 1 \in Int /\ k - 1 \in Int /\ \A a \in 1 .. k - 1 : q[a] \in S
            /\ (IF 1 <= k - 1 THEN k - 1 - 1 + 1 ELSE 0) = k - 1
            /\ k - 1 - 1 + 1 = k - 1 /\ \A a \in 1 .. k - 1 : 1 + a - 1 = a
        BY <1>1
      <3>2. /\ p \in Seq(S) /\ Len(p) = IF 1 <= k - 1 THEN k - 1 - 1 + 1 ELSE 0
            /\ \A a \in 1 .. k - 1 - 1 + 1 : p[a] = q[1 + a - 1]
        BY ONLY <3>1, SubSeqProperties
      <3> HIDE DEF p
      <3> QED
        BY ONLY <3>1, <3>2
    <2> HIDE DEF p, r
    <2> QED
      BY ONLY <2>1, <2>2, <2>3, Zenon
  <1> HIDE DEF p, r
  <1>7. /\ p \o r \in Seq(S) /\ Len(p \o r) = Len(q) - 1
        /\ \A a \in 1 .. Len(q) - 1 : (p \o r)[a] = IF a < k THEN q[a] ELSE q[a + 1]
    <2>1. /\ p \o r \in Seq(S) /\ Len(p \o r) = Len(p) + Len(r)
          /\ \A a \in 1 .. Len(p) + Len(r) :
               (p \o r)[a] = IF a <= Len(p) THEN p[a] ELSE r[a - Len(p)]
      BY <1>6, ConcatProperties
    <2>2. Len(p) + Len(r) = Len(q) - 1 /\ k \in Nat /\ Len(q) \in Nat
      BY <1>1, <1>6
    <2>3. ASSUME NEW a \in 1 .. Len(q) - 1, a < k PROVE (p \o r)[a] = q[a]
      BY <2>1, <2>2, <2>3, <1>6
    <2>4. ASSUME NEW a \in 1 .. Len(q) - 1, ~ a < k PROVE (p \o r)[a] = q[a + 1]
      <3>1. a - Len(p) \in 1 .. Len(q) - k /\ k + (a - Len(p)) = a + 1 /\ ~ a <= Len(p)
        BY <2>2, <2>4, <1>6
      <3>2. (p \o r)[a] = r[a - Len(p)]
        BY <2>1, <2>2, <3>1
      <3>3. r[a - Len(p)] = q[k + (a - Len(p))]
        BY <1>6, <3>1
      <3> QED
        BY <3>1, <3>2, <3>3
    <2> QED
      BY <2>1, <2>2, <2>3, <2>4
  <1> DEFINE s == p \o r
  <1> HIDE DEF s
  <1>8. DOMAIN s = 1 .. Len(q) - 1
    BY <1>7, LenProperties DEF s
  <1>9. \A a \in 1 .. Len(q) - 1 : s[a] = IF a < k THEN q[a] ELSE q[a + 1]
    BY <1>7 DEF s
  <1>10. IsInjective(s)
    <2> SUFFICES ASSUME NEW a \in 1 .. Len(q) - 1, NEW b \in 1 .. Len(q) - 1, s[a] = s[b]
                 PROVE  a = b
      BY <1>8 DEF IsInjective
    <2>1. \A x, y \in 1 .. Len(q) : q[x] = q[y] => x = y
      BY <1>1 DEF IsInjective
    <2> QED
      BY <2>1, <1>1, <1>9
  <1>11. ASSUME NEW e \in ToSet(s) PROVE e \in ToSet(q) \ {q[k]}
    <2>1. PICK a \in 1 .. Len(q) - 1 : e = s[a]
      BY <1>8 DEF ToSet
    <2>2. \E x \in 1 .. Len(q) : x # k /\ e = q[x]
      BY <2>1, <1>1, <1>9
    <2> QED
      BY <2>2, <1>1 DEF ToSet, IsInjective
  <1>12. ASSUME NEW e \in ToSet(q) \ {q[k]} PROVE e \in ToSet(s)
    <2>1. PICK x \in 1 .. Len(q) : e = q[x] /\ x # k
      BY <1>1 DEF ToSet
    <2>2. \E a \in 1 .. Len(q) - 1 : e = s[a]
      <3>1. CASE x < k
        BY <2>1, <3>1, <1>1, <1>9
      <3>2. CASE x > k
        <4>1. x - 1 \in 1 .. Len(q) - 1 /\ ~ x - 1 < k /\ (x - 1) + 1 = x
          BY <3>2, <1>1
        <4> QED
          BY <2>1, <4>1, <1>9
      <3> QED
        BY <2>1, <3>1, <3>2
    <2> QED
      BY <2>2, <1>8 DEF ToSet
  <1>13. ToSet(s) = ToSet(q) \ {q[k]}
    BY <1>11, <1>12
  <1> QED
    BY <1>7, <1>10, <1>13 DEF s, p, r

\* The rest of a queue behind its last element, turned round.
LEMMA ReverseFront ==
  ASSUME NEW S, NEW c \in Seq(S), NEW i \in 1 .. Len(c), NEW s, s = SubSeq(c, 1, i)
  PROVE  /\ SubSeq(s, 1, i - 1) = SubSeq(c, 1, i - 1) /\ Len(SubSeq(s, 1, i - 1)) = i - 1
         /\ Reverse(s) = <<s[i]>> \o Reverse(SubSeq(s, 1, i - 1))
  <1>a. Len(c) \in Nat /\ \A j \in 1 .. Len(c) : c[j] \in S
    BY LenProperties, ElementOfSeq
  <1>b. s \in Seq(S) /\ Len(s) = i /\ \A j \in 1 .. i : s[j] = c[j]
    BY <1>a, SubSeqProperties
  <1>1. i > 0 /\ i - 1 \in 0 .. Len(c) /\ i - 1 \in 0 .. Len(s)
    BY <1>a, <1>b
  <1> DEFINE f == SubSeq(s, 1, i - 1)
  <1>3. f \in Seq(S) /\ Len(f) = i - 1 /\ \A j \in 1 .. i - 1 : f[j] = c[j]
    BY <1>b, <1>1, SubSeqProperties
  <1> HIDE DEF f
  <1>4. f = SubSeq(c, 1, i - 1)
    <2>1. /\ SubSeq(c, 1, i - 1) \in Seq(S) /\ Len(SubSeq(c, 1, i - 1)) = i - 1
          /\ \A j \in 1 .. i - 1 : SubSeq(c, 1, i - 1)[j] = c[j]
      BY <1>a, <1>1, SubSeqProperties
    <2> QED
      BY <1>3, <2>1, SeqEqual
  <1>5. s[i] \in S
    BY <1>b, <1>1, ElementOfSeq
  <1> DEFINE u == <<s[i]>>
             v == Reverse(f)
             r == Reverse(s)
  <1>6. /\ v \in Seq(S) /\ Len(v) = i - 1 /\ r \in Seq(S) /\ Len(r) = i
        /\ \A j \in 1 .. i : r[j] = s[i - j + 1]
        /\ \A j \in 1 .. i - 1 : v[j] = f[i - 1 - j + 1]
    <2>1. /\ v \in Seq(S) /\ Len(v) = Len(f)
          /\ \A j \in 1 .. Len(f) : v[j] = f[Len(f) - j + 1]
      BY <1>3, ReverseOccurrences
    <2>2. /\ r \in Seq(S) /\ Len(r) = Len(s)
          /\ \A j \in 1 .. Len(s) : r[j] = s[Len(s) - j + 1]
      BY <1>b, ReverseOccurrences
    <2> HIDE DEF v, r
    <2> QED
      BY <1>b, <1>3, <2>1, <2>2
  <1>7. u \in Seq(S) /\ Len(u) = 1 /\ u[1] = s[i]
    BY <1>5
  <1> HIDE DEF u, v, r
  <1>8. /\ u \o v \in Seq(S) /\ Len(u \o v) = i
        /\ \A j \in 1 .. i : (u \o v)[j] = IF j <= 1 THEN u[j] ELSE v[j - 1]
    <2>1. u \o v \in Seq(S) /\ Len(u \o v) = Len(u) + Len(v)
      BY <1>6, <1>7, ConcatProperties
    <2>2. \A j \in 1 .. Len(u) + Len(v) :
            (u \o v)[j] = IF j <= Len(u) THEN u[j] ELSE v[j - Len(u)]
      <3>1. u \in Seq(S) /\ v \in Seq(S)
        BY <1>6, <1>7
      <3> QED
        BY ONLY <3>1, ConcatProperties, Zenon
    <2>3. Len(u) + Len(v) = i
      BY <1>1, <1>6, <1>7
    <2> QED
      BY <1>7, <2>1, <2>2, <2>3
  <1>9. ASSUME NEW j \in 1 .. i PROVE r[j] = (u \o v)[j]
    <2>1. CASE j = 1
      BY <1>1, <1>6, <1>7, <1>8, <2>1
    <2>2. CASE j # 1
      <3>1. j - 1 \in 1 .. i - 1 /\ i - 1 - (j - 1) + 1 = i - j + 1 /\ i - j + 1 \in 1 .. i - 1
        BY <1>1, <2>2
      <3>2. i - j + 1 \in 1 .. i
        BY <1>1
      <3>3. v[j - 1] = c[i - j + 1] /\ r[j] = c[i - j + 1]
        BY <1>b, <1>3, <1>6, <3>1, <3>2
      <3>4. ~ j <= 1
        BY <1>1, <2>2
      <3>5. (u \o v)[j] = v[j - 1]
        BY ONLY <1>8, <3>4, j \in 1 .. i
      <3> QED
        BY <3>3, <3>5
    <2> QED
      BY <2>1, <2>2
  <1>10. r = u \o v
    BY <1>6, <1>8, <1>9, SeqEqual
  <1> QED
    BY <1>3, <1>4, <1>10 DEF u, v, r, f
=============================================================================
