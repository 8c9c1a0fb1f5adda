----------------------------- MODULE ListProofs -----------------------------
(* Lists in general: reversed, joined, and parts of them. *)
EXTENDS Lists, SequencesExt, SequenceTheorems, FiniteSetTheorems, TLAPS

LEMMA ReverseProperties ==
  ASSUME NEW T, NEW s \in Seq(T)
  PROVE  /\ Reverse(s) \in Seq(T)
         /\ Len(Reverse(s)) = Len(s)
         /\ \A i \in 1..Len(s) : Reverse(s)[i] = s[Len(s) - i + 1]
  BY DEF Reverse

LEMMA ReverseEmpty == Reverse(<<>>) = <<>>
  BY DEF Reverse

LEMMA ReverseNonempty ==
  ASSUME NEW T, NEW s \in Seq(T), s # <<>>
  PROVE  Reverse(s) # <<>>
  BY ReverseProperties, EmptySeq

LEMMA ReverseCons ==
  ASSUME NEW T, NEW s \in Seq(T), NEW t \in T
  PROVE  Reverse(<<t>> \o s) = Append(Reverse(s), t)
  <1> DEFINE r == Reverse(<<t>> \o s)
             a == Append(Reverse(s), t)
  <1>1. <<t>> \o s \in Seq(T) /\ Len(<<t>> \o s) = Len(s) + 1
    OBVIOUS
  <1>2. \A i \in 1..(Len(s) + 1) :
          (<<t>> \o s)[i] = IF i = 1 THEN t ELSE s[i - 1]
    OBVIOUS
  <1>3. r \in Seq(T) /\ Len(r) = Len(s) + 1
    BY <1>1, ReverseProperties
  <1>4. a \in Seq(T) /\ Len(a) = Len(s) + 1
    BY ReverseProperties
  <1>6. Len(s) \in Nat
    OBVIOUS
  <1>5. ASSUME NEW i \in 1..(Len(s) + 1) PROVE r[i] = a[i]
    <2>1. r[i] = (<<t>> \o s)[Len(s) + 1 - i + 1]
      <3> DEFINE c == <<t>> \o s
      <3>1. c \in Seq(T) /\ i \in 1..Len(c)
        BY <1>1
      <3> HIDE DEF c
      <3>2. Reverse(c)[i] = c[Len(c) - i + 1]
        BY <3>1, ReverseProperties
      <3> QED
        BY <1>1, <3>2 DEF c
    <2>2. CASE i = Len(s) + 1
      <3>1. r[i] = t
        BY <1>2, <2>1, <2>2
      <3>2. a[i] = t
        BY <2>2, ReverseProperties
      <3> QED
        BY <3>1, <3>2
    <2>3. CASE i \in 1..Len(s)
      <3>1. r[i] = s[Len(s) - i + 1]
        BY <1>2, <2>1, <2>3
      <3>2. a[i] = Reverse(s)[i]
        BY <2>3, ReverseProperties
      <3> QED
        BY <2>3, <3>1, <3>2, ReverseProperties
    <2>4. i = Len(s) + 1 \/ i \in 1..Len(s)
      BY <1>6
    <2> QED
      BY <2>2, <2>3, <2>4
  <1> QED
    BY <1>3, <1>4, <1>5, SeqEqual

LEMMA ConcatAppend ==
  ASSUME NEW T, NEW r \in Seq(T), NEW s \in Seq(T), NEW t \in T
  PROVE  r \o Append(s, t) = Append(r \o s, t)
  <1>1. Append(s, t) = s \o <<t>> /\ Append(r \o s, t) = (r \o s) \o <<t>>
    BY AppendIsConcat, ConcatProperties
  <1>2. <<t>> \in Seq(T)
    OBVIOUS
  <1> QED
    BY <1>1, <1>2, ConcatAssociative

(* A head and a tail list together: the first of the two that is not empty. *)
LEMMA HeadOfConcat ==
  ASSUME NEW T, NEW r \in Seq(T), NEW s \in Seq(T), r # <<>>
  PROVE  Head(r \o s) = Head(r) /\ Tail(r \o s) = Tail(r) \o s
  <1>1. Head(r \o s) = Head(r)
    BY EmptySeq, HeadTailProperties, ConcatProperties
  <1>2. /\ Tail(r \o s) \in Seq(T) /\ Len(Tail(r \o s)) = Len(r) + Len(s) - 1
        /\ Tail(r) \in Seq(T) /\ Len(Tail(r)) = Len(r) - 1
        /\ Len(r) \in Nat \ {0} /\ Len(s) \in Nat
    BY EmptySeq, HeadTailProperties, ConcatProperties
  <1>3. \A i \in 1..(Len(r) + Len(s) - 1) : Tail(r \o s)[i] = (Tail(r) \o s)[i]
    BY <1>2
  <1>4. Tail(r) \o s \in Seq(T) /\ Len(Tail(r) \o s) = Len(r) + Len(s) - 1
    BY <1>2, ConcatProperties
  <1>5. Tail(r \o s) = Tail(r) \o s
    BY <1>2, <1>3, <1>4, SeqEqual
  <1> QED
    BY <1>1, <1>5

----------------------------------------------------------------------------
(* The elements of a list. *)

LEMMA EmptyList ==
  /\ ToSet(<<>>) = {}
  /\ IsInjective(<<>>)
  BY DEF ToSet, IsInjective

LEMMA OneThread ==
  ASSUME NEW T, NEW t \in T
  PROVE  /\ <<t>> \in Seq(T)
         /\ ToSet(<<t>>) = {t}
         /\ IsInjective(<<t>>)
  BY DEF ToSet, IsInjective

LEMMA ConcatList ==
  ASSUME NEW T, NEW r \in Seq(T), NEW s \in Seq(T)
  PROVE  /\ r \o s \in Seq(T)
         /\ ToSet(r \o s) = ToSet(r) \union ToSet(s)
         /\ IsInjective(r \o s) <=>
              /\ IsInjective(r) /\ IsInjective(s)
              /\ ToSet(r) \intersect ToSet(s) = {}
  <1> DEFINE c == r \o s
             m == Len(r)
             n == Len(s)
  <1>1. /\ m \in Nat /\ n \in Nat
        /\ DOMAIN r = 1..m /\ DOMAIN s = 1..n
        /\ c \in Seq(T) /\ DOMAIN c = 1..m + n
    BY ConcatProperties, LenProperties
  <1>2. /\ \A i \in 1..m : i \in 1..m + n /\ c[i] = r[i]
        /\ \A i \in 1..n : i + m \in 1..m + n /\ c[i + m] = s[i]
    <2>1. \A i \in 1..m + n : c[i] = IF i <= m THEN r[i] ELSE s[i - m]
      BY ConcatProperties
    <2> HIDE DEF c, m, n
    <2>2. \A i \in 1..m : i \in 1..m + n /\ i <= m
      BY <1>1
    <2>3. \A i \in 1..n : i + m \in 1..m + n /\ ~ (i + m <= m) /\ (i + m) - m = i
      BY <1>1
    <2> QED
      BY <2>1, <2>2, <2>3
  <1> HIDE DEF c, m, n
  <1>3. \A i \in 1..m + n : i \in 1..m \/ \E j \in 1..n : i = j + m
    <2>1. ASSUME NEW i \in 1..m + n, i \notin 1..m
          PROVE  i - m \in 1..n /\ i = (i - m) + m
      BY <1>1, <2>1
    <2> QED
      BY <2>1
  <1>4. \A i \in 1..m + n : (\E j \in 1..m : i = j /\ c[i] = r[j])
                            \/ (\E j \in 1..n : i = j + m /\ c[i] = s[j])
    <2> TAKE i \in 1..m + n
    <2>1. CASE i \in 1..m
      BY <1>2, <2>1
    <2>2. CASE \E j \in 1..n : i = j + m
      <3>1. PICK j \in 1..n : i = j + m
        BY <2>2
      <3>2. c[i] = s[j]
        BY <1>2, <3>1
      <3> QED
        BY <3>1, <3>2
    <2> QED
      BY <1>3, <2>1, <2>2
  <1>5. ToSet(c) = ToSet(r) \union ToSet(s)
    <2>1. ASSUME NEW x \in ToSet(c)
          PROVE  x \in ToSet(r) \union ToSet(s)
      <3>1. PICK i \in 1..m + n : x = c[i]
        BY <1>1, <2>1 DEF ToSet
      <3>2. (\E j \in 1..m : x = r[j]) \/ (\E j \in 1..n : x = s[j])
        BY <1>4, <3>1
      <3> QED
        BY <1>1, <3>2 DEF ToSet
    <2>2. \A i \in 1..m : r[i] \in ToSet(c)
      BY <1>1, <1>2 DEF ToSet
    <2>3. \A i \in 1..n : s[i] \in ToSet(c)
      <3>1. \A i \in 1..m + n : c[i] \in ToSet(c)
        BY <1>1 DEF ToSet
      <3> QED
        BY <1>2, <3>1
    <2> QED
      BY <1>1, <2>1, <2>2, <2>3 DEF ToSet
  <1>6. ASSUME IsInjective(c)
        PROVE  /\ IsInjective(r) /\ IsInjective(s)
               /\ ToSet(r) \intersect ToSet(s) = {}
    <2>1. IsInjective(r)
      BY <1>1, <1>2, <1>6 DEF IsInjective
    <2>2. ASSUME NEW i \in 1..n, NEW j \in 1..n, s[i] = s[j]
          PROVE  i = j
      <3>1. i + m \in DOMAIN c /\ j + m \in DOMAIN c /\ c[i + m] = c[j + m]
        BY <1>1, <1>2, <2>2
      <3>2. i + m = j + m
        BY <1>6, <3>1 DEF IsInjective
      <3> QED
        BY <1>1, <3>2
    <2>3. ASSUME NEW i \in 1..m, NEW j \in 1..n
          PROVE  r[i] # s[j]
      <3>1. c[i] = r[i] /\ c[j + m] = s[j] /\ i # j + m
        BY <1>1, <1>2
      <3> QED
        BY <1>1, <1>2, <1>6, <3>1 DEF IsInjective
    <2> QED
      BY <1>1, <2>1, <2>2, <2>3 DEF ToSet, IsInjective
  <1>7. ASSUME IsInjective(r), IsInjective(s), ToSet(r) \intersect ToSet(s) = {}
        PROVE  IsInjective(c)
    <2>1. \A i \in 1..m, j \in 1..n : r[i] # s[j]
      BY <1>1, <1>7 DEF ToSet
    <2>2. ASSUME NEW i \in 1..m + n, NEW j \in 1..n, i = j + m, c[i] = s[j],
                 NEW k \in 1..m + n, c[i] = c[k]
          PROVE  i = k
      <3>1. ~ \E l \in 1..m : k = l /\ c[k] = r[l]
        BY <2>1, <2>2
      <3>2. PICK l \in 1..n : k = l + m /\ c[k] = s[l]
        BY <1>4, <3>1
      <3>3. j = l
        BY <1>1, <1>7, <2>2, <3>2 DEF IsInjective
      <3> QED
        BY <2>2, <3>2, <3>3
    <2>3. ASSUME NEW i \in 1..m + n, NEW j \in 1..m, i = j, c[i] = r[j],
                 NEW k \in 1..m + n, c[i] = c[k]
          PROVE  i = k
      <3>1. ~ \E l \in 1..n : k = l + m /\ c[k] = s[l]
        BY <2>1, <2>3
      <3>2. PICK l \in 1..m : k = l /\ c[k] = r[l]
        BY <1>4, <3>1
      <3> QED
        BY <1>1, <1>7, <2>3, <3>2 DEF IsInjective
    <2>4. \A i, k \in 1..m + n : c[i] = c[k] => i = k
      BY <1>4, <2>2, <2>3
    <2> QED
      BY <1>1, <2>4 DEF IsInjective
  <1> QED
    BY <1>1, <1>5, <1>6, <1>7 DEF c

LEMMA ReverseList ==
  ASSUME NEW T, NEW s \in Seq(T)
  PROVE  /\ ToSet(Reverse(s)) = ToSet(s)
         /\ IsInjective(s) => IsInjective(Reverse(s))
  <1> DEFINE r == Reverse(s)
             n == Len(s)
  <1>1. n \in Nat /\ DOMAIN s = 1..n /\ DOMAIN r = 1..n
    BY ReverseProperties, LenProperties
  <1>2. \A i \in 1..n : n - i + 1 \in 1..n /\ r[i] = s[n - i + 1]
    BY <1>1, ReverseProperties
  <1>3. \A i \in 1..n : n - (n - i + 1) + 1 = i
    BY <1>1
  <1> HIDE DEF r, n
  <1>4. \A i \in 1..n : s[i] = r[n - i + 1]
    BY <1>2, <1>3
  <1>5. ToSet(r) = ToSet(s)
    BY <1>1, <1>2, <1>4 DEF ToSet
  <1>6. IsInjective(s) => IsInjective(r)
    BY <1>1, <1>2 DEF IsInjective
  <1> QED
    BY <1>5, <1>6 DEF r

LEMMA TailList ==
  ASSUME NEW T, NEW s \in Seq(T), s # <<>>
  PROVE  /\ Tail(s) \in Seq(T)
         /\ ToSet(s) = {Head(s)} \union ToSet(Tail(s))
         /\ IsInjective(s) => IsInjective(Tail(s)) /\ Head(s) \notin ToSet(Tail(s))
  <1>1. s = <<Head(s)>> \o Tail(s) /\ Head(s) \in T /\ Tail(s) \in Seq(T)
    OBVIOUS
  <1> DEFINE h == <<Head(s)>>
             t == Tail(s)
  <1>2. h \in Seq(T) /\ ToSet(h) = {Head(s)}
    BY <1>1, OneThread
  <1>3. ToSet(h \o t) = ToSet(h) \union ToSet(t)
        /\ (IsInjective(h \o t) <=> IsInjective(h) /\ IsInjective(t) /\ ToSet(h) \intersect ToSet(t) = {})
    BY <1>1, <1>2, ConcatList
  <1> HIDE DEF h
  <1> QED
    BY <1>1, <1>2, <1>3 DEF h

----------------------------------------------------------------------------
(* Selecting the elements of a list. *)

LEMMA Ranks ==
  ASSUME NEW n \in Nat, NEW I \in SUBSET (1..n)
  PROVE  /\ IsFiniteSet(I) /\ Cardinality(I) \in Nat
         /\ \A i \in I : Rank(I, i) \in 1..Cardinality(I)
         /\ \A i, j \in I : Rank(I, i) = Rank(I, j) => i = j
  <1>1. IsFiniteSet(I) /\ Cardinality(I) \in Nat
    <2>1. IsFiniteSet(1..n)
      BY FS_Interval
    <2>2. IsFiniteSet(I)
      BY <2>1, FS_Subset
    <2> QED
      BY <2>2, FS_CardinalityType
  <1> DEFINE U(i) == {j \in I : j <= i}
  <1>2. \A i \in I : U(i) \in SUBSET I /\ i \in U(i)
    OBVIOUS
  <1>3. ASSUME NEW i \in I
        PROVE  Rank(I, i) \in 1..Cardinality(I) /\ IsFiniteSet(U(i))
    <2>1. IsFiniteSet(U(i)) /\ Cardinality(U(i)) <= Cardinality(I)
      BY <1>1, <1>2, FS_Subset
    <2>2. U(i) # {} /\ Rank(I, i) = Cardinality(U(i))
      BY <1>2 DEF Rank
    <2> HIDE DEF U
    <2>3. Cardinality(U(i)) \in Nat /\ Cardinality(U(i)) # 0
      BY <2>1, <2>2, FS_CardinalityType, FS_EmptySet
    <2> QED
      BY <1>1, <2>1, <2>2, <2>3
  <1>4. ASSUME NEW i \in I, NEW j \in I, i < j, Rank(I, i) = Rank(I, j)
        PROVE  FALSE
    <2>1. U(i) \in SUBSET U(j) /\ j \in U(j) /\ j \notin U(i)
      <3>1. \A k \in I : k \in Int
        OBVIOUS
      <3>2. \A k \in I : k <= i => k <= j
        BY <1>4, <3>1
      <3>3. j <= j /\ ~ (j <= i)
        BY <1>4, <3>1
      <3> QED
        BY <3>2, <3>3
    <2>2. IsFiniteSet(U(j)) /\ Cardinality(U(i)) = Cardinality(U(j))
      BY <1>3, <1>4 DEF Rank
    <2> HIDE DEF U
    <2>3. U(j) = U(i)
      BY <2>1, <2>2, FS_Subset
    <2> QED
      BY <2>1, <2>3
  <1>5. ASSUME NEW i \in I, NEW j \in I, Rank(I, i) = Rank(I, j)
        PROVE  i = j
    <2>1. i < j \/ j < i \/ i = j
      OBVIOUS
    <2> QED
      BY <1>4, <1>5, <2>1
  <1> QED
    BY <1>1, <1>3, <1>5

LEMMA Positions ==
  ASSUME NEW n \in Nat, NEW I \in SUBSET (1..n)
  PROVE  /\ Cardinality(I) \in Nat
         /\ \A k \in 1..Cardinality(I) : Position(I, k) \in I
         /\ \A i \in I : \E k \in 1..Cardinality(I) : Position(I, k) = i
         /\ \A k, l \in 1..Cardinality(I) : Position(I, k) = Position(I, l) => k = l
  <1> DEFINE m == Cardinality(I)
             f == [i \in I |-> Rank(I, i)]
  <1>1. m \in Nat /\ IsFiniteSet(I)
    BY Ranks
  <1>2. f \in Injection(I, 1..m)
    <2>1. f \in [I -> 1..m] /\ \A i, j \in I : f[i] = f[j] => i = j
      BY Ranks
    <2> HIDE DEF f, m
    <2> QED
      BY <2>1 DEF Injection, IsInjective
  <1>3. IsFiniteSet(1..m) /\ Cardinality(1..m) = m
    <2>1. m \in Int
      BY <1>1
    <2> HIDE DEF m
    <2> QED
      BY <1>1, <2>1, FS_Interval
  <1>4. f \in Surjection(I, 1..m)
    BY <1>2, <1>3, FS_Injection
  <1>5. \A k \in 1..m : \E i \in I : Rank(I, i) = k
    BY <1>4 DEF Surjection
  <1>6. \A k \in 1..m : Position(I, k) \in I /\ Rank(I, Position(I, k)) = k
    BY <1>5 DEF Position
  <1>7. \A i \in I : Rank(I, i) \in 1..m /\ Position(I, Rank(I, i)) = i
    BY <1>6, Ranks
  <1> QED
    BY <1>1, <1>6, <1>7

LEMMA Selected ==
  ASSUME NEW T, NEW s \in Seq(T), NEW I \in SUBSET DOMAIN s
  PROVE  /\ Cardinality(I) \in Nat
         /\ SelectAt(s, I) \in Seq(T)
         /\ DOMAIN SelectAt(s, I) = 1..Cardinality(I)
         /\ \A k \in 1..Cardinality(I) :
              Position(I, k) \in I /\ SelectAt(s, I)[k] = s[Position(I, k)]
         /\ \A i \in I : \E k \in 1..Cardinality(I) : SelectAt(s, I)[k] = s[i]
  <1> DEFINE n == Len(s)
             m == Cardinality(I)
             r == SelectAt(s, I)
  <1>1. n \in Nat /\ DOMAIN s = 1..n /\ \A i \in 1..n : s[i] \in T
    BY LenProperties
  <1>2. /\ m \in Nat
        /\ \A k \in 1..m : Position(I, k) \in I
        /\ \A i \in I : \E k \in 1..m : Position(I, k) = i
    <2>1. I \in SUBSET (1..n)
      BY <1>1
    <2> QED
      BY <1>1, <2>1, Positions
  <1> HIDE DEF n
  <1>3. r = [k \in 1..m |-> s[Position(I, k)]]
    BY DEF SelectAt
  <1> HIDE DEF m, r
  <1>4. r \in [1..m -> T]
    BY <1>1, <1>2, <1>3
  <1>5. r \in Seq(T)
    BY <1>2, <1>4, SeqDef
  <1>6. DOMAIN r = 1..m /\ \A k \in 1..m : r[k] = s[Position(I, k)]
    BY <1>3
  <1> QED
    BY <1>2, <1>5, <1>6 DEF m, r
=============================================================================
