------------------------------- MODULE Counting -------------------------------
(***************************************************************************)
(* What the proofs need of numbers: the least and the furthest of a set,   *)
(* how positions of a sequence are counted, and what joining and sorting   *)
(* make of sequences that list a set.                                      *)
(***************************************************************************)
EXTENDS Integers, FiniteSets, FiniteSetTheorems, FunctionTheorems, SequenceTheorems,
        WellFoundedInduction, TLAPS

\* The pairs of naturals in order, to use the library's well-foundedness.
LessThan == {ss \in Nat \X Nat : ss[1] < ss[2]}

\* A non-empty set of numbers has a least one.
LEMMA LeastNatural ==
    ASSUME NEW S, S \subseteq Nat, S # {}
    PROVE  \E m \in S : \A n \in S : m <= n
<1>1. IsWellFoundedOn(LessThan, Nat)
  BY ONLY NatLessThanWellFounded DEF OpToRel, LessThan
<1>2. PICK m \in S : \A n \in S : <<n, m>> \notin LessThan
  BY <1>1, WFMin
<1>3. \A n \in S : ~ (n < m)
  BY <1>2 DEF LessThan
<1>. QED
  BY <1>3

\* A set of numbers with a bound has a greatest one.
LEMMA GreatestExists ==
    ASSUME NEW S \in SUBSET Nat, S # {}, NEW n \in Nat, \A i \in S : i <= n
    PROVE  \E m \in S : \A i \in S : i <= m
<1>. DEFINE bounds == {k \in Nat : \A i \in S : i <= k}
<1>1. bounds \subseteq Nat /\ bounds # {}
  OBVIOUS
<1>2. PICK m \in bounds : \A k \in bounds : m <= k
  BY <1>1, LeastNatural
<1>3. m \in S
  <2>1. SUFFICES ASSUME m \notin S PROVE FALSE
    OBVIOUS
  <2>2. PICK i \in S : TRUE
    OBVIOUS
  <2>3. \A j \in S : j <= m /\ j # m /\ j \in Nat
    BY <1>2, <2>1
  <2>4. m \in Nat /\ m - 1 \in Nat /\ \A j \in S : j <= m - 1
    BY <1>2, <2>2, <2>3
  <2>5. m - 1 \in bounds
    BY <2>4
  <2>6. m <= m - 1
    BY <1>2, <2>5
  <2>. QED
    BY <2>4, <2>6
<1>. QED
  BY <1>2, <1>3

\* Among positions there is a furthest one.
LEMMA FurthestExists ==
    ASSUME NEW S, S \subseteq 0..5, S # {}
    PROVE  \E i \in S : \A j \in S : j <= i
<1>. DEFINE T == {5 - i : i \in S}
<1>1. T \subseteq Nat /\ T # {}
  <2>1. \A i \in S : 5 - i \in Nat
    OBVIOUS
  <2>. QED
    BY <2>1
<1>2. PICK m \in T : \A n \in T : m <= n
  BY <1>1, LeastNatural
<1>3. PICK i \in S : m = 5 - i
  BY <1>2
<1>4. \A j \in S : 5 - i <= 5 - j
  BY <1>2, <1>3
<1>. QED
  BY <1>4

\* Positions that are of one kind or the other, and never of both, add up.
LEMMA PartsAddUp ==
    ASSUME NEW n \in Nat, NEW U, NEW V, U \cup V = 1..n, U \cap V = {}
    PROVE  /\ Cardinality(U) \in Nat /\ Cardinality(V) \in Nat
           /\ n = Cardinality(U) + Cardinality(V)
<1>1. IsFiniteSet(1..n) /\ Cardinality(1..n) = n
  BY FS_Interval
<1>2. IsFiniteSet(U) /\ IsFiniteSet(V)
  BY <1>1, FS_Subset
<1>3. Cardinality(U) \in Nat /\ Cardinality(V) \in Nat /\ Cardinality(U \cap V) = 0
  BY <1>2, FS_CardinalityType, FS_EmptySet
<1>4. Cardinality(U \cup V) = Cardinality(U) + Cardinality(V) - Cardinality(U \cap V)
  BY <1>2, FS_Union
<1>5. Cardinality(U \cup V) = n
  BY <1>1, Zenon
<1>. QED
  BY <1>3, <1>4, <1>5

\* Positions behind a prefix are as many as they were before they were appended.
LEMMA ShiftKeepsCount ==
    ASSUME NEW n \in Nat, NEW m \in Nat, NEW B \in SUBSET (1..m)
    PROVE  /\ IsFiniteSet(B) /\ IsFiniteSet({n + j : j \in B})
           /\ Cardinality(B) \in Nat
           /\ Cardinality({n + j : j \in B}) = Cardinality(B)
<1>. DEFINE C == {n + j : j \in B}
            f == [j \in B |-> n + j]
<1>1. IsFiniteSet(B) /\ Cardinality(B) \in Nat
  <2>1. IsFiniteSet(1..m)
    BY FS_Interval
  <2>2. IsFiniteSet(B)
    BY <2>1, FS_Subset
  <2>. QED
    BY <2>2, FS_CardinalityType
<1>2. f \in Bijection(B, C)
  <2>1. f \in [B -> C] /\ \A c \in C : \E j \in B : f[j] = c
    OBVIOUS
  <2>2. \A i, j \in B : f[i] = f[j] => i = j
    OBVIOUS
  <2>. QED
    BY <2>1, <2>2, Fun_IsBij
<1>3. ExistsBijection(B, C)
  BY <1>2 DEF ExistsBijection
<1>. QED
  BY <1>1, <1>3, FS_Bijection

\* What C is, of a sequence of n that m are appended to: A in the first part, and B in
\* what was appended.
IsJoined(C, n, A, m, B) ==
    /\ n \in Nat /\ A \in SUBSET (1..n)
    /\ m \in Nat /\ B \in SUBSET (1..m)
    /\ C \in SUBSET (1..(n + m))
    /\ \A i \in 1..n : i \in C <=> i \in A
    /\ \A j \in 1..m : (n + j) \in C <=> j \in B

\* So what is counted in a concatenation is counted in its parts.
LEMMA CountsAddUp ==
    ASSUME NEW C, NEW n, NEW A, NEW m, NEW B, IsJoined(C, n, A, m, B)
    PROVE  /\ Cardinality(A) \in Nat /\ Cardinality(B) \in Nat
           /\ Cardinality(C) = Cardinality(A) + Cardinality(B)
<1>. USE DEF IsJoined
<1>. DEFINE D == {n + j : j \in B}
<1>1. IsFiniteSet(A) /\ Cardinality(A) \in Nat
  <2>1. IsFiniteSet(1..n)
    BY FS_Interval
  <2>2. IsFiniteSet(A)
    BY <2>1, FS_Subset
  <2>. QED
    BY <2>2, FS_CardinalityType
<1>2. IsFiniteSet(D) /\ Cardinality(D) = Cardinality(B) /\ Cardinality(B) \in Nat
  BY ShiftKeepsCount
<1>3. A \cap D = {}
  <2>1. \A a \in A : a <= n
    OBVIOUS
  <2>2. \A d \in D : d > n
    OBVIOUS
  <2>. QED
    BY <2>1, <2>2
<1>4. C = A \cup D
  <2>1. ASSUME NEW k \in C PROVE k \in A \cup D
    <3>1. k \in 1..n \/ (k - n \in 1..m /\ k = n + (k - n))
      OBVIOUS
    <3>. QED
      BY <3>1
  <2>. QED
    BY <2>1
<1>5. Cardinality(A \cup D) = Cardinality(A) + Cardinality(D) - Cardinality(A \cap D)
  BY <1>1, <1>2, FS_Union
<1>6. Cardinality(A \cap D) = 0 /\ Cardinality(C) = Cardinality(A \cup D)
  BY <1>3, <1>4, FS_EmptySet, Zenon
<1>. QED
  BY <1>1, <1>2, <1>5, <1>6

-----------------------------------------------------------------------------
\* Of a finite set with a strict total order each element has a place, the number of
\* elements that come before it, and each place has one element.
LEMMA PlacesAreTaken ==
    ASSUME NEW I, IsFiniteSet(I), NEW R,
           \A i \in I : <<i, i>> \notin R,
           \A i, j \in I : i # j => <<i, j>> \in R \/ <<j, i>> \in R,
           \A i, j, k \in I : <<i, j>> \in R /\ <<j, k>> \in R => <<i, k>> \in R
    PROVE  \E f \in Bijection(1..Cardinality(I), I) :
               /\ \A k \in 1..Cardinality(I) : \A i \in I :
                      Cardinality({j \in I : <<j, i>> \in R}) = k - 1 <=> i = f[k]
               /\ \A k, l \in 1..Cardinality(I) : k < l => <<f[k], f[l]>> \in R
<1>. DEFINE Ahead(i) == {j \in I : <<j, i>> \in R}
            n == Cardinality(I)
            place == [i \in I |-> Cardinality(Ahead(i)) + 1]
<1>1. n \in Nat
  BY FS_CardinalityType
<1>2. ASSUME NEW i \in I
      PROVE  /\ IsFiniteSet(Ahead(i))
             /\ Cardinality(Ahead(i)) \in Nat /\ Cardinality(Ahead(i)) < n
  <2>1. Ahead(i) \in SUBSET I /\ Ahead(i) # I
    OBVIOUS
  <2>2. IsFiniteSet(Ahead(i)) /\ Cardinality(Ahead(i)) <= n /\ Cardinality(Ahead(i)) # n
    BY <2>1, FS_Subset
  <2>3. Cardinality(Ahead(i)) \in Nat
    BY <2>2, FS_CardinalityType
  <2>. QED
    BY <1>1, <2>2, <2>3
<1>3. ASSUME NEW i \in I, NEW j \in I, <<i, j>> \in R
      PROVE  Cardinality(Ahead(i)) < Cardinality(Ahead(j))
  <2>1. Ahead(i) \in SUBSET Ahead(j) /\ Ahead(i) # Ahead(j)
    BY <1>3
  <2>2. /\ IsFiniteSet(Ahead(j))
        /\ Cardinality(Ahead(i)) \in Nat /\ Cardinality(Ahead(j)) \in Nat
    BY <1>2
  <2>. HIDE DEF Ahead
  <2>3. /\ Cardinality(Ahead(i)) <= Cardinality(Ahead(j))
        /\ Cardinality(Ahead(i)) # Cardinality(Ahead(j))
    BY <2>1, <2>2, FS_Subset
  <2>. QED
    BY <2>2, <2>3
<1>. HIDE DEF Ahead, n
<1>4. \A i \in I : place[i] \in 1..n /\ place[i] = Cardinality(Ahead(i)) + 1
  BY <1>1, <1>2
<1>5. \A i, j \in I : <<i, j>> \in R => place[i] < place[j]
  BY <1>2, <1>3
<1>. HIDE DEF place
<1>6. place \in [I -> 1..n]
  BY <1>4 DEF place
<1>7. ASSUME NEW i \in I, NEW j \in I
      PROVE  /\ place[i] = place[j] => i = j
             /\ place[i] < place[j] => <<i, j>> \in R
  <2>1. place[i] \in Nat /\ place[j] \in Nat
    BY <1>2, <1>4
  <2>2. /\ <<i, j>> \in R => place[i] < place[j]
        /\ <<j, i>> \in R => place[j] < place[i]
        /\ i # j => <<i, j>> \in R \/ <<j, i>> \in R
    BY <1>5
  <2>. QED
    BY <2>1, <2>2
<1>8. place \in Injection(I, 1..n)
  BY <1>6, <1>7, Fun_IsInj
<1>9. place \in Bijection(I, 1..n)
  <2>1. IsFiniteSet(1..n) /\ Cardinality(1..n) = n
    BY <1>1, FS_Interval
  <2>2. PICK D : D = 1..n
    OBVIOUS
  <2>3. place \in Injection(I, D) /\ IsFiniteSet(D) /\ Cardinality(I) = Cardinality(D)
    BY <1>8, <2>1, <2>2 DEF n
  <2>4. place \in Surjection(I, D)
    BY <2>3, FS_Injection
  <2>. QED
    BY <1>8, <2>2, <2>4 DEF Bijection
<1>. DEFINE f == Inverse(place, I, 1..n)
<1>10. f \in Bijection(1..n, I) /\ \A i \in I : f[place[i]] = i
  BY <1>9, Fun_BijInverse
<1>11. f \in [1..n -> I]
  BY <1>10 DEF Bijection, Surjection
<1>. HIDE DEF f
<1>12. \A k \in 1..n : place[f[k]] = k
  <2>1. \A k \in 1..n : \E i \in I : place[i] = k
    BY <1>9 DEF Bijection, Surjection
  <2>. QED
    BY <1>10, <2>1
<1>13. ASSUME NEW k \in 1..n, NEW i \in I
       PROVE  Cardinality(Ahead(i)) = k - 1 <=> i = f[k]
  BY <1>2, <1>4, <1>10, <1>12
<1>14. ASSUME NEW k \in 1..n, NEW l \in 1..n, k < l
       PROVE  <<f[k], f[l]>> \in R
  <2>1. f[k] \in I /\ f[l] \in I /\ place[f[k]] = k /\ place[f[l]] = l
    BY <1>11, <1>12
  <2>. QED
    BY <1>7, <1>14, <2>1
<1>. QED
  BY <1>10, <1>13, <1>14 DEF Ahead, n

\* A sequence that has every element of a set once.
Lists(s, S) ==
    /\ s \in Seq(S)
    /\ \A i, j \in 1..Len(s) : s[i] = s[j] => i = j
    /\ \A x \in S : \E i \in 1..Len(s) : s[i] = x

\* It is as long as the set is large.
LEMMA ListIsAsLong ==
    ASSUME NEW s, NEW S, Lists(s, S)
    PROVE  /\ Len(s) \in Nat /\ DOMAIN s = 1..Len(s) /\ Range(s) = S
           /\ IsFiniteSet(S) /\ Cardinality(S) = Len(s)
<1>1. Len(s) \in Nat /\ s \in [1..Len(s) -> S] /\ DOMAIN s = 1..Len(s)
  BY LenProperties DEF Lists
<1>2. Range(s) = S
  BY <1>1 DEF Range, Lists
<1>3. s \in Bijection(1..Len(s), S)
  BY <1>1, Fun_IsBij DEF Lists
<1>4. ExistsBijection(1..Len(s), S)
  BY <1>3 DEF ExistsBijection
<1>5. IsFiniteSet(1..Len(s)) /\ Cardinality(1..Len(s)) = Len(s)
  BY <1>1, FS_Interval
<1>. QED
  BY <1>1, <1>2, <1>4, <1>5, FS_Bijection

\* One more element is appended.
LEMMA ListOfOneMore ==
    ASSUME NEW s, NEW S, Lists(s, S), NEW x, x \notin S
    PROVE  Lists(Append(s, x), S \cup {x})
<1>1. s \in Seq(S \cup {x}) /\ Len(s) \in Nat
  BY SeqMonotonic, LenProperties DEF Lists
<1>2. /\ Append(s, x) \in Seq(S \cup {x}) /\ Len(Append(s, x)) = Len(s) + 1
      /\ \A i \in 1..Len(s) : Append(s, x)[i] = s[i]
      /\ Append(s, x)[Len(s) + 1] = x
  BY <1>1, AppendProperties
<1>3. \A i \in 1..Len(s) : s[i] \in S
  BY ElementOfSeq DEF Lists
<1>4. \A i \in 1..(Len(s) + 1) : i \in 1..Len(s) \/ i = Len(s) + 1
  BY <1>1
<1>5. \A i \in 1..Len(s) : i \in 1..(Len(s) + 1)
  BY <1>1
<1>6. Len(s) + 1 \in 1..(Len(s) + 1)
  BY <1>1
<1>. DEFINE t == Append(s, x)
<1>. HIDE DEF t
<1>7. \A i, j \in 1..Len(t) : t[i] = t[j] => i = j
  <2>1. \A i, j \in 1..Len(s) : s[i] = s[j] => i = j
    BY DEF Lists
  <2>2. /\ Len(t) = Len(s) + 1 /\ t[Len(s) + 1] = x
        /\ \A i \in 1..Len(s) : t[i] = s[i] /\ t[i] # x
    BY <1>2, <1>3 DEF t
  <2>. QED
    BY <1>4, <2>1, <2>2
<1>8. \A y \in S \cup {x} : \E i \in 1..Len(t) : t[i] = y
  <2>1. \A y \in S : \E i \in 1..Len(s) : t[i] = y
    BY <1>2 DEF Lists, t
  <2>2. Len(t) = Len(s) + 1 /\ t[Len(s) + 1] = x
    BY <1>2 DEF t
  <2>. QED
    BY <1>5, <1>6, <2>1, <2>2
<1>. QED
  BY <1>2, <1>7, <1>8 DEF Lists, t

\* The lists of two sets that share nothing are joined.
LEMMA ListOfBoth ==
    ASSUME NEW s, NEW S, Lists(s, S), NEW t, NEW T, Lists(t, T), S \cap T = {}
    PROVE  Lists(s \o t, S \cup T)
<1>1. /\ s \in Seq(S \cup T) /\ t \in Seq(S \cup T)
      /\ Len(s) \in Nat /\ Len(t) \in Nat
  BY SeqMonotonic, LenProperties DEF Lists
<1>. DEFINE m == Len(s)
            n == Len(t)
            u == s \o t
<1>2. /\ u \in Seq(S \cup T) /\ Len(u) = m + n
      /\ \A i \in 1..(m + n) : u[i] = IF i <= m THEN s[i] ELSE t[i - m]
  BY <1>1, ConcatProperties
<1>3. /\ \A i \in 1..m : s[i] \in S
      /\ \A i \in 1..n : t[i] \in T
  BY ElementOfSeq DEF Lists
<1>4. /\ m \in Nat /\ n \in Nat
      /\ \A i, j \in 1..m : s[i] = s[j] => i = j
      /\ \A i, j \in 1..n : t[i] = t[j] => i = j
      /\ \A x \in S : \E i \in 1..m : s[i] = x
      /\ \A x \in T : \E i \in 1..n : t[i] = x
  BY <1>1 DEF Lists
<1>. HIDE DEF m, n, u
<1>5. \A i \in 1..(m + n) : \/ i \in 1..m /\ u[i] = s[i] /\ u[i] \in S
                            \/ i - m \in 1..n /\ u[i] = t[i - m] /\ u[i] \in T
  BY <1>2, <1>3, <1>4
<1>6. ASSUME NEW i \in 1..(m + n), NEW j \in 1..(m + n), u[i] = u[j]
      PROVE  i = j
  <2>1. CASE u[i] \in S
    BY <1>4, <1>5, <1>6, <2>1
  <2>2. CASE u[i] \notin S
    <3>1. /\ i - m \in 1..n /\ u[i] = t[i - m]
          /\ j - m \in 1..n /\ u[j] = t[j - m]
      BY <1>5, <1>6, <2>2
    <3>2. i - m = j - m
      BY <1>4, <1>6, <3>1
    <3>. QED
      BY <1>4, <3>2
  <2>. QED
    BY <2>1, <2>2
<1>7. ASSUME NEW x \in S \cup T
      PROVE  \E i \in 1..(m + n) : u[i] = x
  <2>1. CASE x \in S
    <3>1. PICK i \in 1..m : s[i] = x
      BY <1>4, <2>1
    <3>2. i \in 1..(m + n) /\ u[i] = x
      BY <1>2, <1>4, <3>1
    <3>. QED
      BY <3>2
  <2>2. CASE x \in T
    <3>1. PICK i \in 1..n : t[i] = x
      BY <1>4, <2>2
    <3>2. m + i \in 1..(m + n) /\ u[m + i] = x
      BY <1>2, <1>4, <3>1
    <3>. QED
      BY <3>2
  <2>. QED
    BY <2>1, <2>2
<1>. QED
  BY <1>2, <1>6, <1>7 DEF Lists, u

\* A list is a list in any other order.
LEMMA ListInAnyOrder ==
    ASSUME NEW s, NEW S, Lists(s, S), NEW n, n = Len(s), NEW f \in Bijection(1..n, 1..n)
    PROVE  /\ Lists([k \in 1..n |-> s[f[k]]], S)
           /\ Len([k \in 1..n |-> s[f[k]]]) = n
<1>. DEFINE t == [k \in 1..n |-> s[f[k]]]
<1>1. n \in Nat /\ \A i \in 1..n : s[i] \in S
  BY LenProperties, ElementOfSeq DEF Lists
<1>2. /\ f \in [1..n -> 1..n]
      /\ \A k, l \in 1..n : f[k] = f[l] => k = l
      /\ \A i \in 1..n : \E k \in 1..n : f[k] = i
  BY DEF Bijection, Injection, Surjection, IsInjective
<1>3. t \in Seq(S) /\ Len(t) = n
  BY <1>1, <1>2
<1>4. \A k \in 1..n : t[k] = s[f[k]] /\ f[k] \in 1..n
  BY <1>2
<1>. HIDE DEF t
<1>5. \A k, l \in 1..n : t[k] = t[l] => k = l
  <2>1. ASSUME NEW k \in 1..n, NEW l \in 1..n, t[k] = t[l]
        PROVE  f[k] = f[l]
    <3>1. f[k] \in 1..n /\ f[l] \in 1..n /\ s[f[k]] = s[f[l]]
      BY <1>4, <2>1
    <3>2. \A i, j \in 1..n : s[i] = s[j] => i = j
      BY DEF Lists
    <3>. QED
      BY <3>1, <3>2, Zenon
  <2>. QED
    BY <1>2, <2>1
<1>6. \A x \in S : \E k \in 1..n : t[k] = x
  <2>. TAKE x \in S
  <2>1. PICK i \in 1..n : s[i] = x
    BY DEF Lists
  <2>2. PICK k \in 1..n : f[k] = i
    BY <1>2
  <2>3. t[k] = x
    BY <1>4, <2>1, <2>2
  <2>. QED
    BY <2>3
<1>. QED
  BY <1>3, <1>5, <1>6 DEF Lists, t

\* What is behind the first of a list is a list of the others.
LEMMA ListOfOthers ==
    ASSUME NEW s, NEW S, Lists(s, S), s # <<>>
    PROVE  Head(s) = s[1] /\ s[1] \in S /\ Lists(Tail(s), S \ {s[1]})
<1>1. Len(s) \in Nat \ {0} /\ DOMAIN s = 1..Len(s)
  BY EmptySeq, LenProperties DEF Lists
<1>2. /\ Head(s) = s[1] /\ s[1] \in S
  BY <1>1, ElementOfSeq DEF Lists
<1>. DEFINE t == Tail(s)
            n == Len(s)
<1>3. /\ t \in Seq(S) /\ Len(t) = n - 1
      /\ \A i \in 1..(n - 1) : t[i] = s[i + 1]
  BY HeadTailProperties DEF Lists
<1>4. /\ n \in Nat \ {0}
      /\ \A i, j \in 1..n : s[i] = s[j] => i = j
      /\ \A x \in S : \E i \in 1..n : s[i] = x
      /\ \A i \in 1..n : s[i] \in S
  BY <1>1, ElementOfSeq DEF Lists
<1>. HIDE DEF t, n
<1>5. \A i \in 1..(n - 1) : t[i] \in S \ {s[1]}
  BY <1>3, <1>4
<1>6. t \in Seq(S \ {s[1]})
  <2>1. DOMAIN t = 1..(n - 1) /\ t \in [1..(n - 1) -> S] /\ n - 1 \in Nat
    BY <1>3, <1>4, LenProperties
  <2>2. t \in [1..(n - 1) -> S \ {s[1]}]
    BY <1>5, <2>1
  <2>. QED
    BY <2>1, <2>2, SeqDef
<1>7. \A i, j \in 1..(n - 1) : t[i] = t[j] => i = j
  BY <1>3, <1>4
<1>8. ASSUME NEW x \in S \ {s[1]}
      PROVE  \E i \in 1..(n - 1) : t[i] = x
  <2>1. PICK i \in 1..n : s[i] = x
    BY <1>4
  <2>2. i - 1 \in 1..(n - 1) /\ t[i - 1] = x
    BY <1>3, <1>4, <1>8, <2>1
  <2>. QED
    BY <2>2
<1>. QED
  BY <1>2, <1>3, <1>6, <1>7, <1>8 DEF Lists, t

\* A list of images under an injection.
LEMMA ListOfImages ==
    ASSUME NEW s, NEW S, Lists(s, S), NEW g, DOMAIN g = S,
           \A x, y \in S : g[x] = g[y] => x = y,
           NEW t, t = [i \in 1..Len(s) |-> g[s[i]]]
    PROVE  Lists(t, Range(g))
<1>1. Len(s) \in Nat /\ \A i \in 1..Len(s) : s[i] \in S
  BY LenProperties, ElementOfSeq DEF Lists
<1>2. Range(g) = {g[x] : x \in S}
  BY DEF Range
<1>3. t \in Seq(Range(g)) /\ Len(t) = Len(s)
  BY <1>1, <1>2
<1>4. \A k, l \in 1..Len(s) : t[k] = t[l] => k = l
  BY <1>1 DEF Lists
<1>5. \A x \in Range(g) : \E k \in 1..Len(s) : t[k] = x
  BY <1>2 DEF Lists
<1>. QED
  BY <1>3, <1>4, <1>5 DEF Lists

\* Of sequences joined[i] is the first i of them, one behind the other.
IsJoining(joined, ss, n) ==
    joined = [i \in 1..n |-> IF i = 1 THEN ss[i] ELSE joined[i-1] \o ss[i]]

\* Sequences can be joined, however many there are.
LEMMA SequencesCanBeJoined ==
    ASSUME NEW ss, NEW n \in Nat
    PROVE  \E joined : IsJoining(joined, ss, n)
<1>. DEFINE missing == {m \in Nat : ~ \E joined : IsJoining(joined, ss, m)}
<1>1. SUFFICES ASSUME missing # {} PROVE FALSE
  OBVIOUS
<1>2. PICK m \in missing : \A k \in missing : m <= k
  BY <1>1, LeastNatural
<1>3. CASE m = 0
  <2>. DEFINE joined == [i \in 1..m |-> ss[i]]
  <2>1. joined = [i \in 1..m |-> IF i = 1 THEN ss[i] ELSE joined[i-1] \o ss[i]]
    BY <1>3
  <2>. QED
    BY <1>2, <2>1 DEF IsJoining
<1>4. CASE m # 0
  <2>1. m \in Nat \ {0} /\ m - 1 \in Nat /\ ~ (m <= m - 1)
    BY <1>2, <1>4
  <2>2. m - 1 \notin missing
    BY <1>2, <2>1
  <2>3. PICK f : IsJoining(f, ss, m - 1)
    BY <2>1, <2>2
  <2>. DEFINE last == IF m = 1 THEN ss[m] ELSE f[m-1] \o ss[m]
              joined == [i \in 1..m |-> IF i = m THEN last ELSE f[i]]
              next == [i \in 1..m |-> IF i = 1 THEN ss[i] ELSE joined[i-1] \o ss[i]]
  <2>4. ASSUME NEW i \in 1..m
        PROVE  joined[i] = IF i = 1 THEN ss[i] ELSE joined[i-1] \o ss[i]
    <3>1. CASE i = m
      <4>1. m # 1 => i - 1 \in 1..m /\ i - 1 # m
        BY <2>1, <3>1
      <4>2. m # 1 => joined[i-1] = f[m-1]
        BY <3>1, <4>1
      <4>3. joined[i] = last
        BY <3>1
      <4>. QED
        BY <3>1, <4>2, <4>3
    <3>2. CASE i # m
      <4>1. i \in 1..(m - 1) /\ (i # 1 => i - 1 \in 1..m /\ i - 1 # m)
        BY <2>1, <3>2
      <4>2. f[i] = IF i = 1 THEN ss[i] ELSE f[i-1] \o ss[i]
        BY <2>3, <4>1 DEF IsJoining
      <4>3. joined[i] = f[i] /\ (i # 1 => joined[i-1] = f[i-1])
        BY <3>2, <4>1
      <4>. QED
        BY <4>2, <4>3
    <3>. QED
      BY <3>1, <3>2
  <2>5. joined = next
    <3>. HIDE DEF last
    <3>. QED
      BY <2>4
  <2>. HIDE DEF joined
  <2>6. IsJoining(joined, ss, m)
    BY <2>5 DEF IsJoining
  <2>. QED
    BY <1>2, <2>6
<1>. QED
  BY <1>3, <1>4

\* The k-th of n sequences lists the k-th of n sets that share nothing.
ListEach(ss, S, n) ==
    /\ \A k \in 1..n : Lists(ss[k], S[k])
    /\ \A k, l \in 1..n : k # l => S[k] \cap S[l] = {}

UnionOfFirst(S, n) == UNION {S[k] : k \in 1..n}

\* What they join to is a list of all of them.
LEMMA ListOfAll ==
    ASSUME NEW ss, NEW S, NEW n \in Nat, NEW joined, IsJoining(joined, ss, n),
           ListEach(ss, S, n)
    PROVE  \A m \in 1..n : Lists(joined[m], UnionOfFirst(S, m))
<1>. USE DEF ListEach, UnionOfFirst
<1>. DEFINE U(m) == UNION {S[k] : k \in 1..m}
            wrong == {m \in 1..n : ~ Lists(joined[m], U(m))}
<1>1. SUFFICES ASSUME wrong # {} PROVE FALSE
  OBVIOUS
<1>2. PICK m \in wrong : \A k \in wrong : m <= k
  <2>1. wrong \subseteq Nat
    OBVIOUS
  <2>. QED
    BY <1>1, <2>1, LeastNatural
<1>3. m \in 1..n /\ joined[m] = IF m = 1 THEN ss[m] ELSE joined[m-1] \o ss[m]
  BY <1>2 DEF IsJoining
<1>4. CASE m = 1
  <2>1. 1..m = {m} /\ joined[m] = ss[m]
    BY <1>3, <1>4
  <2>2. U(m) = S[m]
    BY <2>1
  <2>3. Lists(joined[m], S[m])
    BY <1>3, <2>1
  <2>. HIDE DEF U, ListEach, UnionOfFirst
  <2>. QED
    BY <1>2, <2>2, <2>3
<1>5. CASE m # 1
  <2>1. /\ m - 1 \in 1..n /\ m - 1 \in Nat /\ ~ (m <= m - 1)
        /\ 1..m = (1..(m - 1)) \cup {m}
        /\ \A k \in 1..(m - 1) : k \in 1..n /\ k # m
    BY <1>3, <1>5
  <2>2. Lists(joined[m-1], U(m - 1))
    BY <1>2, <2>1
  <2>3. Lists(ss[m], S[m])
    BY <1>3
  <2>4. U(m) = U(m - 1) \cup S[m] /\ U(m - 1) \cap S[m] = {}
    BY <1>3, <2>1
  <2>. HIDE DEF U
  <2>5. Lists(joined[m-1] \o ss[m], U(m - 1) \cup S[m])
    BY <2>2, <2>3, <2>4, ListOfBoth
  <2>. QED
    BY <1>2, <1>3, <1>5, <2>4, <2>5
<1>. QED
  BY <1>4, <1>5

\* B is a strict total order of S.
IsStrictOrder(B, S) ==
    /\ \A x \in S : <<x, x>> \notin B
    /\ \A x, y \in S : x # y => <<x, y>> \in B \/ <<y, x>> \in B
    /\ \A x, y, z \in S : <<x, y>> \in B /\ <<y, z>> \in B => <<x, z>> \in B

\* f[k] is where the element is that k - 1 others come before, and taken in that order a
\* list of S is a list of S and in order.
SortsBy(f, s, S, B) ==
    LET n == Len(s)
    IN  /\ f \in [1..n -> 1..n]
        /\ \A k, i \in 1..n :
               Cardinality({j \in 1..n : <<s[j], s[i]>> \in B}) = k - 1 <=> i = f[k]
        /\ Lists([k \in 1..n |-> s[f[k]]], S)
        /\ Len([k \in 1..n |-> s[f[k]]]) = n
        /\ \A k, l \in 1..n : k < l => <<s[f[k]], s[f[l]]>> \in B

\* Every list can be sorted by the ranks of its elements.
LEMMA RanksSort ==
    ASSUME NEW s, NEW S, Lists(s, S), NEW B, IsStrictOrder(B, S)
    PROVE  \E f : SortsBy(f, s, S, B)
<1>. DEFINE n == Len(s)
            I == 1..n
            R == {p \in I \X I : <<s[p[1]], s[p[2]]>> \in B}
<1>1. n \in Nat /\ \A i \in I : s[i] \in S
  BY LenProperties, ElementOfSeq DEF Lists
<1>2. IsFiniteSet(I) /\ Cardinality(I) = n
  <2>1. n \in Int /\ (n < 1 => n = 0)
    BY <1>1
  <2>. QED
    BY <2>1, FS_Interval, SMT
<1>3. \A i, j \in I : s[i] = s[j] => i = j
  BY DEF Lists
<1>4. \A i, j \in I : <<i, j>> \in R <=> <<s[i], s[j]>> \in B
  OBVIOUS
<1>. HIDE DEF I, R
<1>5. /\ \A i \in I : <<i, i>> \notin R
      /\ \A i, j \in I : i # j => <<i, j>> \in R \/ <<j, i>> \in R
      /\ \A i, j, k \in I : <<i, j>> \in R /\ <<j, k>> \in R => <<i, k>> \in R
  BY <1>1, <1>3, <1>4 DEF IsStrictOrder
<1>6. PICK f \in Bijection(1..Cardinality(I), I) :
          /\ \A k \in 1..Cardinality(I) : \A i \in I :
                 Cardinality({j \in I : <<j, i>> \in R}) = k - 1 <=> i = f[k]
          /\ \A k, l \in 1..Cardinality(I) : k < l => <<f[k], f[l]>> \in R
  BY <1>2, <1>5, PlacesAreTaken
<1>7. 1..Cardinality(I) = I
  BY <1>2 DEF I
<1>8. f \in Bijection(I, I) /\ f \in [I -> I]
  BY <1>6, <1>7 DEF Bijection, Surjection
<1>9. ASSUME NEW k \in I, NEW i \in I
      PROVE  Cardinality({j \in I : <<s[j], s[i]>> \in B}) = k - 1 <=> i = f[k]
  <2>1. {j \in I : <<s[j], s[i]>> \in B} = {j \in I : <<j, i>> \in R}
    BY <1>4
  <2>. QED
    BY <1>6, <1>7, <2>1
<1>10. \A k, l \in I : k < l => <<s[f[k]], s[f[l]]>> \in B
  BY <1>4, <1>6, <1>7, <1>8
<1>11. /\ Lists([k \in I |-> s[f[k]]], S)
       /\ Len([k \in I |-> s[f[k]]]) = n
  BY <1>8, ListInAnyOrder DEF I
<1>. QED
  BY <1>8, <1>9, <1>10, <1>11 DEF I, SortsBy
===============================================================================
