-------------------------- MODULE SubsequencesProofs --------------------------
(***************************************************************************)
(* What the operators of Subsequences return, for sets and sequences of    *)
(* every size.  Ascending(S) is the only sequence that lists S in          *)
(* ascending order, so what it is for a set built from others follows from *)
(* writing down one sequence that does.                                    *)
(***************************************************************************)
EXTENDS Subsequences, FiniteSetTheorems, SequenceTheorems, TLAPS

\* f lists S from the least to the greatest member.
Lists(f, S) ==
    /\ S \subseteq Nat /\ f \in Seq(S)
    /\ \A i, j \in 1..Len(f) : i < j => f[i] < f[j]
    /\ \A x \in S : \E i \in 1..Len(f) : f[i] = x

Numbers(S)   == S \subseteq Nat /\ IsFiniteSet(S)
Inside(S, s) == S \subseteq 1..Len(s)
Before(L, R) == \A i \in L, j \in R : i < j

\* The members of S before p, up to p, and behind p.
Under(S, p)  == {i \in S : i < p}
UpTo(S, p)   == {i \in S : i <= p}
Behind(S, p) == {i \in S : p < i}

\* The members of S at the places W of its list, the positions of s with an element of
\* D, and the positions S of a part that begins behind a.
Places(S, W)     == {Ascending(S)[k] : k \in W}
Where(s, D)      == {i \in DOMAIN s : s[i] \in D}
Moved(S, a, b)   == {i \in (a + 1)..b : i - a \in S}

-----------------------------------------------------------------------------
\* A greater member has a greater rank, and every rank below the size of S is taken.
LEMMA Ranks ==
  ASSUME NEW S, S \subseteq Nat, IsFiniteSet(S)
  PROVE  /\ Cardinality(S) \in Nat
         /\ \A i \in S : Rank(S, i) \in 0..(Cardinality(S) - 1)
         /\ \A i, j \in S : i < j => Rank(S, i) < Rank(S, j)
         /\ \A k \in 1..Cardinality(S) : \E i \in S : Rank(S, i) = k - 1
<1> DEFINE n == Cardinality(S)
           Below(i) == {j \in S : j < i}
<1>1. n \in Nat /\ \A x \in S : x \in Nat
  BY FS_CardinalityType
<1>2. ASSUME NEW i \in S
      PROVE  IsFiniteSet(Below(i)) /\ Rank(S, i) \in 0..(n - 1)
  <2>1. Below(i) \in SUBSET S /\ Below(i) # S
    OBVIOUS
  <2> HIDE DEF Below
  <2>2. /\ IsFiniteSet(Below(i)) /\ Cardinality(Below(i)) <= n /\ Cardinality(Below(i)) # n
    BY <2>1, FS_Subset
  <2>3. Cardinality(Below(i)) \in Nat
    BY <2>2, FS_CardinalityType
  <2>4. Rank(S, i) = Cardinality(Below(i))
    BY DEF Rank, Below
  <2> QED BY <1>1, <2>2, <2>3, <2>4
<1>3. ASSUME NEW i \in S, NEW j \in S, i < j
      PROVE  Rank(S, i) < Rank(S, j)
  <2>1. Below(i) \in SUBSET Below(j) /\ i \in Below(j) /\ i \notin Below(i)
    <3>1. i \in Nat /\ j \in Nat /\ \A x \in S : x \in Nat /\ (x < i => x < j)
      BY <1>1, <1>3
    <3>2. Below(i) \in SUBSET Below(j)
      BY <3>1
    <3>3. i \in Below(j)
      BY <1>3, <3>1
    <3>4. i \notin Below(i)
      BY <3>1
    <3> QED BY <3>2, <3>3, <3>4
  <2>2. IsFiniteSet(Below(j))
    BY <1>2
  <2>3. Rank(S, i) = Cardinality(Below(i)) /\ Rank(S, j) = Cardinality(Below(j))
    BY DEF Rank
  <2> HIDE DEF Below
  <2>4. Cardinality(Below(i)) <= Cardinality(Below(j)) /\ Cardinality(Below(i)) # Cardinality(Below(j))
    BY <2>1, <2>2, FS_Subset
  <2> QED BY <1>2, <2>3, <2>4
<1>4. ASSUME NEW k \in 1..n PROVE \E i \in S : Rank(S, i) = k - 1
  <2> DEFINE f == [i \in S |-> Rank(S, i) + 1]
  <2>0. \A i \in S : Rank(S, i) \in Nat /\ Rank(S, i) + 1 \in 1..n
    <3> SUFFICES ASSUME NEW i \in S PROVE Rank(S, i) \in Nat /\ Rank(S, i) + 1 \in 1..n
      OBVIOUS
    <3>1. Rank(S, i) \in 0..(n - 1)
      BY <1>2
    <3> HIDE DEF n
    <3> QED BY <1>1, <3>1
  <2>1. f \in [S -> 1..n]
    BY <2>0
  <2>2. \A i, j \in S : f[i] = f[j] => i = j
    <3> SUFFICES ASSUME NEW i \in S, NEW j \in S, i # j PROVE f[i] # f[j]
      OBVIOUS
    <3>1. i < j \/ j < i
      BY <1>1
    <3>2. Rank(S, i) < Rank(S, j) \/ Rank(S, j) < Rank(S, i)
      BY <1>3, <3>1
    <3>3. Rank(S, i) \in Nat /\ Rank(S, j) \in Nat
      BY <2>0
    <3>4. f[i] = Rank(S, i) + 1 /\ f[j] = Rank(S, j) + 1
      OBVIOUS
    <3> HIDE DEF f
    <3> QED BY <3>2, <3>3, <3>4
  <2>3. f \in Injection(S, 1..n)
    BY <2>1, <2>2 DEF Injection, IsInjective
  <2>4. IsFiniteSet(1..n) /\ Cardinality(1..n) = n
    BY <1>1, FS_Interval
  <2> HIDE DEF f
  <2>5. f \in Surjection(S, 1..n)
    BY <2>3, <2>4, FS_Injection
  <2>6. PICK i \in S : f[i] = k
    BY <2>5 DEF Surjection
  <2>7. Rank(S, i) + 1 = k /\ Rank(S, i) \in Nat
    BY <2>0, <2>6 DEF f
  <2> QED BY <2>7
<1> QED BY <1>1, <1>2, <1>3, <1>4

\* Ascending(S) lists S from the least to the greatest member.
LEMMA AscendingLists ==
  ASSUME NEW S, S \subseteq Nat, IsFiniteSet(S)
  PROVE  /\ Ascending(S) \in Seq(S) /\ Len(Ascending(S)) = Cardinality(S)
         /\ DOMAIN Ascending(S) = 1..Cardinality(S) /\ Cardinality(S) \in Nat
         /\ \A i, j \in 1..Cardinality(S) : i < j => Ascending(S)[i] < Ascending(S)[j]
         /\ \A x \in S : \E i \in 1..Cardinality(S) : Ascending(S)[i] = x
<1> DEFINE n == Cardinality(S)
           f == Ascending(S)
<1>1. n \in Nat /\ \A x \in S : x \in Nat
  BY Ranks
<1>2. ASSUME NEW k \in 1..n PROVE f[k] \in S /\ Rank(S, f[k]) = k - 1
  <2>1. \E i \in S : Rank(S, i) = k - 1
    BY Ranks
  <2>2. f[k] = CHOOSE i \in S : Rank(S, i) = k - 1
    BY DEF Ascending
  <2> QED BY <2>1, <2>2
<1>3. f = [k \in 1..n |-> f[k]]
  BY DEF Ascending
<1> HIDE DEF f
<1>4. f \in [1..n -> S]
  BY <1>2, <1>3
<1>5. f \in Seq(S) /\ Len(f) = n /\ DOMAIN f = 1..n
  BY <1>1, <1>4
<1>6. ASSUME NEW i \in 1..n, NEW j \in 1..n, i < j PROVE f[i] < f[j]
  <2>1. f[i] \in Nat /\ f[j] \in Nat /\ Rank(S, f[i]) < Rank(S, f[j])
    <3>1. Rank(S, f[i]) = i - 1 /\ Rank(S, f[j]) = j - 1 /\ f[i] \in S /\ f[j] \in S
      BY <1>2
    <3>2. f[i] \in Nat /\ f[j] \in Nat
      BY <1>1, <3>1
    <3>3. i \in Int /\ j \in Int /\ i - 1 < j - 1
      BY <1>1, <1>6
    <3> QED BY <3>1, <3>2, <3>3
  <2>2. f[j] < f[i] => Rank(S, f[j]) < Rank(S, f[i])
    BY <1>2, Ranks
  <2>3. Rank(S, f[i]) \in Int /\ Rank(S, f[j]) \in Int
    BY <1>1, <1>2
  <2> QED BY <2>1, <2>2, <2>3
<1>7. ASSUME NEW x \in S PROVE \E i \in 1..n : f[i] = x
  <2> DEFINE k == Rank(S, x) + 1
  <2>1. k \in 1..n /\ Rank(S, x) = k - 1
    <3>1. Rank(S, x) \in 0..(n - 1)
      BY Ranks
    <3> HIDE DEF n
    <3> QED BY <1>1, <3>1
  <2> HIDE DEF k
  <2>2. f[k] \in S /\ Rank(S, f[k]) = Rank(S, x) /\ Rank(S, x) \in Int
    BY <1>1, <1>2, <2>1
  <2>3. ~(f[k] < x) /\ ~(x < f[k])
    <3>1. \A i, j \in S : i < j => Rank(S, i) < Rank(S, j)
      BY Ranks
    <3>2. ~(Rank(S, f[k]) < Rank(S, x)) /\ ~(Rank(S, x) < Rank(S, f[k]))
      BY <2>2
    <3> QED BY <2>2, <3>1, <3>2
  <2>4. f[k] = x
    <3>1. f[k] \in Nat /\ x \in Nat
      BY <1>1, <2>2
    <3> QED BY <2>3, <3>1
  <2> QED BY <2>1, <2>4
<1> QED BY <1>1, <1>5, <1>6, <1>7 DEF f

\* ... and is the only sequence that does.
LEMMA AscendingOnly ==
  ASSUME NEW S, S \subseteq Nat, NEW s \in Seq(S),
         \A i, j \in 1..Len(s) : i < j => s[i] < s[j],
         \A x \in S : \E i \in 1..Len(s) : s[i] = x
  PROVE  IsFiniteSet(S) /\ Cardinality(S) = Len(s) /\ s = Ascending(S)
<1> DEFINE m == Len(s)
<1>1. m \in Nat /\ s \in [1..m -> S] /\ \A i \in 1..m : s[i] \in S /\ s[i] \in Nat
  <2>1. m \in Nat /\ s \in [1..m -> S] /\ \A x \in S : x \in Nat
    OBVIOUS
  <2> QED BY <2>1
<1> HIDE DEF m
<1>2. \A i, j \in 1..m : s[i] = s[j] => i = j
  <2> SUFFICES ASSUME NEW i \in 1..m, NEW j \in 1..m, i # j PROVE s[i] # s[j]
    OBVIOUS
  <2>1. i < j \/ j < i
    BY <1>1
  <2> QED BY <1>1, <2>1 DEF m
<1>3. s \in Bijection(1..m, S)
  BY <1>1, <1>2 DEF Bijection, Injection, Surjection, IsInjective, m
<1>4. IsFiniteSet(1..m) /\ Cardinality(1..m) = m
  BY <1>1, FS_Interval
<1>5. IsFiniteSet(S) /\ Cardinality(S) = m
  BY <1>3, <1>4, FS_Bijection DEF ExistsBijection
<1>6. ASSUME NEW k \in 1..m PROVE Rank(S, s[k]) = k - 1
  <2> DEFINE B == {j \in S : j < s[k]}
             t == [i \in 1..(k - 1) |-> s[i]]
  <2>1. \A i \in 1..(k - 1) : i \in 1..m /\ s[i] \in B
    BY <1>1, <1>6 DEF m
  <2>2. ASSUME NEW x \in B PROVE \E i \in 1..(k - 1) : s[i] = x
    <3>1. PICK i \in 1..m : s[i] = x
      BY <2>2 DEF m
    <3>2. i < k
      <4>1. ~(i = k) /\ ~(k < i)
        BY <1>1, <3>1, <2>2, <1>6 DEF m
      <4> QED BY <1>1, <4>1
    <3> QED BY <1>1, <3>1, <3>2
  <2> HIDE DEF B
  <2>3. t \in [1..(k - 1) -> B] /\ \A i \in 1..(k - 1) : t[i] = s[i]
    BY <2>1
  <2> HIDE DEF t
  <2>4. t \in Bijection(1..(k - 1), B)
    BY <1>2, <2>1, <2>2, <2>3 DEF Bijection, Injection, Surjection, IsInjective
  <2>5. IsFiniteSet(1..(k - 1)) /\ Cardinality(1..(k - 1)) = k - 1
    BY <1>1, FS_Interval
  <2>6. Cardinality(B) = k - 1
    BY <2>4, <2>5, FS_Bijection DEF ExistsBijection
  <2> QED BY <2>6 DEF Rank, B
<1> DEFINE f == Ascending(S)
<1>7. f \in Seq(S) /\ Len(f) = m
  BY <1>5, AscendingLists
<1>8. ASSUME NEW k \in 1..m PROVE f[k] = s[k]
  <2>1. \E i \in S : Rank(S, i) = k - 1
    BY <1>1, <1>6
  <2>2. f[k] = CHOOSE i \in S : Rank(S, i) = k - 1
    BY <1>5 DEF Ascending
  <2>3. f[k] \in S /\ Rank(S, f[k]) = k - 1 /\ s[k] \in S /\ Rank(S, s[k]) = k - 1
    BY <2>1, <2>2, <1>1, <1>6
  <2> HIDE DEF f
  <2>4. f[k] \in Nat /\ s[k] \in Nat
    BY <1>1, <2>3
  <2>5. ~(f[k] < s[k]) /\ ~(s[k] < f[k])
    <3>1. \A i, j \in S : i < j => Rank(S, i) < Rank(S, j)
      BY <1>5, Ranks
    <3>2. ~(Rank(S, f[k]) < Rank(S, s[k])) /\ ~(Rank(S, s[k]) < Rank(S, f[k]))
      BY <1>1, <2>3
    <3> QED BY <2>3, <3>1, <3>2
  <2> QED BY <2>4, <2>5
<1>9. s = f
  <2> HIDE DEF f
  <2> QED BY <1>7, <1>8, SeqEqual DEF m
<1> QED BY <1>5, <1>9 DEF m
\* The numbers up to n are listed as they are.
LEMMA AscendingInterval ==
  ASSUME NEW n \in Nat
  PROVE  Len(Ascending(1..n)) = n /\ \A i \in 1..n : Ascending(1..n)[i] = i
<1> DEFINE S == 1..n
           s == [i \in 1..n |-> i]
<1>1. s \in Seq(S) /\ Len(s) = n /\ \A i \in 1..n : s[i] = i
  OBVIOUS
<1>2. S \subseteq Nat /\ \A x \in S : x \in 1..n
  OBVIOUS
<1> HIDE DEF s, S
<1>3. \A i, j \in 1..Len(s) : i < j => s[i] < s[j]
  BY <1>1
<1>4. \A x \in S : \E i \in 1..Len(s) : s[i] = x
  BY <1>1, <1>2
<1>5. s = Ascending(S)
  BY <1>1, <1>2, <1>3, <1>4, AscendingOnly
<1> QED BY <1>1, <1>5 DEF S

LEMMA Listed ==
  ASSUME NEW S, Numbers(S)
  PROVE  /\ Cardinality(S) \in Nat /\ \A x \in S : x \in Nat
         /\ Ascending(S) \in Seq(S) /\ Len(Ascending(S)) = Cardinality(S)
         /\ DOMAIN Ascending(S) = 1..Cardinality(S)
         /\ \A k \in 1..Cardinality(S) : Ascending(S)[k] \in S
         /\ \A i, j \in 1..Cardinality(S) : i < j => Ascending(S)[i] < Ascending(S)[j]
         /\ \A x \in S : \E k \in 1..Cardinality(S) : Ascending(S)[k] = x
<1>1. S \subseteq Nat /\ IsFiniteSet(S)
  BY DEF Numbers
<1>2. /\ Ascending(S) \in Seq(S) /\ Len(Ascending(S)) = Cardinality(S)
      /\ DOMAIN Ascending(S) = 1..Cardinality(S) /\ Cardinality(S) \in Nat
      /\ \A i, j \in 1..Cardinality(S) : i < j => Ascending(S)[i] < Ascending(S)[j]
      /\ \A x \in S : \E i \in 1..Cardinality(S) : Ascending(S)[i] = x
  BY <1>1, AscendingLists
<1>3. \A k \in 1..Cardinality(S) : Ascending(S)[k] \in S
  BY <1>2, ElementOfSeq
<1> QED BY <1>1, <1>2, <1>3

\* Sets of positions are finite.
LEMMA Positions ==
  ASSUME NEW n \in Nat, NEW S, S \subseteq 1..n
  PROVE  Numbers(S)
<1>1. IsFiniteSet(1..n)
  BY FS_Interval
<1>2. S \in SUBSET (1..n) /\ S \subseteq Nat
  OBVIOUS
<1> QED BY <1>1, <1>2, FS_Subset DEF Numbers

LEMMA InsideNumbers ==
  ASSUME NEW T, NEW s \in Seq(T), NEW S, Inside(S, s)
  PROVE  Numbers(S)
<1>1. Len(s) \in Nat /\ S \subseteq 1..Len(s)
  BY DEF Inside
<1> QED BY <1>1, Positions

\* The members of S with nothing of S between them are neighbours in the list.
LEMMA Neighbours ==
  ASSUME NEW S, Numbers(S)
  PROVE  /\ \A k \in 1..(Cardinality(S) - 1) :
               /\ Ascending(S)[k] < Ascending(S)[k + 1]
               /\ \A x \in S : ~(Ascending(S)[k] < x /\ x < Ascending(S)[k + 1])
         /\ \A p, q \in S : p < q /\ (\A x \in S : ~(p < x /\ x < q)) =>
               \E k \in 1..(Cardinality(S) - 1) : Ascending(S)[k] = p /\ Ascending(S)[k + 1] = q
<1> DEFINE c == Cardinality(S)
           f == Ascending(S)
<1>1. /\ c \in Nat /\ \A x \in S : x \in Nat
      /\ \A k \in 1..c : f[k] \in S
      /\ \A i, j \in 1..c : i < j => f[i] < f[j]
      /\ \A x \in S : \E k \in 1..c : f[k] = x
  BY Listed
<1> HIDE DEF c, f
<1>2. ASSUME NEW i \in 1..c, NEW j \in 1..c, f[i] < f[j]
      PROVE  i < j
  <2>1. f[i] \in Nat /\ f[j] \in Nat /\ f[i] < f[j]
    BY <1>1, <1>2
  <2>2. ~(j < i) /\ i # j
    BY <1>1, <2>1
  <2> QED BY <1>1, <2>2
<1>3. ASSUME NEW k \in 1..(c - 1)
      PROVE  f[k] < f[k + 1] /\ \A x \in S : ~(f[k] < x /\ x < f[k + 1])
  <2>1. k \in 1..c /\ k + 1 \in 1..c /\ k < k + 1
    BY <1>1
  <2>2. ASSUME NEW x \in S, f[k] < x, x < f[k + 1]
        PROVE  FALSE
    <3>1. PICK i \in 1..c : f[i] = x
      BY <1>1
    <3>2. k < i /\ i < k + 1
      BY <1>2, <2>1, <2>2, <3>1
    <3> QED BY <1>1, <2>1, <3>2
  <2> QED BY <1>1, <2>1, <2>2
<1>4. ASSUME NEW p \in S, NEW q \in S, p < q, \A x \in S : ~(p < x /\ x < q)
      PROVE  \E k \in 1..(c - 1) : f[k] = p /\ f[k + 1] = q
  <2>1. PICK i \in 1..c : f[i] = p
    BY <1>1
  <2>2. PICK j \in 1..c : f[j] = q
    BY <1>1
  <2>3. i < j
    BY <1>2, <1>4, <2>1, <2>2
  <2>4. i + 1 = j
    <3> SUFFICES ASSUME i + 1 # j PROVE FALSE
      OBVIOUS
    <3>1. i + 1 \in 1..c /\ i < i + 1 /\ i + 1 < j
      BY <1>1, <2>3
    <3>2. f[i + 1] \in S /\ p < f[i + 1] /\ f[i + 1] < q
      BY <1>1, <2>1, <2>2, <3>1
    <3> QED BY <1>4, <3>2
  <2>5. i \in 1..(c - 1)
    BY <1>1, <2>4
  <2> QED BY <2>1, <2>2, <2>4, <2>5
<1> QED BY <1>3, <1>4 DEF c, f

-----------------------------------------------------------------------------
\* What is at the positions S, one by one.
LEMMA OnlyAt ==
  ASSUME NEW T, NEW s \in Seq(T), NEW S, Inside(S, s)
  PROVE  /\ Cardinality(S) \in Nat
         /\ Only(s, S) \in Seq(T) /\ Len(Only(s, S)) = Cardinality(S)
         /\ DOMAIN Only(s, S) = 1..Cardinality(S)
         /\ \A k \in 1..Cardinality(S) : Only(s, S)[k] = s[Ascending(S)[k]]
<1> DEFINE c == Cardinality(S)
           f == Ascending(S)
           o == Only(s, S)
<1>1. Len(s) \in Nat /\ \A i \in 1..Len(s) : s[i] \in T
  BY ElementOfSeq
<1>2. S \subseteq 1..Len(s)
  BY DEF Inside
<1>3. c \in Nat /\ \A k \in 1..c : f[k] \in S
  BY <1>1, <1>2, InsideNumbers, Listed
<1>4. o = [k \in 1..c |-> s[f[k]]]
  BY DEF Only
<1> HIDE DEF c, f, o
<1>5. \A k \in 1..c : s[f[k]] \in T
  BY <1>1, <1>2, <1>3
<1>6. o \in [1..c -> T] /\ \A k \in 1..c : o[k] = s[f[k]]
  BY <1>4, <1>5
<1>7. o \in Seq(T) /\ Len(o) = c /\ DOMAIN o = 1..c
  BY <1>3, <1>6
<1> QED BY <1>3, <1>6, <1>7 DEF c, f, o

\* A sequence f that lists S says what is at the positions S.
LEMMA OnlyBy ==
  ASSUME NEW s, NEW S, NEW f, Lists(f, S)
  PROVE  Cardinality(S) = Len(f) /\ Only(s, S) = [k \in 1..Len(f) |-> s[f[k]]]
<1>1. Cardinality(S) = Len(f) /\ f = Ascending(S)
  BY AscendingOnly DEF Lists
<1> QED BY <1>1 DEF Only

LEMMA OnlyNothing == \A s : Only(s, {}) = <<>>
<1>1. Cardinality({}) = 0
  BY FS_EmptySet
<1> QED BY <1>1 DEF Only

\* Everything is at the positions of the whole sequence.
LEMMA OnlyAll ==
  ASSUME NEW T, NEW s \in Seq(T)
  PROVE  Only(s, 1..Len(s)) = s
<1> DEFINE n == Len(s)
           o == Only(s, 1..n)
<1>1. n \in Nat /\ Inside(1..n, s) /\ Cardinality(1..n) = n
  <2>1. n \in Nat /\ Inside(1..n, s)
    BY DEF Inside
  <2> HIDE DEF n
  <2> QED BY <2>1, FS_Interval
<1>2. \A i \in 1..n : Ascending(1..n)[i] = i
  BY <1>1, AscendingInterval
<1>3. o \in Seq(T) /\ Len(o) = n /\ \A k \in 1..n : o[k] = s[Ascending(1..n)[k]]
  BY <1>1, OnlyAt
<1> HIDE DEF o
<1>4. \A k \in 1..n : o[k] = s[k]
  BY <1>2, <1>3
<1>5. o = s
  BY <1>3, <1>4, SeqEqual
<1> QED BY <1>5 DEF o

\* Only what is at the positions matters.
LEMMA OnlySame ==
  ASSUME NEW S, Numbers(S), NEW s, NEW t, \A i \in S : s[i] = t[i]
  PROVE  Only(s, S) = Only(t, S)
<1>1. \A k \in 1..Cardinality(S) : Ascending(S)[k] \in S
  BY Listed
<1> QED BY <1>1 DEF Only

\* What is at the positions up to some point, and behind it.
LEMMA OnlyConcat ==
  ASSUME NEW T, NEW s \in Seq(T), NEW L, Inside(L, s), NEW R, Inside(R, s), Before(L, R)
  PROVE  /\ Only(s, L \cup R) = Only(s, L) \o Only(s, R)
         /\ Cardinality(L \cup R) = Cardinality(L) + Cardinality(R)
<1> DEFINE n == Len(s)
           a == Cardinality(L)
           b == Cardinality(R)
           f == Ascending(L)
           g == Ascending(R)
           h == f \o g
           S == L \cup R
           u == Only(s, L)
           v == Only(s, R)
           w == Only(s, S)
           o == u \o v
<1>1. n \in Nat /\ L \subseteq 1..n /\ R \subseteq 1..n /\ S \subseteq Nat /\ Inside(S, s)
  BY DEF Inside
<1>2. /\ f \in Seq(L) /\ Len(f) = a
      /\ \A k \in 1..a : f[k] \in L
      /\ \A i, j \in 1..a : i < j => f[i] < f[j]
      /\ \A x \in L : \E k \in 1..a : f[k] = x
  BY <1>1, InsideNumbers, Listed
<1>3. /\ g \in Seq(R) /\ Len(g) = b
      /\ \A k \in 1..b : g[k] \in R
      /\ \A i, j \in 1..b : i < j => g[i] < g[j]
      /\ \A x \in R : \E k \in 1..b : g[k] = x
  BY <1>1, InsideNumbers, Listed
<1> HIDE DEF n, S
<1>4. a \in Nat /\ u \in Seq(T) /\ Len(u) = a /\ \A k \in 1..a : u[k] = s[f[k]]
  BY OnlyAt
<1>5. b \in Nat /\ v \in Seq(T) /\ Len(v) = b /\ \A k \in 1..b : v[k] = s[g[k]]
  BY OnlyAt
<1>6. w \in Seq(T)
  BY <1>1, OnlyAt
<1> HIDE DEF a, b, f, g, u, v, w
<1>7. f \in Seq(S) /\ g \in Seq(S)
  BY <1>2, <1>3, SeqMonotonic DEF S
<1>8. /\ h \in Seq(S) /\ Len(h) = a + b
      /\ \A i \in 1..(a + b) : h[i] = IF i <= a THEN f[i] ELSE g[i - a]
  <2>1. /\ h \in Seq(S) /\ Len(h) = Len(f) + Len(g)
        /\ \A i \in 1..Len(f) + Len(g) : h[i] = IF i <= Len(f) THEN f[i] ELSE g[i - Len(f)]
    BY <1>7, ConcatProperties
  <2> QED BY <1>2, <1>3, <2>1
<1>9. /\ o \in Seq(T) /\ Len(o) = a + b
      /\ \A i \in 1..(a + b) : o[i] = IF i <= a THEN u[i] ELSE v[i - a]
  <2>1. /\ o \in Seq(T) /\ Len(o) = Len(u) + Len(v)
        /\ \A i \in 1..Len(u) + Len(v) : o[i] = IF i <= Len(u) THEN u[i] ELSE v[i - Len(u)]
    BY <1>4, <1>5, ConcatProperties
  <2> QED BY <1>4, <1>5, <2>1
<1> HIDE DEF h, o
<1>10. ASSUME NEW i \in 1..(a + b), NEW j \in 1..(a + b), i < j
       PROVE  h[i] < h[j]
  <2>1. i \in Nat /\ j \in Nat
    BY <1>4, <1>5
  <2>2. CASE j <= a
    <3>1. i \in 1..a /\ j \in 1..a /\ h[i] = f[i] /\ h[j] = f[j]
      BY <1>4, <1>5, <1>8, <1>10, <2>1, <2>2
    <3> QED BY <1>2, <1>10, <3>1
  <2>3. CASE i <= a /\ ~(j <= a)
    <3>1. i \in 1..a /\ j - a \in 1..b /\ h[i] = f[i] /\ h[j] = g[j - a]
      BY <1>4, <1>5, <1>8, <1>10, <2>1, <2>3
    <3>2. h[i] \in L /\ h[j] \in R
      BY <1>2, <1>3, <3>1
    <3> QED BY <3>2 DEF Before
  <2>4. CASE ~(i <= a)
    <3>1. i - a \in 1..b /\ j - a \in 1..b /\ i - a < j - a /\ h[i] = g[i - a] /\ h[j] = g[j - a]
      BY <1>4, <1>5, <1>8, <1>10, <2>1, <2>4
    <3> QED BY <1>3, <3>1
  <2> QED BY <2>2, <2>3, <2>4
<1>11. ASSUME NEW x \in S PROVE \E i \in 1..(a + b) : h[i] = x
  <2>1. CASE x \in L
    <3>1. PICK k \in 1..a : f[k] = x
      BY <1>2, <2>1
    <3>2. k \in 1..(a + b) /\ h[k] = x
      BY <1>4, <1>5, <1>8, <3>1
    <3> QED BY <3>2
  <2>2. CASE x \in R
    <3>1. PICK k \in 1..b : g[k] = x
      BY <1>3, <2>2
    <3>2. k + a \in 1..(a + b) /\ ~(k + a <= a) /\ (k + a) - a = k
      BY <1>4, <1>5
    <3>3. h[k + a] = x
      BY <1>8, <3>1, <3>2
    <3> QED BY <3>2, <3>3
  <2> QED BY <2>1, <2>2 DEF S
<1>12. Lists(h, S)
  <2>1. \A i, j \in 1..Len(h) : i < j => h[i] < h[j]
    BY <1>8, <1>10
  <2>2. \A x \in S : \E i \in 1..Len(h) : h[i] = x
    BY <1>8, <1>11
  <2> QED BY <1>1, <1>8, <2>1, <2>2 DEF Lists
<1>13. Cardinality(S) = Len(h) /\ w = [k \in 1..Len(h) |-> s[h[k]]]
  BY <1>12, OnlyBy DEF w
<1>14. ASSUME NEW i \in 1..(a + b) PROVE o[i] = s[h[i]]
  <2>1. CASE i <= a
    <3>1. i \in 1..a
      BY <1>4, <1>5, <2>1
    <3> QED BY <1>4, <1>8, <1>9, <2>1, <3>1
  <2>2. CASE ~(i <= a)
    <3>1. i - a \in 1..b
      BY <1>4, <1>5, <2>2
    <3> QED BY <1>5, <1>8, <1>9, <2>2, <3>1
  <2> QED BY <2>1, <2>2
<1>15. Len(w) = a + b /\ \A k \in 1..(a + b) : w[k] = s[h[k]]
  <2>1. a + b \in Nat
    BY <1>4, <1>5
  <2> QED BY <1>8, <1>13, <2>1
<1>16. w = o
  BY <1>6, <1>9, <1>14, <1>15, SeqEqual
<1> QED BY <1>8, <1>13, <1>16 DEF w, o, S, a, b, u, v

\* One more position behind the others.
LEMMA OnlyAppend ==
  ASSUME NEW T, NEW s \in Seq(T), NEW S, Inside(S, s), NEW p \in 1..Len(s), Before(S, {p})
  PROVE  Only(s, S \cup {p}) = Append(Only(s, S), s[p]) /\ Cardinality(S \cup {p}) = Cardinality(S) + 1
<1> DEFINE R == {p}
           g == <<p>>
<1>1. Inside(R, s)
  BY DEF Inside
<1>2. Lists(g, R)
  BY DEF Lists
<1>3. Len(g) = 1 /\ g[1] = p
  OBVIOUS
<1> HIDE DEF g
<1>4. Cardinality(R) = Len(g) /\ Only(s, R) = [k \in 1..Len(g) |-> s[g[k]]]
  <2> HIDE DEF R
  <2> QED BY <1>2, OnlyBy
<1>5. Cardinality(R) = 1 /\ Only(s, R) = <<s[p]>>
  BY <1>3, <1>4
<1>6. /\ Only(s, S \cup R) = Only(s, S) \o Only(s, R)
      /\ Cardinality(S \cup R) = Cardinality(S) + Cardinality(R)
  <2>1. ASSUME NEW Q, Inside(Q, s), Before(S, Q)
        PROVE  /\ Only(s, S \cup Q) = Only(s, S) \o Only(s, Q)
               /\ Cardinality(S \cup Q) = Cardinality(S) + Cardinality(Q)
    <3>1. Only(s, S \cup Q) = Only(s, S) \o Only(s, Q)
      BY <2>1, OnlyConcat
    <3>2. Cardinality(S \cup Q) = Cardinality(S) + Cardinality(Q)
      BY <2>1, OnlyConcat
    <3> QED BY <3>1, <3>2
  <2> QED BY <1>1, <2>1
<1>7. Only(s, S) \in Seq(T) /\ s[p] \in T
  BY OnlyAt, ElementOfSeq
<1>8. Append(Only(s, S), s[p]) = Only(s, S) \o <<s[p]>>
  BY <1>7, AppendIsConcat
<1> QED BY <1>5, <1>6, <1>8

\* What was picked can be picked from.
LEMMA OnlyOnly ==
  ASSUME NEW T, NEW s \in Seq(T), NEW S, Inside(S, s), NEW W, Inside(W, Only(s, S))
  PROVE  /\ Only(Only(s, S), W) = Only(s, Places(S, W))
         /\ Cardinality(W) = Cardinality(Places(S, W)) /\ Places(S, W) \subseteq S
<1> DEFINE I == Places(S, W)
           c == Cardinality(S)
           d == Cardinality(W)
           f == Ascending(S)
           g == Ascending(W)
           h == [k \in 1..d |-> f[g[k]]]
           o == Only(s, S)
<1>1. /\ c \in Nat
      /\ \A k \in 1..c : f[k] \in S /\ f[k] \in Nat
      /\ \A i, j \in 1..c : i < j => f[i] < f[j]
  BY InsideNumbers, Listed
<1>2. Len(o) = c /\ \A k \in 1..c : o[k] = s[f[k]]
  BY OnlyAt
<1>3. \A x \in I : \E k \in W : x = f[k]
  BY DEF Places
<1>4. \A k \in W : f[k] \in I
  BY DEF Places
<1>5. Only(o, W) = [k \in 1..d |-> o[g[k]]]
  BY DEF Only
<1>6. W \subseteq 1..c
  BY <1>2 DEF Inside
<1> HIDE DEF I, c, f, o
<1>7. /\ d \in Nat
      /\ \A k \in 1..d : g[k] \in W
      /\ \A i, j \in 1..d : i < j => g[i] < g[j]
      /\ \A x \in W : \E k \in 1..d : g[k] = x
  <2>1. Numbers(W)
    BY <1>1, <1>6, Positions
  <2> QED BY <2>1, Listed
<1> HIDE DEF d, g
<1>8. I \subseteq S /\ I \subseteq Nat
  BY <1>1, <1>3, <1>6
<1>9. h \in Seq(I) /\ Len(h) = d /\ \A k \in 1..d : h[k] = f[g[k]]
  <2>1. \A k \in 1..d : f[g[k]] \in I
    BY <1>4, <1>7
  <2> QED BY <1>7, <2>1
<1> HIDE DEF h
<1>10. \A i, j \in 1..d : i < j => h[i] < h[j]
  <2> SUFFICES ASSUME NEW i \in 1..d, NEW j \in 1..d, i < j PROVE h[i] < h[j]
    OBVIOUS
  <2>1. g[i] \in 1..c /\ g[j] \in 1..c /\ g[i] < g[j]
    BY <1>6, <1>7
  <2>2. f[g[i]] < f[g[j]]
    BY <1>1, <2>1
  <2> QED BY <1>9, <2>2
<1>11. \A x \in I : \E k \in 1..d : h[k] = x
  BY <1>3, <1>7, <1>9
<1>12. Lists(h, I)
  BY <1>8, <1>9, <1>10, <1>11 DEF Lists
<1>13. Cardinality(I) = Len(h) /\ Only(s, I) = [k \in 1..Len(h) |-> s[h[k]]]
  BY <1>12, OnlyBy
<1>14. \A k \in 1..d : o[g[k]] = s[h[k]]
  <2> SUFFICES ASSUME NEW k \in 1..d PROVE o[g[k]] = s[h[k]]
    OBVIOUS
  <2>1. g[k] \in 1..c
    BY <1>6, <1>7
  <2> QED BY <1>2, <1>9, <2>1
<1> QED BY <1>5, <1>8, <1>9, <1>13, <1>14 DEF I, d, f, o

\* Elements of some kind are picked from what was picked.
LEMMA OnlyFilter ==
  ASSUME NEW T, NEW s \in Seq(T), NEW S, Inside(S, s), NEW D
  PROVE  Only(Only(s, S), Where(Only(s, S), D)) = Only(s, S \cap Where(s, D))
<1> DEFINE o == Only(s, S)
           c == Cardinality(S)
           f == Ascending(S)
           W == Where(o, D)
<1>1. /\ \A k \in 1..c : f[k] \in S
      /\ \A x \in S : \E k \in 1..c : f[k] = x
  BY InsideNumbers, Listed
<1>2. DOMAIN o = 1..c /\ Len(o) = c /\ \A k \in 1..c : o[k] = s[f[k]]
  BY OnlyAt
<1>3. Inside(W, o)
  BY <1>2 DEF Inside, Where
<1>4. Only(o, W) = Only(s, Places(S, W))
  BY <1>3, OnlyOnly
<1>5. Places(S, W) = {i \in S : s[i] \in D}
  <2> HIDE DEF o, c
  <2> QED BY <1>1, <1>2 DEF Places, Where
<1>6. S \cap Where(s, D) = {i \in S : s[i] \in D}
  <2>1. DOMAIN s = 1..Len(s)
    OBVIOUS
  <2> QED BY <2>1 DEF Inside, Where
<1> QED BY <1>4, <1>5, <1>6

\* Positions in a part are positions in the whole.
LEMMA OnlyShift ==
  ASSUME NEW T, NEW s \in Seq(T), NEW a \in Nat, NEW b \in Nat, a <= b, b <= Len(s),
         NEW S, Inside(S, SubSeq(s, a + 1, b))
  PROVE  /\ Only(SubSeq(s, a + 1, b), S) = Only(s, Moved(S, a, b))
         /\ Cardinality(S) = Cardinality(Moved(S, a, b))
<1> DEFINE I == Moved(S, a, b)
           t == SubSeq(s, a + 1, b)
           d == Cardinality(S)
           g == Ascending(S)
           h == [k \in 1..d |-> a + g[k]]
<1>0. t \in Seq(T) /\ Len(t) = b - a /\ b - a \in Nat /\ S \subseteq 1..(b - a)
  <2>1. \A i \in (a + 1)..b : s[i] \in T
    BY ElementOfSeq
  <2>2. t \in Seq(T) /\ Len(t) = IF a + 1 <= b THEN b - (a + 1) + 1 ELSE 0
    BY <2>1, SubSeqProperties
  <2> HIDE DEF t
  <2>3. Len(t) = b - a
    BY <2>2
  <2> QED BY <2>2, <2>3 DEF Inside, t
<1>1. /\ d \in Nat
      /\ \A k \in 1..d : g[k] \in S
      /\ \A i, j \in 1..d : i < j => g[i] < g[j]
      /\ \A x \in S : \E k \in 1..d : g[k] = x
  <2>1. Numbers(S)
    BY <1>0, Positions
  <2> QED BY <2>1, Listed
<1>2. \A k \in 1..(b - a) : t[k] = s[a + k]
  <2>1. \A i \in (a + 1)..b : s[i] \in T
    BY ElementOfSeq
  <2>2. \A k \in 1..(b - (a + 1) + 1) : t[k] = s[(a + 1) + k - 1]
    BY <2>1, SubSeqProperties
  <2>3. b - (a + 1) + 1 = b - a /\ \A k \in 1..(b - a) : (a + 1) + k - 1 = a + k
    OBVIOUS
  <2> QED BY <2>2, <2>3
<1>3. I \subseteq Nat /\ \A x \in S : x \in Nat /\ a + x \in I
  BY <1>0 DEF Moved
<1>4. \A x \in I : x - a \in S /\ x = a + (x - a)
  BY DEF Moved
<1>5. Only(t, S) = [k \in 1..d |-> t[g[k]]]
  BY DEF Only
<1> HIDE DEF I, d, g, t
<1>6. \A k \in 1..d : a + g[k] \in I
  BY <1>1, <1>3
<1>7. h \in Seq(I) /\ Len(h) = d /\ \A k \in 1..d : h[k] = a + g[k]
  BY <1>1, <1>6
<1> HIDE DEF h
<1>8. \A i, j \in 1..d : i < j => h[i] < h[j]
  <2> SUFFICES ASSUME NEW i \in 1..d, NEW j \in 1..d, i < j PROVE h[i] < h[j]
    OBVIOUS
  <2>1. g[i] \in Nat /\ g[j] \in Nat /\ g[i] < g[j]
    BY <1>1, <1>3
  <2>2. h[i] = a + g[i] /\ h[j] = a + g[j]
    BY <1>7
  <2> QED BY <2>1, <2>2
<1>9. \A x \in I : \E k \in 1..d : h[k] = x
  <2> SUFFICES ASSUME NEW x \in I PROVE \E k \in 1..d : h[k] = x
    OBVIOUS
  <2>1. PICK k \in 1..d : g[k] = x - a
    BY <1>1, <1>4
  <2>2. h[k] = x
    BY <1>4, <1>7, <2>1
  <2> QED BY <2>2
<1>10. Lists(h, I)
  BY <1>3, <1>7, <1>8, <1>9 DEF Lists
<1>11. Cardinality(I) = Len(h) /\ Only(s, I) = [k \in 1..Len(h) |-> s[h[k]]]
  <2>1. \A r : Cardinality(I) = Len(h) /\ Only(r, I) = [k \in 1..Len(h) |-> r[h[k]]]
    BY <1>10, OnlyBy
  <2> QED BY <2>1
<1>12. \A k \in 1..d : t[g[k]] = s[h[k]]
  BY <1>0, <1>1, <1>2, <1>7
<1> QED BY <1>5, <1>7, <1>11, <1>12 DEF I, d, t

\* A stretch of a sequence is what is at its positions.
LEMMA OnlyStretch ==
  ASSUME NEW T, NEW s \in Seq(T), NEW a \in Nat, NEW b \in Nat, a <= b, b <= Len(s)
  PROVE  SubSeq(s, a + 1, b) = Only(s, (a + 1)..b)
<1> DEFINE t == SubSeq(s, a + 1, b)
           S == 1..(b - a)
           I == Moved(S, a, b)
<1>1. \A i \in (a + 1)..b : s[i] \in T
  BY ElementOfSeq
<1>2. t \in Seq(T) /\ Len(t) = b - a
  <2>1. t \in Seq(T) /\ Len(t) = IF a + 1 <= b THEN b - (a + 1) + 1 ELSE 0
    BY <1>1, SubSeqProperties
  <2> HIDE DEF t
  <2> QED BY <2>1
<1>3. I = (a + 1)..b
  BY DEF Moved
<1>4. Only(t, S) = Only(s, I)
  <2>1. Inside(S, t)
    BY <1>2 DEF Inside
  <2> HIDE DEF S
  <2> QED BY <2>1, OnlyShift
<1>5. Only(t, S) = t
  <2> HIDE DEF t
  <2> QED BY <1>2, OnlyAll
<1> QED BY <1>3, <1>4, <1>5

\* A stretch of what was picked.
LEMMA OnlyPart ==
  ASSUME NEW T, NEW s \in Seq(T), NEW S, Inside(S, s),
         NEW a \in Nat, NEW b \in Nat, a <= b, b <= Cardinality(S)
  PROVE  SubSeq(Only(s, S), a + 1, b) = Only(s, Places(S, (a + 1)..b))
<1> DEFINE o == Only(s, S)
           W == (a + 1)..b
<1>1. o \in Seq(T) /\ Len(o) = Cardinality(S)
  BY OnlyAt
<1> HIDE DEF o
<1>2. Inside(W, o)
  BY <1>1 DEF Inside
<1>3. SubSeq(o, a + 1, b) = Only(o, W)
  BY <1>1, OnlyStretch
<1>4. Only(o, W) = Only(s, Places(S, W))
  <2> HIDE DEF W
  <2> QED BY <1>2, OnlyOnly DEF o
<1> QED BY <1>3, <1>4 DEF o

\* The places before and behind one place hold the members before and behind one member.
LEMMA PlacesAround ==
  ASSUME NEW S, Numbers(S), NEW k \in 1..Cardinality(S)
  PROVE  LET p == Ascending(S)[k] IN
         /\ Places(S, 1..(k - 1)) = Under(S, p)
         /\ Places(S, 1..k) = UpTo(S, p)
         /\ Places(S, (k + 1)..Cardinality(S)) = Behind(S, p)
<1> DEFINE f == Ascending(S)
           c == Cardinality(S)
           p == f[k]
<1>1. /\ c \in Nat
      /\ \A i \in 1..c : f[i] \in S /\ f[i] \in Nat
      /\ \A i, j \in 1..c : i < j => f[i] < f[j]
      /\ \A x \in S : \E i \in 1..c : f[i] = x
  BY Listed
<1> HIDE DEF f, c
<1>2. \A i \in 1..c : (i < k <=> f[i] < p) /\ (i <= k <=> f[i] <= p) /\ (k < i <=> p < f[i])
  <2> SUFFICES ASSUME NEW i \in 1..c
               PROVE  (i < k <=> f[i] < p) /\ (i <= k <=> f[i] <= p) /\ (k < i <=> p < f[i])
    OBVIOUS
  <2>1. f[i] \in Nat /\ p \in Nat /\ i \in Nat /\ k \in Nat /\ k \in 1..c
    BY <1>1 DEF c
  <2>2. (i < k => f[i] < p) /\ (k < i => p < f[i]) /\ (i = k => f[i] = p)
    BY <1>1, <2>1
  <2> QED BY <2>1, <2>2
<1>3. ASSUME NEW W, W \subseteq 1..c
      PROVE  Places(S, W) = {x \in S : \E i \in W : f[i] = x}
  BY <1>1, <1>3 DEF Places, f
<1>4. 1..(k - 1) \subseteq 1..c /\ 1..k \subseteq 1..c /\ (k + 1)..c \subseteq 1..c /\ k \in 1..c
  BY <1>1 DEF c
<1>5. Places(S, 1..(k - 1)) = Under(S, p)
  <2>1. \A i \in 1..c : i \in 1..(k - 1) <=> i < k
    BY <1>1, <1>4
  <2>2. Places(S, 1..(k - 1)) = {x \in S : \E i \in 1..(k - 1) : f[i] = x}
    BY <1>3, <1>4
  <2>3. ASSUME NEW x \in S
        PROVE  (\E i \in 1..(k - 1) : f[i] = x) <=> x < p
    <3>1. PICK j \in 1..c : f[j] = x
      BY <1>1
    <3>2. (x < p <=> j < k) /\ (x <= p <=> j <= k) /\ (p < x <=> k < j)
      BY <1>2, <3>1
    <3>3. \A i \in 1..(k - 1) : i \in 1..c
      BY <1>4
    <3>4. \A i \in 1..(k - 1) : f[i] = x => x < p
      BY <1>2, <2>1, <3>3
    <3> QED BY <2>1, <3>1, <3>2, <3>4
  <2> QED BY <2>2, <2>3 DEF Under
<1>6. Places(S, 1..k) = UpTo(S, p)
  <2>1. \A i \in 1..c : i \in 1..k <=> i <= k
    BY <1>1, <1>4
  <2>2. Places(S, 1..k) = {x \in S : \E i \in 1..k : f[i] = x}
    BY <1>3, <1>4
  <2>3. ASSUME NEW x \in S
        PROVE  (\E i \in 1..k : f[i] = x) <=> x <= p
    <3>1. PICK j \in 1..c : f[j] = x
      BY <1>1
    <3>2. (x < p <=> j < k) /\ (x <= p <=> j <= k) /\ (p < x <=> k < j)
      BY <1>2, <3>1
    <3>3. \A i \in 1..k : i \in 1..c
      BY <1>4
    <3>4. \A i \in 1..k : f[i] = x => x <= p
      BY <1>2, <2>1, <3>3
    <3> QED BY <2>1, <3>1, <3>2, <3>4
  <2> QED BY <2>2, <2>3 DEF UpTo
<1>7. Places(S, (k + 1)..c) = Behind(S, p)
  <2>1. \A i \in 1..c : i \in (k + 1)..c <=> k < i
    BY <1>1, <1>4
  <2>2. Places(S, (k + 1)..c) = {x \in S : \E i \in (k + 1)..c : f[i] = x}
    BY <1>3, <1>4
  <2>3. ASSUME NEW x \in S
        PROVE  (\E i \in (k + 1)..c : f[i] = x) <=> p < x
    <3>1. PICK j \in 1..c : f[j] = x
      BY <1>1
    <3>2. (x < p <=> j < k) /\ (x <= p <=> j <= k) /\ (p < x <=> k < j)
      BY <1>2, <3>1
    <3>3. \A i \in (k + 1)..c : i \in 1..c
      BY <1>4
    <3>4. \A i \in (k + 1)..c : f[i] = x => p < x
      BY <1>2, <2>1, <3>3
    <3> QED BY <2>1, <3>1, <3>2, <3>4
  <2> QED BY <2>2, <2>3 DEF Behind
<1> QED BY <1>5, <1>6, <1>7 DEF f, c

\* A set of positions has a greatest and a least member.
LEMMA Extremes ==
  ASSUME NEW S, Numbers(S), S # {}
  PROVE  /\ \E x \in S : \A y \in S : x >= y
         /\ \E x \in S : \A y \in S : x <= y
<1> DEFINE f == Ascending(S)
           c == Cardinality(S)
<1>1. /\ c \in Nat
      /\ \A i \in 1..c : f[i] \in S /\ f[i] \in Nat
      /\ \A i, j \in 1..c : i < j => f[i] < f[j]
      /\ \A x \in S : \E i \in 1..c : f[i] = x
  BY Listed
<1> HIDE DEF f, c
<1>2. 1 \in 1..c /\ c \in 1..c
  <2>1. PICK y \in S : TRUE
    OBVIOUS
  <2>2. PICK i \in 1..c : f[i] = y
    BY <1>1
  <2> QED BY <1>1, <2>2
<1>3. ASSUME NEW y \in S PROVE f[c] >= y /\ f[1] <= y
  <2>1. PICK i \in 1..c : f[i] = y
    BY <1>1
  <2>2. (i = c \/ i < c) /\ (i = 1 \/ 1 < i)
    BY <1>1
  <2>3. (i < c => f[i] < f[c]) /\ (1 < i => f[1] < f[i])
    BY <1>1, <1>2
  <2>4. f[i] \in Nat /\ f[c] \in Nat /\ f[1] \in Nat
    BY <1>1, <1>2
  <2> QED BY <2>1, <2>2, <2>3, <2>4
<1> QED BY <1>1, <1>2, <1>3
===============================================================================
