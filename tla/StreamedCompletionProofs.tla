------------------------ MODULE StreamedCompletionProofs ------------------------
(***************************************************************************)
(* For bodies of any length and any cuts: no event is early, none is late, *)
(* and the "done" chunk has the message that a call without a stream would *)
(* return.  ParserSound says which positions of the body the parser has    *)
(* kept and up to which of them it has handed the events on; Assembling    *)
(* says that the adapter has, at any time, the message of the events that  *)
(* it has read.                                                            *)
(***************************************************************************)
EXTENDS StreamedCompletion, SubsequencesProofs

USE MeaningAssumption

-----------------------------------------------------------------------------
\* The positions from a + 1 to b that stay when the part up to b is normalised.
KeptIn(a, b) == {i \in (a + 1)..b : ~(body[i] = "CR" /\ i < b /\ body[i + 1] = "LF")}

\* The data lines of the body up to p.
DataUpTo(p) == {i \in 1..p : body[i] \in DOMAIN Meaning}

\* A blank line at q ends an event: nothing of S is between it and the line end before.
Blank(S, p, q) ==
    /\ p \in S /\ q \in S /\ p < q
    /\ body[p] = "LF" /\ body[q] = "LF"
    /\ \A x \in S : ~(p < x /\ x < q)

\* The parser has kept the positions K, and handed on the events up to the blank line at c.
ParsedTo(K, b, c) ==
    /\ K \subseteq 1..received /\ KeptIn(0, received) \subseteq K
    /\ (b = 0 /\ c = 0) \/ Blank(K, b, c)
    /\ out = Only(body, DataUpTo(c)) /\ buffer = Only(body, Behind(K, c))

ParserTypeOK ==
    /\ body \in Bodies
    /\ received \in 0..Len(body)
    /\ parsing \in {"read", "drain", "closed"}

ParserSound ==
    /\ ParserTypeOK
    /\ \E K \in SUBSET Nat, b, c \in Nat : ParsedTo(K, b, c)
    /\ parsing # "drain" => Parser!Boundaries(buffer) = {}
    /\ parsing = "closed" => received = Len(body)

-----------------------------------------------------------------------------
\* The operators of Subsequences are the same in every module.
LEMMA SameOnly == \A s, S : Parser!Only(s, S) = Only(s, S) /\ Adapter!Only(s, S) = Only(s, S)
<1>1. \A s, S : Parser!Only(s, S) = Only(s, S)
  BY DEF Parser!Only, Only, Parser!Ascending, Ascending, Parser!Rank, Rank,
     Parser!Cardinality, Cardinality, Parser!IsFiniteSet, IsFiniteSet
<1>2. \A s, S : Adapter!Only(s, S) = Only(s, S)
  BY DEF Adapter!Only, Only, Adapter!Ascending, Ascending, Adapter!Rank, Rank,
     Adapter!Cardinality, Cardinality, Adapter!IsFiniteSet, IsFiniteSet
<1> QED BY <1>1, <1>2

\* The body is a sequence of its lines.
Lines == {body[i] : i \in 1..Len(body)}

LEMMA BodyLines ==
  ASSUME body \in Bodies
  PROVE  body \in Seq(Lines) /\ Len(body) \in Nat /\ DOMAIN body = 1..Len(body)
<1>1. Len(body) \in Nat /\ body = [i \in 1..Len(body) |-> body[i]]
  BY BodiesAssumption
<1>2. body \in [1..Len(body) -> Lines]
  BY <1>1 DEF Lines
<1> QED BY <1>1, <1>2

\* What stays of a part of the body.
LEMMA Normalised ==
  ASSUME body \in Bodies, NEW a \in Nat, NEW b \in Nat, a <= b, b <= Len(body)
  PROVE  Parser!Normalise(SubSeq(body, a + 1, b)) = Only(body, KeptIn(a, b))
<1> DEFINE t == SubSeq(body, a + 1, b)
           K == Parser!Kept(t)
<1>1. body \in Seq(Lines) /\ Len(body) \in Nat
  BY BodyLines
<1>2. /\ t \in Seq(Lines) /\ Len(t) = b - a
      /\ \A k \in 1..(b - a) : t[k] = body[a + k]
  <2>1. \A i \in (a + 1)..b : body[i] \in Lines
    BY <1>1, ElementOfSeq
  <2>2. /\ t \in Seq(Lines) /\ Len(t) = IF a + 1 <= b THEN b - (a + 1) + 1 ELSE 0
        /\ \A k \in 1..(b - (a + 1) + 1) : t[k] = body[(a + 1) + k - 1]
    BY <2>1, SubSeqProperties
  <2> HIDE DEF t
  <2>3. b - (a + 1) + 1 = b - a /\ \A k \in 1..(b - a) : (a + 1) + k - 1 = a + k
    OBVIOUS
  <2>4. Len(t) = b - a
    BY <2>2
  <2> QED BY <2>2, <2>3, <2>4
<1> HIDE DEF t
<1>3. DOMAIN t = 1..(b - a)
  BY <1>2
<1>4. Inside(K, t)
  BY <1>2, <1>3 DEF Parser!Kept, Inside
<1>5. Moved(K, a, b) = KeptIn(a, b)
  <2>1. ASSUME NEW i \in (a + 1)..b
        PROVE  i - a \in K <=> i \in KeptIn(a, b)
    <3>1. i - a \in 1..(b - a) /\ t[i - a] = body[i]
      BY <1>2
    <3>2. (i - a < b - a <=> i < b) /\ (i < b => t[(i - a) + 1] = body[i + 1])
      BY <1>2
    <3> QED BY <1>2, <1>3, <3>1, <3>2 DEF Parser!Kept, KeptIn
  <2> QED BY <2>1 DEF Moved, KeptIn
<1>6. Only(t, K) = Only(body, Moved(K, a, b))
  <2> HIDE DEF K
  <2> QED BY <1>1, <1>4, OnlyShift DEF t
<1> QED BY <1>5, <1>6, SameOnly DEF Parser!Normalise, t

\* The data lines of what was kept.
LEMMA KeptData ==
  ASSUME body \in Bodies, NEW S, S \subseteq 1..Len(body)
  PROVE  Parser!DataLines(Only(body, S)) = Only(body, {i \in S : body[i] \in DOMAIN Meaning})
<1> DEFINE o == Only(body, S)
           D == DOMAIN Meaning
<1>1. body \in Seq(Lines) /\ Inside(S, body) /\ DOMAIN body = 1..Len(body)
  BY BodyLines DEF Inside
<1>2. Parser!DataLines(o) = Only(o, Where(o, D))
  BY SameOnly DEF Parser!DataLines, Where
<1>3. Only(o, Where(o, D)) = Only(body, S \cap Where(body, D))
  <2> HIDE DEF D
  <2> QED BY <1>1, OnlyFilter
<1>4. S \cap Where(body, D) = {i \in S : body[i] \in D}
  BY <1>1 DEF Where
<1> QED BY <1>2, <1>3, <1>4

\* Where events end in what was kept.
LEMMA KeptBoundaries ==
  ASSUME body \in Bodies, NEW S, S \subseteq 1..Len(body)
  PROVE  /\ Parser!Boundaries(Only(body, S)) \subseteq 1..(Cardinality(S) - 1)
         /\ \A k \in Parser!Boundaries(Only(body, S)) :
               Blank(S, Ascending(S)[k], Ascending(S)[k + 1])
         /\ \A p, q : Blank(S, p, q) =>
               \E k \in Parser!Boundaries(Only(body, S)) :
                   Ascending(S)[k] = p /\ Ascending(S)[k + 1] = q
<1> DEFINE o == Only(body, S)
           f == Ascending(S)
           c == Cardinality(S)
           B == Parser!Boundaries(o)
<1>1. body \in Seq(Lines) /\ Len(body) \in Nat /\ Inside(S, body)
  BY BodyLines DEF Inside
<1>2. c \in Nat /\ Len(o) = c /\ \A k \in 1..c : o[k] = body[f[k]]
  BY <1>1, OnlyAt
<1>3. \A k \in 1..c : f[k] \in S
  BY <1>1, InsideNumbers, Listed
<1>4. /\ \A k \in 1..(c - 1) : f[k] < f[k + 1] /\ \A x \in S : ~(f[k] < x /\ x < f[k + 1])
      /\ \A p, q \in S : p < q /\ (\A x \in S : ~(p < x /\ x < q)) =>
            \E k \in 1..(c - 1) : f[k] = p /\ f[k + 1] = q
  <2>1. Numbers(S)
    BY <1>1, InsideNumbers
  <2> QED BY <2>1, Neighbours
<1>5. B = {k \in 1..(c - 1) : o[k] = "LF" /\ o[k + 1] = "LF"}
  <2> HIDE DEF o, c
  <2> QED BY <1>2 DEF Parser!Boundaries
<1> HIDE DEF o, f, c, B
<1>6. ASSUME NEW k \in B PROVE Blank(S, f[k], f[k + 1])
  <2>1. k \in 1..(c - 1) /\ k \in 1..c /\ k + 1 \in 1..c /\ o[k] = "LF" /\ o[k + 1] = "LF"
    BY <1>2, <1>5
  <2> QED BY <1>2, <1>3, <1>4, <2>1 DEF Blank
<1>7. ASSUME NEW p, NEW q, Blank(S, p, q)
      PROVE  \E k \in B : f[k] = p /\ f[k + 1] = q
  <2>1. PICK k \in 1..(c - 1) : f[k] = p /\ f[k + 1] = q
    BY <1>4, <1>7 DEF Blank
  <2>2. k \in 1..c /\ k + 1 \in 1..c
    BY <1>2
  <2>3. o[k] = "LF" /\ o[k + 1] = "LF"
    BY <1>2, <1>7, <2>1, <2>2 DEF Blank
  <2> QED BY <1>5, <2>1, <2>3
<1>8. B \subseteq 1..(c - 1)
  BY <1>5
<1> QED BY <1>6, <1>7, <1>8 DEF B, o, f, c

\* Of the first m lines of the body, the last event ends at p.
LastEvent(m, p) ==
    /\ Parser!Payloads(SubSeq(body, 1, m)) = Only(body, DataUpTo(p))
    /\ p = 0 \/ \E q : Blank(KeptIn(0, m), p, q)
    /\ \A x, y : Blank(KeptIn(0, m), x, y) => x <= p

LEMMA PayloadsOf ==
  ASSUME body \in Bodies, NEW m \in Nat, m <= Len(body)
  PROVE  \E p \in 0..m : LastEvent(m, p)
<1> DEFINE S == KeptIn(0, m)
           o == Only(body, S)
           f == Ascending(S)
           c == Cardinality(S)
           B == Parser!Boundaries(o)
           P == Parser!Payloads(SubSeq(body, 1, m))
<1>1. body \in Seq(Lines) /\ Len(body) \in Nat /\ S \subseteq 1..m /\ Inside(S, body)
  BY BodyLines DEF Inside, KeptIn
<1>2. Parser!Normalise(SubSeq(body, 1, m)) = o
  BY <1>1, Normalised
<1>3. P = IF B = {} THEN <<>> ELSE Parser!DataLines(SubSeq(o, 1, Parser!Max(B)))
  BY <1>2 DEF Parser!Payloads
<1>4. Numbers(S) /\ S \subseteq 1..Len(body) /\ S \subseteq Nat
  BY <1>1, InsideNumbers
<1>5. /\ c \in Nat /\ \A k \in 1..c : f[k] \in S /\ f[k] \in Nat
      /\ \A i, j \in 1..c : i < j => f[i] < f[j]
  BY <1>4, Listed
<1>6. /\ B \subseteq 1..(c - 1)
      /\ \A k \in B : Blank(S, f[k], f[k + 1])
      /\ \A x, y : Blank(S, x, y) => \E k \in B : f[k] = x /\ f[k + 1] = y
  BY <1>4, KeptBoundaries
<1>7. CASE B = {}
  <2>1. DataUpTo(0) = {} /\ P = <<>>
    BY <1>3, <1>7 DEF DataUpTo
  <2>2. P = Only(body, DataUpTo(0))
    BY <2>1, OnlyNothing
  <2>3. \A x, y : Blank(S, x, y) => x <= 0
    BY <1>6, <1>7
  <2>4. LastEvent(m, 0)
    BY <2>2, <2>3 DEF LastEvent
  <2> QED BY <2>4
<1>8. CASE B # {}
  <2> DEFINE e == Parser!Max(B)
             p == f[e]
  <2>1. e \in B /\ \A k \in B : k <= e
    <3> HIDE DEF B
    <3>1. Numbers(B)
      <4>1. B \subseteq 1..c
        BY <1>5, <1>6
      <4> HIDE DEF c
      <4> QED BY <1>5, <4>1, Positions
    <3>2. \E x \in B : \A y \in B : x >= y
      BY <1>8, <3>1, Extremes
    <3>3. \A k \in B : k \in Nat
      BY <1>6
    <3> QED BY <3>2, <3>3 DEF Parser!Max
  <2> HIDE DEF e, B, f, c
  <2>2. e \in 1..c /\ e \in Nat /\ p \in S /\ p \in Nat
    BY <1>5, <1>6, <2>1
  <2>3. SubSeq(o, 1, e) = Only(body, UpTo(S, p))
    <3>1. SubSeq(o, 1, e) = Only(body, Places(S, 1..e))
      <4> HIDE DEF S
      <4>1. SubSeq(o, 0 + 1, e) = Only(body, Places(S, (0 + 1)..e))
        BY <1>1, <1>5, <2>2, OnlyPart DEF c
      <4> QED BY <4>1
    <3>2. Places(S, 1..e) = UpTo(S, p)
      <4> HIDE DEF S
      <4> QED BY <1>4, <2>2, PlacesAround DEF c, f
    <3> QED BY <3>1, <3>2
  <2>4. Parser!DataLines(Only(body, UpTo(S, p))) = Only(body, {i \in UpTo(S, p) : body[i] \in DOMAIN Meaning})
    <3> HIDE DEF S
    <3>1. UpTo(S, p) \subseteq 1..Len(body)
      BY <1>4 DEF UpTo
    <3> QED BY <3>1, KeptData
  <2>5. {i \in UpTo(S, p) : body[i] \in DOMAIN Meaning} = DataUpTo(p)
    <3> HIDE DEF p
    <3> QED BY <1>1, <2>2 DEF UpTo, DataUpTo, KeptIn
  <2>6. P = Only(body, DataUpTo(p))
    BY <1>3, <1>8, <2>3, <2>4, <2>5 DEF e
  <2>7. \E q : Blank(S, p, q)
    BY <1>6, <2>1
  <2>8. ASSUME NEW x, NEW y, Blank(S, x, y) PROVE x <= p
    <3>1. PICK k \in B : f[k] = x
      BY <1>6, <2>8
    <3>2. k \in 1..c /\ k \in Nat /\ (k = e \/ k < e)
      BY <1>5, <1>6, <2>1, <2>2
    <3>3. k < e => f[k] < f[e]
      BY <1>5, <2>2, <3>2
    <3>4. f[k] \in Nat
      BY <1>5, <3>2
    <3> QED BY <2>2, <3>1, <3>2, <3>3, <3>4
  <2>9. LastEvent(m, p)
    BY <2>6, <2>7, <2>8 DEF LastEvent
  <2>10. p \in 0..m
    BY <1>1, <2>2
  <2> QED BY <2>9, <2>10
<1> QED BY <1>7, <1>8

\* A data line is kept, and so is an "LF".
LEMMA KeptLines ==
  ASSUME NEW a \in Nat, NEW b \in Nat, NEW i \in (a + 1)..b,
         body[i] = "LF" \/ body[i] \in DOMAIN Meaning
  PROVE  i \in KeptIn(a, b)
  BY DEF KeptIn

\* A sequence is the beginning of one that goes on.
LEMMA ConcatPrefix ==
  ASSUME NEW T, NEW s \in Seq(T), NEW t \in Seq(T)
  PROVE  IsPrefix(s, s \o t)
<1> DEFINE n == Len(s)
           u == s \o t
           v == SubSeq(u, 1, n)
<1>1. n \in Nat /\ Len(t) \in Nat /\ u \in Seq(T) /\ Len(u) = n + Len(t)
  BY ConcatProperties
<1>2. \A k \in 1..n : u[k] = s[k] /\ s[k] \in T
  BY ElementOfSeq
<1> HIDE DEF u
<1>3. v \in Seq(T) /\ Len(v) = n /\ \A k \in 1..n : v[k] = u[k]
  <2>1. \A k \in 1..n : u[k] \in T
    BY <1>2
  <2>2. /\ v \in Seq(T) /\ Len(v) = IF 1 <= n THEN n - 1 + 1 ELSE 0
        /\ \A k \in 1..(n - 1 + 1) : v[k] = u[1 + k - 1]
    BY <1>1, <2>1, SubSeqProperties
  <2>3. n - 1 + 1 = n /\ \A k \in 1..n : 1 + k - 1 = k
    BY <1>1
  <2> HIDE DEF v, n
  <2>4. Len(v) = n
    BY <1>1, <2>2
  <2> QED BY <2>2, <2>3, <2>4
<1> HIDE DEF v
<1>4. v = s
  BY <1>2, <1>3, SeqEqual
<1>5. SubSeq(s, 1, n) = s /\ n <= Len(u)
  BY <1>1, SubSeqFull
<1> QED BY <1>4, <1>5 DEF IsPrefix, u, v

\* What was handed on is the beginning of the payloads of the lines read so far, and of
\* more lines.
LEMMA Begins ==
  ASSUME ParserTypeOK, NEW K, NEW b \in Nat, NEW c \in Nat, ParsedTo(K, b, c),
         NEW m \in Nat, received <= m, m <= Len(body)
  PROVE  IsPrefix(out, Parser!Payloads(SubSeq(body, 1, m)))
<1> DEFINE S == KeptIn(0, m)
           P == Parser!Payloads(SubSeq(body, 1, m))
<1>1. body \in Bodies /\ received \in Nat /\ Len(body) \in Nat /\ body \in Seq(Lines)
  BY BodyLines DEF ParserTypeOK
<1>2. PICK p \in 0..m : LastEvent(m, p)
  BY <1>1, PayloadsOf
<1>3. P = Only(body, DataUpTo(p)) /\ out = Only(body, DataUpTo(c))
  BY <1>2 DEF LastEvent, ParsedTo
<1>4. DataUpTo(c) \subseteq DataUpTo(p) /\ \A i \in DataUpTo(p) \ DataUpTo(c) : c < i
  <2>1. CASE b = 0 /\ c = 0
    BY <2>1, <1>1 DEF DataUpTo
  <2>2. CASE Blank(K, b, c)
    <3>1. b \in 1..received /\ c \in 1..received /\ b < c
      BY <2>2 DEF ParsedTo, Blank
    <3>2. \A x \in S : ~(b < x /\ x < c)
      <4> SUFFICES ASSUME NEW x \in S, b < x, x < c PROVE FALSE
        OBVIOUS
      <4>1. x \in KeptIn(0, received)
        BY <1>1, <3>1 DEF KeptIn
      <4> QED BY <2>2, <4>1 DEF ParsedTo, Blank
    <3>3. b \in S /\ c \in S
      BY <1>1, <2>2, <3>1, KeptLines DEF Blank
    <3>4. Blank(S, b, c)
      BY <2>2, <3>2, <3>3 DEF Blank
    <3>5. b <= p
      BY <1>2, <3>4 DEF LastEvent
    <3>6. \A i \in DataUpTo(c) : i <= b
      <4> SUFFICES ASSUME NEW i \in DataUpTo(c), b < i PROVE FALSE
        BY <3>1 DEF DataUpTo
      <4>1. i # c
        BY <2>2 DEF DataUpTo, Blank
      <4>2. i < c /\ i \in 1..received /\ body[i] \in DOMAIN Meaning
        BY <1>1, <3>1, <4>1 DEF DataUpTo
      <4>3. i \in KeptIn(0, received)
        BY <1>1, <4>2, KeptLines
      <4> QED BY <2>2, <4>2, <4>3 DEF ParsedTo, Blank
    <3> QED BY <1>1, <1>2, <3>1, <3>5, <3>6 DEF DataUpTo
  <2> QED BY <2>1, <2>2 DEF ParsedTo
<1> DEFINE L == DataUpTo(c)
           R == DataUpTo(p) \ L
<1>5. Inside(L, body) /\ Inside(R, body) /\ Before(L, R) /\ DataUpTo(p) = L \cup R
  <2>1. DataUpTo(p) \subseteq 1..Len(body)
    BY <1>1, <1>2 DEF DataUpTo
  <2>2. \A i \in L : i <= c /\ i \in Nat
    BY DEF DataUpTo
  <2>3. \A i \in R : c < i /\ i \in Nat
    BY <1>4, <2>1
  <2> HIDE DEF L, R
  <2>4. Before(L, R)
    BY <2>2, <2>3 DEF Before
  <2> QED BY <1>4, <2>1, <2>4 DEF Inside, L, R
<1> HIDE DEF L, R
<1>6. P = out \o Only(body, R) /\ out \in Seq(Lines) /\ Only(body, R) \in Seq(Lines)
  <2>1. Only(body, L \cup R) = Only(body, L) \o Only(body, R)
    BY <1>1, <1>5, OnlyConcat
  <2>2. Only(body, L) \in Seq(Lines) /\ Only(body, R) \in Seq(Lines)
    BY <1>1, <1>5, OnlyAt
  <2> QED BY <1>3, <1>5, <2>1, <2>2 DEF L
<1> QED BY <1>6, ConcatPrefix

-----------------------------------------------------------------------------
\* Nothing was read initially.
LEMMA ParserInit == Init => ParserSound
<1> SUFFICES ASSUME Init PROVE ParserSound
  OBVIOUS
<1>1. /\ body \in Bodies /\ received = 0 /\ buffer = <<>> /\ out = <<>> /\ parsing = "read"
  BY DEF Init, Parser!Init
<1>2. body \in Seq(Lines) /\ Len(body) \in Nat
  BY <1>1, BodyLines
<1>3. KeptIn(0, 0) = {} /\ DataUpTo(0) = {} /\ Behind({}, 0) = {}
  BY DEF KeptIn, DataUpTo, Behind
<1>4. ParsedTo({}, 0, 0)
  BY <1>1, <1>3, OnlyNothing DEF ParsedTo
<1>5. Parser!Boundaries(buffer) = {}
  BY <1>1 DEF Parser!Boundaries
<1>6. ParserTypeOK
  BY <1>1, <1>2 DEF ParserTypeOK
<1>7. {} \in SUBSET Nat /\ 0 \in Nat
  OBVIOUS
<1> QED BY <1>1, <1>4, <1>5, <1>6, <1>7 DEF ParserSound

\* A read keeps what it normalises, behind what earlier reads have kept.
LEMMA ReadStep ==
  ASSUME ParserSound, Parser!Read
  PROVE  ParserSound'
<1>1. PICK n \in (received + 1)..Len(body) :
         /\ buffer' = buffer \o Parser!Normalise(SubSeq(body, received + 1, n))
         /\ received' = n
  BY DEF Parser!Read
<1>2. parsing = "read" /\ parsing' = "drain" /\ body' = body /\ out' = out
  BY DEF Parser!Read
<1>3. /\ body \in Bodies /\ received \in Nat /\ received <= Len(body) /\ Len(body) \in Nat
      /\ body \in Seq(Lines) /\ n \in Nat /\ received < n /\ n <= Len(body)
  <2>1. body \in Bodies /\ received \in 0..Len(body)
    BY DEF ParserSound, ParserTypeOK
  <2>2. body \in Seq(Lines) /\ Len(body) \in Nat
    BY <2>1, BodyLines
  <2> QED BY <1>1, <2>1, <2>2
<1>4. PICK K \in SUBSET Nat, b \in Nat, c \in Nat : ParsedTo(K, b, c)
  BY DEF ParserSound
<1>n. PICK N : N = KeptIn(received, n)
  OBVIOUS
<1> DEFINE L == Behind(K, c)
<1>5. K \subseteq 1..received /\ N \subseteq (received + 1)..n /\ c <= received
  BY <1>3, <1>4, <1>n DEF ParsedTo, Blank, KeptIn
<1>6. buffer' = Only(body, L) \o Only(body, N)
  <2>1. Parser!Normalise(SubSeq(body, received + 1, n)) = Only(body, N)
    BY <1>3, <1>n, Normalised
  <2> QED BY <1>1, <1>4, <2>1 DEF ParsedTo
<1>7. Inside(L, body) /\ Inside(N, body) /\ Before(L, N) /\ L \cup N = Behind(K \cup N, c)
  <2>1. Inside(L, body)
    <3>1. \A i \in K : i \in 1..Len(body)
      BY <1>3, <1>5
    <3> QED BY <3>1 DEF Inside, Behind
  <2>2. Inside(N, body)
    BY <1>3, <1>5 DEF Inside
  <2>3. Before(L, N)
    BY <1>3, <1>5 DEF Before, Behind
  <2>4. \A i \in N : c < i
    BY <1>3, <1>5
  <2> QED BY <2>1, <2>2, <2>3, <2>4 DEF Behind
<1>8. buffer' = Only(body, Behind(K \cup N, c))
  <2> HIDE DEF L
  <2>1. Only(body, L \cup N) = Only(body, L) \o Only(body, N)
    BY <1>3, <1>7, OnlyConcat
  <2> QED BY <1>6, <1>7, <2>1
<1>9. K \cup N \subseteq 1..n /\ KeptIn(0, n) \subseteq K \cup N
  <2>1. K \cup N \subseteq 1..n
    <3>1. (\A i \in K : i \in 1..n) /\ \A i \in N : i \in 1..n
      BY <1>3, <1>5
    <3> QED BY <3>1
  <2>2. ASSUME NEW i \in KeptIn(0, n) PROVE i \in K \cup N
    <3>1. CASE i <= received
      <4>1. i \in KeptIn(0, received)
        BY <1>3, <2>2, <3>1 DEF KeptIn
      <4> QED BY <1>4, <4>1 DEF ParsedTo
    <3>2. CASE received < i
      BY <1>3, <1>n, <2>2, <3>2 DEF KeptIn
    <3> QED BY <1>3, <2>2, <3>1, <3>2 DEF KeptIn
  <2> QED BY <2>1, <2>2
<1>10. (b = 0 /\ c = 0) \/ Blank(K \cup N, b, c)
  <2>1. CASE Blank(K, b, c)
    <3>1. \A x \in N : ~(x < c)
      BY <1>3, <1>5
    <3> QED BY <2>1, <3>1 DEF Blank
  <2> QED BY <1>4, <2>1 DEF ParsedTo
<1>11. ParsedTo(K \cup N, b, c)'
  <2>1. K \cup N \subseteq 1..received' /\ KeptIn(0, received)' \subseteq K \cup N
    BY <1>1, <1>2, <1>9 DEF KeptIn
  <2>2. (b = 0 /\ c = 0) \/ Blank(K \cup N, b, c)'
    <3>1. Blank(K \cup N, b, c) => Blank(K \cup N, b, c)'
      BY <1>2 DEF Blank
    <3> QED BY <1>10, <3>1
  <2>3. out' = Only(body', DataUpTo(c)')
    BY <1>2, <1>4 DEF ParsedTo, DataUpTo
  <2>4. buffer' = Only(body', Behind(K \cup N, c))
    BY <1>2, <1>8
  <2> QED BY <2>1, <2>2, <2>3, <2>4 DEF ParsedTo
<1>12. ParserTypeOK'
  BY <1>1, <1>2, <1>3 DEF ParserTypeOK
<1>13. K \cup N \in SUBSET Nat
  BY <1>3, <1>9
<1>14. \E H \in SUBSET Nat, d, e \in Nat : ParsedTo(H, d, e)'
  BY <1>11, <1>13
<1> QED BY <1>2, <1>12, <1>14 DEF ParserSound

\* The lines of the buffer up to a boundary are those of the body from the last blank
\* line to the next.
LEMMA EmitStep ==
  ASSUME ParserSound, Parser!Emit
  PROVE  ParserSound'
<1>1. PICK K \in SUBSET Nat, b \in Nat, c \in Nat : ParsedTo(K, b, c)
  BY DEF ParserSound
<1>n. PICK S : S = Behind(K, c)
  OBVIOUS
<1>f. PICK f : f = Ascending(S)
  OBVIOUS
<1> DEFINE B == Parser!Boundaries(buffer)
           z == Cardinality(S)
<1>2. PICK sep : sep = Parser!Min(B)
  OBVIOUS
<1>3. /\ body' = body /\ received' = received /\ parsing' = parsing /\ parsing = "drain"
      /\ B # {}
      /\ out' = out \o Parser!DataLines(SubSeq(buffer, 1, sep - 1))
      /\ buffer' = SubSeq(buffer, sep + 2, Len(buffer))
  BY <1>2 DEF Parser!Emit
<1>4. /\ body \in Bodies /\ received \in 0..Len(body) /\ Len(body) \in Nat
      /\ body \in Seq(Lines) /\ received \in Nat /\ received <= Len(body)
  <2>1. body \in Bodies /\ received \in 0..Len(body)
    BY DEF ParserSound, ParserTypeOK
  <2>2. body \in Seq(Lines) /\ Len(body) \in Nat
    BY <2>1, BodyLines
  <2> QED BY <2>1, <2>2
<1>5. K \subseteq 1..received /\ KeptIn(0, received) \subseteq K /\ c <= received
  BY <1>1, <1>4 DEF ParsedTo, Blank
<1>6. S \subseteq K /\ S \subseteq 1..Len(body) /\ Inside(S, body) /\ Numbers(S)
  <2>1. S \subseteq K /\ S \subseteq 1..Len(body)
    <3>1. \A i \in K : i \in 1..Len(body)
      BY <1>4, <1>5
    <3> QED BY <1>n, <3>1 DEF Behind
  <2>2. Inside(S, body)
    BY <2>1 DEF Inside
  <2> QED BY <1>4, <2>1, <2>2, InsideNumbers
<1>7. buffer = Only(body, S)
  BY <1>1, <1>n DEF ParsedTo
<1>8. /\ z \in Nat /\ Len(buffer) = z /\ \A k \in 1..z : f[k] \in S /\ f[k] \in Nat
      /\ \A i, j \in 1..z : i < j => f[i] < f[j]
  <2>1. z \in Nat /\ Len(buffer) = z
    BY <1>4, <1>6, <1>7, OnlyAt
  <2>2. /\ \A k \in 1..z : f[k] \in S /\ f[k] \in Nat
        /\ \A i, j \in 1..z : i < j => f[i] < f[j]
    BY <1>6, <1>f, Listed
  <2> QED BY <2>1, <2>2
<1>9. B \subseteq 1..(z - 1) /\ \A k \in B : Blank(S, f[k], f[k + 1])
  BY <1>4, <1>6, <1>7, <1>f, KeptBoundaries
<1>10. sep \in B
  <2> HIDE DEF B
  <2>1. Numbers(B)
    <3>1. B \subseteq 1..z
      BY <1>8, <1>9
    <3> HIDE DEF z
    <3> QED BY <1>8, <3>1, Positions
  <2>2. \E x \in B : \A y \in B : x <= y
    BY <1>3, <2>1, Extremes
  <2> QED BY <1>2, <2>2 DEF Parser!Min
<1>11. PICK p, q : p = f[sep] /\ q = f[sep + 1]
  OBVIOUS
<1> HIDE DEF B, z
<1>12. /\ sep \in 1..z /\ sep + 1 \in 1..z /\ sep \in Nat
       /\ p \in S /\ q \in S /\ p \in Nat /\ q \in Nat /\ Blank(S, p, q)
  <2>1. sep \in 1..z /\ sep + 1 \in 1..z /\ sep \in Nat
    BY <1>8, <1>9, <1>10
  <2> QED BY <1>8, <1>9, <1>10, <1>11, <2>1
<1>13. SubSeq(buffer, 1, sep - 1) = Only(body, Under(S, p))
  <2>1. PICK w : w = sep - 1
    OBVIOUS
  <2>2. w \in Nat /\ 0 <= w /\ w <= z
    BY <1>8, <1>12, <2>1
  <2>3. SubSeq(Only(body, S), 0 + 1, w) = Only(body, Places(S, (0 + 1)..w))
    BY <1>4, <1>6, <2>2, OnlyPart DEF z
  <2>4. Places(S, 1..(sep - 1)) = Under(S, p)
    BY <1>6, <1>11, <1>12, <1>f, PlacesAround DEF z
  <2> QED BY <1>7, <2>1, <2>3, <2>4
<1>14. buffer' = Only(body, Behind(S, q))
  <2>1. sep + 1 \in Nat /\ sep + 1 <= z /\ (sep + 1) + 1 = sep + 2
    BY <1>8, <1>12
  <2>2. SubSeq(Only(body, S), (sep + 1) + 1, z) = Only(body, Places(S, ((sep + 1) + 1)..z))
    BY <1>4, <1>6, <1>8, <2>1, OnlyPart DEF z
  <2>3. Places(S, ((sep + 1) + 1)..z) = Behind(S, q)
    BY <1>6, <1>11, <1>12, <1>f, PlacesAround DEF z
  <2> QED BY <1>3, <1>7, <1>8, <2>1, <2>2, <2>3
<1>15. Parser!DataLines(SubSeq(buffer, 1, sep - 1))
         = Only(body, {i \in Under(S, p) : body[i] \in DOMAIN Meaning})
  <2>1. Under(S, p) \subseteq 1..Len(body)
    BY <1>6 DEF Under
  <2> QED BY <1>4, <1>13, <2>1, KeptData
<1>k. S \subseteq Nat /\ (\A i \in S : c < i /\ i <= received) /\ p < q /\ q <= received
  <2>1. \A i \in S : c < i /\ i <= received /\ i \in Nat
    BY <1>4, <1>5, <1>n DEF Behind
  <2> QED BY <1>12, <2>1 DEF Blank
<1>l. PICK R : R = {i \in Under(S, p) : body[i] \in DOMAIN Meaning}
  OBVIOUS
<1>16. DataUpTo(q) = DataUpTo(c) \cup R
  <2>1. ASSUME NEW i \in DataUpTo(q), ~(i <= c) PROVE i \in R
    <3>1. i \in 1..received /\ body[i] \in DOMAIN Meaning /\ i <= q /\ i \in Nat
      BY <1>4, <1>12, <1>k, <2>1 DEF DataUpTo
    <3>2. i \in K
      BY <1>4, <1>5, <3>1, KeptLines
    <3>3. i \in S
      BY <1>n, <2>1, <3>1, <3>2 DEF Behind
    <3>4. i # p /\ i # q /\ ~(p < i /\ i < q)
      BY <1>12, <3>1, <3>3 DEF Blank
    <3>5. i < p
      BY <1>12, <3>1, <3>4
    <3> QED BY <1>l, <3>1, <3>3, <3>5 DEF Under
  <2>2. DataUpTo(c) \subseteq DataUpTo(q)
    BY <1>12, <1>k DEF DataUpTo
  <2>3. ASSUME NEW i \in R PROVE i \in DataUpTo(q)
    <3>1. i \in S /\ i < p /\ body[i] \in DOMAIN Meaning
      BY <1>l, <2>3 DEF Under
    <3>2. i \in 1..Len(body)
      BY <1>6, <3>1
    <3> QED BY <1>12, <1>k, <3>1, <3>2 DEF DataUpTo
  <2>4. \A i \in DataUpTo(q) : i <= c => i \in DataUpTo(c)
    BY DEF DataUpTo
  <2> QED BY <2>1, <2>2, <2>3, <2>4
<1>17. out' = Only(body, DataUpTo(q))
  <2>1. PICK L : L = DataUpTo(c)
    OBVIOUS
  <2>2. out = Only(body, L)
    BY <1>1, <2>1 DEF ParsedTo
  <2>3. Inside(L, body) /\ Inside(R, body)
    <3>1. \A i \in L : i \in 1..Len(body)
      BY <1>4, <1>5, <2>1 DEF DataUpTo
    <3>2. \A i \in R : i \in 1..Len(body)
      BY <1>6, <1>l DEF Under
    <3> QED BY <3>1, <3>2 DEF Inside
  <2>4. Before(L, R)
    <3>1. \A i \in L : i <= c /\ i \in Nat
      BY <2>1 DEF DataUpTo
    <3>2. \A i \in R : c < i /\ i \in Nat
      BY <1>k, <1>l DEF Under
    <3> QED BY <3>1, <3>2 DEF Before
  <2>5. Only(body, L \cup R) = Only(body, L) \o Only(body, R)
    BY <1>4, <2>3, <2>4, OnlyConcat
  <2> QED BY <1>3, <1>15, <1>16, <1>l, <2>1, <2>2, <2>5
<1>18. Behind(S, q) = Behind(K, q)
  <2>1. \A i \in K : q < i => c < i
    BY <1>5, <1>12, <1>k
  <2> QED BY <1>n, <2>1 DEF Behind
<1>19. Blank(K, p, q)
  <2>1. ASSUME NEW x \in K, p < x, x < q PROVE FALSE
    <3>1. x \in S
      <4>1. c < p /\ x \in Nat
        BY <1>5, <1>12, <1>k
      <4>2. c < x
        BY <1>12, <2>1, <4>1
      <4> QED BY <1>n, <4>2 DEF Behind
    <3> QED BY <1>12, <2>1, <3>1 DEF Blank
  <2> QED BY <1>6, <1>12, <2>1 DEF Blank
<1>20. ParsedTo(K, p, q)'
  <2>1. K \subseteq 1..received' /\ KeptIn(0, received)' \subseteq K
    BY <1>3, <1>5 DEF KeptIn
  <2>2. Blank(K, p, q)'
    BY <1>3, <1>19 DEF Blank
  <2>3. out' = Only(body', DataUpTo(q)')
    BY <1>3, <1>17 DEF DataUpTo
  <2>4. buffer' = Only(body', Behind(K, q))
    BY <1>3, <1>14, <1>18
  <2> QED BY <2>1, <2>2, <2>3, <2>4 DEF ParsedTo
<1>21. ParserTypeOK'
  BY <1>3 DEF ParserSound, ParserTypeOK
<1>22. \E H \in SUBSET Nat, d, e \in Nat : ParsedTo(H, d, e)'
  BY <1>12, <1>20
<1> QED BY <1>3, <1>21, <1>22 DEF ParserSound

\* The parser reads on, or is through, when the buffer has no boundary.
LEMMA ParserSame ==
  ASSUME ParserSound, body' = body, received' = received, buffer' = buffer, out' = out,
         \/ parsing' = parsing
         \/ parsing' = "read" /\ Parser!Boundaries(buffer) = {}
         \/ parsing' = "closed" /\ parsing = "read" /\ received = Len(body)
  PROVE  ParserSound'
<1>1. ParserTypeOK'
  BY DEF ParserSound, ParserTypeOK
<1>2. PICK K \in SUBSET Nat, b \in Nat, c \in Nat : ParsedTo(K, b, c)
  BY DEF ParserSound
<1>3. KeptIn(0, received)' = KeptIn(0, received) /\ DataUpTo(c)' = DataUpTo(c)
  BY DEF KeptIn, DataUpTo
<1>4. Blank(K, b, c)' <=> Blank(K, b, c)
  BY DEF Blank
<1>5. ParsedTo(K, b, c)'
  BY <1>2, <1>3, <1>4 DEF ParsedTo
<1>6. \E H \in SUBSET Nat, d, e \in Nat : ParsedTo(H, d, e)'
  BY <1>5
<1>7. Parser!Boundaries(buffer)' = Parser!Boundaries(buffer)
  BY DEF Parser!Boundaries
<1> QED BY <1>1, <1>6, <1>7 DEF ParserSound

LEMMA ParserStep ==
  ASSUME ParserSound, [Next]_vars
  PROVE  ParserSound'
<1>1. CASE Parser!Read
  BY <1>1, ReadStep
<1>2. CASE Parser!Emit
  BY <1>2, EmitStep
<1>3. CASE Parser!KeepPartial
  BY <1>3, ParserSame DEF Parser!KeepPartial
<1>4. CASE Parser!Close
  BY <1>4, ParserSame DEF Parser!Close
<1>5. CASE UNCHANGED parser
  BY <1>5, ParserSame DEF parser
<1> QED BY <1>1, <1>2, <1>3, <1>4, <1>5 DEF Next, Parse, Assemble, Parser!Next, vars

LEMMA ParserInvariant == Spec => []ParserSound
  BY ParserInit, ParserStep, PTL DEF Spec

\* No event is handed on before its blank line was read, out of order or twice, for any
\* body and any cuts, with either line end.
THEOREM EventsNotEarly == Spec => []NothingEarly
<1>1. ASSUME ParserSound PROVE NothingEarly
  <2>1. PICK K \in SUBSET Nat, b \in Nat, c \in Nat : ParsedTo(K, b, c)
    BY <1>1 DEF ParserSound
  <2>2. ParserTypeOK
    BY <1>1 DEF ParserSound
  <2>3. received \in Nat /\ received <= Len(body) /\ received <= received
    BY <2>2, BodyLines DEF ParserTypeOK
  <2>4. IsPrefix(out, Parser!Payloads(SubSeq(body, 1, received)))
    BY <2>1, <2>2, <2>3, Begins
  <2> QED BY <2>4 DEF NothingEarly, Parser!Arrived
<1> QED BY <1>1, ParserInvariant, PTL

\* With line ends of one symbol everything is kept, so a drained buffer has no event left.
LEMMA NothingHeldBack ==
  ASSUME ParserSound, OneSymbolEnds, parsing # "drain"
  PROVE  out = Parser!Payloads(SubSeq(body, 1, received))
<1>1. PICK K \in SUBSET Nat, b \in Nat, c \in Nat : ParsedTo(K, b, c)
  BY DEF ParserSound
<1>2. /\ body \in Bodies /\ Len(body) \in Nat /\ DOMAIN body = 1..Len(body)
      /\ received \in Nat /\ received <= Len(body)
  <2>1. body \in Bodies /\ received \in 0..Len(body)
    BY DEF ParserSound, ParserTypeOK
  <2>2. Len(body) \in Nat /\ DOMAIN body = 1..Len(body)
    BY <2>1, BodyLines
  <2> QED BY <2>1, <2>2
<1>3. K = 1..received /\ KeptIn(0, received) = 1..received
  <2>1. ASSUME NEW i \in 1..received PROVE i \in KeptIn(0, received)
    <3>1. i \in DOMAIN body /\ i \in (0 + 1)..received
      BY <1>2
    <3>2. body[i] # "CR"
      BY <3>1 DEF OneSymbolEnds
    <3> QED BY <3>1, <3>2 DEF KeptIn
  <2>2. K \subseteq 1..received /\ KeptIn(0, received) \subseteq K
    BY <1>1 DEF ParsedTo
  <2> QED BY <2>1, <2>2
<1>4. PICK p \in 0..received : LastEvent(received, p)
  BY <1>2, PayloadsOf
<1>5. \A x, y : ~Blank(Behind(K, c), x, y)
  <2>1. Behind(K, c) \subseteq 1..Len(body)
    BY <1>2, <1>3 DEF Behind
  <2>2. Parser!Boundaries(buffer) = {} /\ buffer = Only(body, Behind(K, c))
    BY <1>1 DEF ParserSound, ParsedTo
  <2> QED BY <1>2, <2>1, <2>2, KeptBoundaries
<1>6. DataUpTo(p) = DataUpTo(c)
  <2>1. CASE p = 0
    <3>1. \A x, y : ~Blank(K, x, y)
      <4> SUFFICES ASSUME NEW x, NEW y, Blank(K, x, y) PROVE FALSE
        OBVIOUS
      <4>1. x <= 0 /\ x \in 1..received
        BY <1>3, <1>4, <2>1 DEF LastEvent, Blank
      <4> QED BY <4>1
    <3>2. c = 0
      BY <1>1, <3>1 DEF ParsedTo
    <3> QED BY <2>1, <3>2
  <2>2. CASE p # 0
    <3>1. PICK q : Blank(K, p, q)
      BY <1>3, <1>4, <2>2 DEF LastEvent
    <3>2. p \in Nat /\ q \in K /\ q \in Nat /\ p < q
      BY <1>3, <3>1 DEF Blank
    <3>3. ~(c < p)
      <4> SUFFICES ASSUME c < p PROVE FALSE
        OBVIOUS
      <4>1. p \in Behind(K, c) /\ q \in Behind(K, c)
        BY <3>1, <3>2 DEF Behind, Blank
      <4>2. Blank(Behind(K, c), p, q)
        BY <3>1, <4>1 DEF Blank, Behind
      <4> QED BY <1>5, <4>2
    <3>4. Blank(K, b, c)
      BY <1>1, <3>2, <3>3, <2>2 DEF ParsedTo
    <3>5. b <= p
      BY <1>3, <1>4, <3>4 DEF LastEvent
    <3>6. ~(b < p /\ p < c)
      BY <3>1, <3>4 DEF Blank
    <3>7. p = b \/ p = c
      BY <3>2, <3>3, <3>5, <3>6
    <3>8. DataUpTo(c) = DataUpTo(b)
      <4>1. b < c /\ body[c] = "LF" /\ b \in 1..received /\ c \in 1..received
        BY <1>3, <3>4 DEF Blank
      <4>2. ASSUME NEW i \in DataUpTo(c), b < i PROVE FALSE
        <5>0. i \in 1..c
          BY <4>2 DEF DataUpTo
        <5>1. i \in K /\ i <= c /\ i \in Nat
          <6>1. c \in Nat /\ c <= received /\ received \in Nat
            BY <1>2, <4>1
          <6>2. i \in 1..received
            BY <5>0, <6>1
          <6> QED BY <1>3, <5>0, <6>2
        <5>2. i # c
          BY <4>1 DEF DataUpTo
        <5>3. i < c
          BY <4>1, <5>1, <5>2
        <5> QED BY <3>4, <4>2, <5>1, <5>3 DEF Blank
      <4> QED BY <4>1, <4>2 DEF DataUpTo
    <3> QED BY <3>7, <3>8
  <2> QED BY <2>1, <2>2
<1> QED BY <1>1, <1>4, <1>6 DEF LastEvent, ParsedTo

\* Whenever the adapter waits for the network it has every event whose blank line was
\* read, for any body with LF line ends and any cuts.
THEOREM EventsNotLate == Spec => []NothingLate
<1>1. ASSUME ParserSound PROVE NothingLate
  BY <1>1, NothingHeldBack DEF NothingLate, Parser!Arrived
<1> QED BY <1>1, ParserInvariant, PTL

-----------------------------------------------------------------------------
\* The events of each kind when s goes on with e.
LEMMA OfAppend ==
  ASSUME NEW T, NEW s \in Seq(T), NEW e \in T, NEW k
  PROVE  Adapter!Of(Append(s, e), k)
           = IF e.kind = k THEN Adapter!Of(s, k) \cup {Len(s) + 1} ELSE Adapter!Of(s, k)
<1> DEFINE n == Len(s)
           u == Append(s, e)
<1>1. n \in Nat /\ DOMAIN s = 1..n /\ DOMAIN u = 1..(n + 1)
      /\ u[n + 1] = e /\ \A i \in 1..n : u[i] = s[i]
  BY AppendProperties
<1> HIDE DEF u, n
<1>2. Adapter!Of(u, k) = {i \in 1..(n + 1) : u[i].kind = k}
      /\ Adapter!Of(s, k) = {i \in 1..n : s[i].kind = k}
  BY <1>1 DEF Adapter!Of
<1>3. 1..(n + 1) = 1..n \cup {n + 1} /\ n + 1 \notin 1..n
  BY <1>1
<1> QED BY <1>1, <1>2, <1>3 DEF u, n

LEMMA OfInside ==
  ASSUME NEW T, NEW s \in Seq(T), NEW k
  PROVE  Inside(Adapter!Of(s, k), s) /\ DOMAIN s = 1..Len(s) /\ Len(s) \in Nat
  BY DEF Inside, Adapter!Of

\* What is at the positions S when s goes on with e, and with e itself.
LEMMA OnlyLonger ==
  ASSUME NEW T, NEW s \in Seq(T), NEW e \in T, NEW S, Inside(S, s)
  PROVE  /\ Only(Append(s, e), S) = Only(s, S)
         /\ Only(Append(s, e), S \cup {Len(s) + 1}) = Append(Only(s, S), e)
<1> DEFINE n == Len(s)
           u == Append(s, e)
           p == n + 1
<1>1. n \in Nat /\ u \in Seq(T) /\ Len(u) = p /\ u[p] = e /\ \A i \in 1..n : u[i] = s[i]
  BY AppendProperties
<1>2. S \subseteq 1..n
  BY DEF Inside
<1> HIDE DEF u, n
<1>3. p \in 1..Len(u) /\ Inside(S, u) /\ Before(S, {p})
  BY <1>1, <1>2 DEF Inside, Before
<1>4. Only(s, S) = Only(u, S)
  BY <1>1, <1>2, InsideNumbers, OnlySame
<1>5. Only(u, S \cup {p}) = Append(Only(u, S), u[p])
  <2> HIDE DEF p
  <2> QED BY <1>1, <1>3, OnlyAppend
<1> QED BY <1>1, <1>4, <1>5 DEF u, n

\* A list of what f says of each element goes on with what f says of the last one.
Each(f, o) == [j \in DOMAIN o |-> f[o[j]]]

LEMMA EachAppend ==
  ASSUME NEW T, NEW o \in Seq(T), NEW e \in T, NEW f
  PROVE  Each(f, Append(o, e)) = Append(Each(f, o), f[e])
<1> DEFINE u == Append(o, e)
           v == Each(f, o)
           w == Each(f, u)
           z == Append(v, f[e])
           V == {f[x] : x \in T}
<1>1. PICK m \in Nat : m = Len(o) /\ DOMAIN o = 1..m
  OBVIOUS
<1>2. DOMAIN u = 1..(m + 1) /\ u[m + 1] = e /\ \A j \in 1..m : u[j] = o[j] /\ o[j] \in T
  BY <1>1, AppendProperties, ElementOfSeq
<1> HIDE DEF u
<1>3. v \in Seq(V) /\ Len(v) = m /\ f[e] \in V /\ \A j \in 1..m : v[j] = f[o[j]]
  <2>1. v \in [1..m -> V]
    BY <1>1, <1>2 DEF Each
  <2>2. v \in Seq(V) /\ Len(v) = m
    BY <2>1
  <2> QED BY <1>1, <2>2 DEF Each
<1>4. w = [j \in 1..(m + 1) |-> f[u[j]]]
  BY <1>2 DEF Each
<1> HIDE DEF v, w, V
<1>5. /\ z \in Seq(V) /\ Len(z) = m + 1 /\ z[m + 1] = f[e]
      /\ \A j \in 1..m : z[j] = v[j]
  BY <1>3, AppendProperties
<1> HIDE DEF z
<1>6. z = [j \in 1..(m + 1) |-> z[j]]
  BY <1>5
<1>7. ASSUME NEW j \in 1..(m + 1) PROVE z[j] = f[u[j]]
  <2>1. j = m + 1 \/ j \in 1..m
    BY <1>1
  <2> QED BY <1>2, <1>3, <1>5, <2>1
<1>8. w = z
  BY <1>4, <1>6, <1>7
<1> QED BY <1>8 DEF w, z, v, u

\* The values at the positions S when s goes on with e.
LEMMA ValuesAppend ==
  ASSUME NEW T, NEW s \in Seq(T), NEW e \in T, NEW S, Inside(S, s)
  PROVE  /\ Adapter!Values(Append(s, e), S) = Adapter!Values(s, S)
         /\ Adapter!Values(Append(s, e), S \cup {Len(s) + 1})
              = Append(Adapter!Values(s, S), e.value)
<1> DEFINE o == Only(s, S)
           u == Append(s, e)
           f == [x \in T |-> x.value]
<1>1. /\ Adapter!Only(s, S) = o /\ Adapter!Only(u, S) = o
      /\ Adapter!Only(u, S \cup {Len(s) + 1}) = Append(o, e)
  BY OnlyLonger, SameOnly
<1>2. o \in Seq(T) /\ Append(o, e) \in Seq(T)
  <2>1. o \in Seq(T)
    BY OnlyAt
  <2> HIDE DEF o
  <2> QED BY <2>1
<1> HIDE DEF o, u
<1>3. /\ Adapter!Values(s, S) = Each(f, o) /\ Adapter!Values(u, S) = Each(f, o)
      /\ Adapter!Values(u, S \cup {Len(s) + 1}) = Each(f, Append(o, e))
  <2>1. ASSUME NEW q \in Seq(T) PROVE Each(f, q) = [j \in DOMAIN q |-> q[j].value]
    <3>1. \A j \in DOMAIN q : q[j] \in T
      OBVIOUS
    <3> QED BY <3>1 DEF Each
  <2> HIDE DEF f
  <2> QED BY <1>1, <1>2, <2>1 DEF Adapter!Values
<1>4. Each(f, Append(o, e)) = Append(Each(f, o), f[e])
  <2> HIDE DEF f
  <2> QED BY <1>2, EachAppend
<1> QED BY <1>3, <1>4 DEF u

\* The calls in s.
Indices(s) == LET calls == Only(s, Adapter!Of(s, "call"))
              IN  [j \in DOMAIN calls |-> calls[j].index]

LEMMA IndicesAppend ==
  ASSUME NEW T, NEW s \in Seq(T), NEW e \in T
  PROVE  Indices(Append(s, e))
           = IF e.kind = "call" THEN Append(Indices(s), e.index) ELSE Indices(s)
<1> DEFINE S == Adapter!Of(s, "call")
           o == Only(s, S)
           u == Append(s, e)
           f == [x \in T |-> x.index]
<1>1. Inside(S, s)
  BY OfInside
<1> HIDE DEF S
<1>2. /\ Only(u, S) = o /\ Only(u, S \cup {Len(s) + 1}) = Append(o, e)
  BY <1>1, OnlyLonger
<1>3. o \in Seq(T) /\ Append(o, e) \in Seq(T)
  <2>1. o \in Seq(T)
    BY <1>1, OnlyAt
  <2> HIDE DEF o
  <2> QED BY <2>1
<1>4. Adapter!Of(u, "call") = IF e.kind = "call" THEN S \cup {Len(s) + 1} ELSE S
  BY OfAppend DEF S
<1>5. Only(u, Adapter!Of(u, "call")) = IF e.kind = "call" THEN Append(o, e) ELSE o
  <2> HIDE DEF o, u
  <2> QED BY <1>2, <1>4
<1>6. ASSUME NEW q \in Seq(T) PROVE Each(f, q) = [j \in DOMAIN q |-> q[j].index]
  <2>1. \A j \in DOMAIN q : q[j] \in T
    OBVIOUS
  <2> QED BY <2>1 DEF Each
<1>7. Each(f, Append(o, e)) = Append(Each(f, o), f[e]) /\ f[e] = e.index
  <2>1. f[e] = e.index
    OBVIOUS
  <2> HIDE DEF f, o
  <2> QED BY <1>3, <2>1, EachAppend
<1>8. Indices(s) = Each(f, o)
  <2>1. Each(f, o) = [j \in DOMAIN o |-> o[j].index]
    <3> HIDE DEF o, f
    <3> QED BY <1>3, <1>6
  <2> HIDE DEF f
  <2> QED BY <2>1 DEF Indices, S
<1>9. Indices(u) = IF e.kind = "call" THEN Each(f, Append(o, e)) ELSE Each(f, o)
  <2> HIDE DEF o, u, f
  <2> QED BY <1>3, <1>5, <1>6 DEF Indices
<1> HIDE DEF o, f
<1> QED BY <1>7, <1>8, <1>9 DEF u

\* The fragments of the arguments of call c in s.
ArgsOf(s, c) == {i \in Adapter!Of(s, "args") : s[i].index = c}

LEMMA ArgsAppend ==
  ASSUME NEW T, NEW s \in Seq(T), NEW e \in T, NEW c
  PROVE  /\ Inside(ArgsOf(s, c), s)
         /\ ArgsOf(Append(s, e), c)
              = IF e.kind = "args" /\ e.index = c THEN ArgsOf(s, c) \cup {Len(s) + 1}
                ELSE ArgsOf(s, c)
<1> DEFINE n == Len(s)
           u == Append(s, e)
           A == Adapter!Of(s, "args")
<1>1. n \in Nat /\ u[n + 1] = e /\ \A i \in 1..n : u[i] = s[i]
  BY AppendProperties
<1>2. Inside(A, s)
  BY OfInside
<1>3. Adapter!Of(u, "args") = IF e.kind = "args" THEN A \cup {n + 1} ELSE A
  BY OfAppend
<1> HIDE DEF u, A, n
<1>4. A \subseteq 1..n
  BY <1>2 DEF Inside, n
<1> QED BY <1>1, <1>2, <1>3, <1>4 DEF ArgsOf, Inside, u, A, n

\* What the events of kind k say last when s goes on with e.
LEMMA LatestAppend ==
  ASSUME NEW T, NEW s \in Seq(T), NEW e \in T, NEW k, NEW d
  PROVE  Adapter!Latest(Append(s, e), k, d)
           = IF e.kind = k THEN e.value ELSE Adapter!Latest(s, k, d)
<1> DEFINE n == Len(s)
           u == Append(s, e)
           S == Adapter!Of(s, k)
<1>1. n \in Nat /\ u[n + 1] = e /\ \A i \in 1..n : u[i] = s[i]
  BY AppendProperties
<1>2. Inside(S, s) /\ Numbers(S)
  BY OfInside, InsideNumbers
<1>3. Adapter!Of(u, k) = IF e.kind = k THEN S \cup {n + 1} ELSE S
  BY OfAppend
<1> HIDE DEF u, S, n
<1>4. S \subseteq 1..n
  BY <1>2 DEF Inside, n
<1>5. Adapter!Max(S \cup {n + 1}) = n + 1
  <2>1. \A x \in S \cup {n + 1} : n + 1 >= x /\ x \in Nat
    <3>1. ASSUME NEW x \in S PROVE x \in Nat /\ x <= n
      <4>1. x \in 1..n
        BY <1>4
      <4> QED BY <1>1, <4>1
    <3>2. \A x \in S : n + 1 >= x /\ x \in Nat
      BY <1>1, <3>1
    <3> QED BY <1>1, <3>2
  <2>2. \E x \in S \cup {n + 1} : \A y \in S \cup {n + 1} : x >= y
    BY <2>1
  <2>3. \A y \in S \cup {n + 1} : Adapter!Max(S \cup {n + 1}) >= y
        /\ Adapter!Max(S \cup {n + 1}) \in S \cup {n + 1}
    BY <2>2 DEF Adapter!Max
  <2>4. PICK m \in Nat : m = Adapter!Max(S \cup {n + 1})
    BY <2>1, <2>3
  <2>5. m >= n + 1 /\ n + 1 >= m
    BY <2>1, <2>3, <2>4
  <2> QED BY <1>1, <2>4, <2>5
<1>6. S # {} => Adapter!Max(S) \in S
  <2>1. S # {} => \E x \in S : \A y \in S : x >= y
    BY <1>2, Extremes
  <2> QED BY <2>1 DEF Adapter!Max
<1>7. Adapter!Latest(s, k, d) = IF S = {} THEN d ELSE s[Adapter!Max(S)].value
  BY DEF Adapter!Latest, S
<1>8. Adapter!Latest(u, k, d)
        = IF Adapter!Of(u, k) = {} THEN d ELSE u[Adapter!Max(Adapter!Of(u, k))].value
  BY DEF Adapter!Latest
<1>9. CASE e.kind = k
  BY <1>1, <1>3, <1>5, <1>8, <1>9 DEF u
<1>10. CASE e.kind # k
  BY <1>1, <1>3, <1>4, <1>6, <1>7, <1>8, <1>10 DEF u
<1> QED BY <1>9, <1>10

\* The text so far, and the arguments of a call so far.
TextOf(s)      == Adapter!Values(s, Adapter!Of(s, "text"))
GivenTo(s, c)  == Adapter!Values(s, ArgsOf(s, c))

LEMMA PiecesAppend ==
  ASSUME NEW T, NEW s \in Seq(T), NEW e \in T
  PROVE  /\ TextOf(Append(s, e))
              = IF e.kind = "text" THEN Append(TextOf(s), e.value) ELSE TextOf(s)
         /\ \A c : GivenTo(Append(s, e), c)
                     = IF e.kind = "args" /\ e.index = c THEN Append(GivenTo(s, c), e.value)
                       ELSE GivenTo(s, c)
<1> DEFINE u == Append(s, e)
           n == Len(s)
<1>1. ASSUME NEW S, Inside(S, s)
      PROVE  /\ Adapter!Values(u, S) = Adapter!Values(s, S)
             /\ Adapter!Values(u, S \cup {n + 1}) = Append(Adapter!Values(s, S), e.value)
  BY <1>1, ValuesAppend
<1>2. /\ Inside(Adapter!Of(s, "text"), s)
      /\ Adapter!Of(u, "text") = IF e.kind = "text" THEN Adapter!Of(s, "text") \cup {n + 1}
                                 ELSE Adapter!Of(s, "text")
  BY OfInside, OfAppend
<1>3. \A c : /\ Inside(ArgsOf(s, c), s)
             /\ ArgsOf(u, c) = IF e.kind = "args" /\ e.index = c
                               THEN ArgsOf(s, c) \cup {n + 1} ELSE ArgsOf(s, c)
  BY ArgsAppend
<1> HIDE DEF u, n
<1>4. TextOf(u) = IF e.kind = "text" THEN Append(TextOf(s), e.value) ELSE TextOf(s)
  BY <1>1, <1>2 DEF TextOf
<1>5. \A c : GivenTo(u, c) = IF e.kind = "args" /\ e.index = c
                             THEN Append(GivenTo(s, c), e.value) ELSE GivenTo(s, c)
  BY <1>1, <1>3 DEF GivenTo
<1> QED BY <1>4, <1>5 DEF u

-----------------------------------------------------------------------------
\* What the body says when all of it was read, and the part that the adapter has seen.
Whole == Events(Parser!Payloads(body))
Seen  == SubSeq(Whole, 1, read)

Said  == {Meaning[d] : d \in DOMAIN Meaning}
Tells == {e.value : e \in Said}
Drafts == [Calls -> [id : Tells \cup {Adapter!NoId}, args : Seq(Tells)]]

\* The message is the one that the events s are about.
MessageOf(s) ==
    /\ content = TextOf(s)
    /\ order = Indices(s)
    /\ \A c \in Calls : drafts[c].args = GivenTo(s, c)
    /\ \A i \in Adapter!Of(s, "call") : drafts[s[i].index].id = s[i].value
    /\ usage = [in |-> Adapter!Latest(s, "start", 0), out |-> Adapter!Latest(s, "usage", 0)]
    /\ finish = Adapter!Mapped(Adapter!Latest(s, "finish", "stop"))

Assembling ==
    /\ read \in 0..Len(Whole)
    /\ drafts \in Drafts
    /\ MessageOf(Seen)
    /\ pc = "over" => Seen = Whole
    /\ pc = "done" /\ OneSymbolEnds => Seen = Whole

\* The events handed on are the beginning of those of the body.
LEMMA EventsRead ==
  ASSUME ParserSound
  PROVE  /\ Whole \in Seq(Said) /\ Len(Whole) \in Nat /\ DOMAIN Whole = 1..Len(Whole)
         /\ Adapter!Protocol(Whole)
         /\ Len(Events(out)) \in Nat /\ Len(Events(out)) <= Len(Whole)
         /\ \A i \in 1..Len(Events(out)) : Events(out)[i] = Whole[i]
<1> DEFINE P == Parser!Payloads(body)
           D == DOMAIN Meaning
           n == Len(body)
<1>1. /\ body \in Bodies /\ body \in Seq(Lines) /\ n \in Nat
      /\ received \in Nat /\ received <= n /\ SubSeq(body, 1, n) = body
  <2>1. body \in Bodies /\ received \in 0..n
    BY DEF ParserSound, ParserTypeOK
  <2>2. body \in Seq(Lines) /\ n \in Nat
    BY <2>1, BodyLines
  <2> QED BY <2>1, <2>2, SubSeqFull
<1>2. ASSUME NEW p \in Nat, p <= n PROVE Only(body, DataUpTo(p)) \in Seq(D)
  <2>1. Inside(DataUpTo(p), body) /\ \A i \in DataUpTo(p) : body[i] \in D
    BY <1>1, <1>2 DEF Inside, DataUpTo
  <2>2. PICK S : S = DataUpTo(p)
    OBVIOUS
  <2>3. PICK m \in Nat : m = Cardinality(S) /\ DOMAIN Only(body, S) = 1..m
          /\ Only(body, S) \in Seq(Lines) /\ Len(Only(body, S)) = m
          /\ \A k \in 1..m : Only(body, S)[k] = body[Ascending(S)[k]]
    BY <1>1, <2>1, <2>2, OnlyAt
  <2>4. \A k \in 1..m : Ascending(S)[k] \in S
    BY <1>1, <2>1, <2>2, <2>3, InsideNumbers, Listed
  <2>5. \A k \in 1..m : Only(body, S)[k] \in D
    BY <2>1, <2>2, <2>3, <2>4
  <2>6. PICK o : o = Only(body, S)
    OBVIOUS
  <2>7. o = [k \in 1..m |-> o[k]] /\ \A k \in 1..m : o[k] \in D
    BY <2>3, <2>5, <2>6
  <2> HIDE DEF D
  <2>8. o \in Seq(D)
    BY <2>7
  <2> QED BY <2>2, <2>6, <2>8
<1>3. P \in Seq(D)
  <2>1. PICK p \in 0..n : LastEvent(n, p)
    BY <1>1, PayloadsOf
  <2>2. P = Only(body, DataUpTo(p))
    BY <1>1, <2>1 DEF LastEvent
  <2>3. p \in Nat /\ p <= n
    BY <1>1
  <2> QED BY <1>2, <2>2, <2>3
<1>4. PICK K \in SUBSET Nat, b \in Nat, c \in Nat : ParsedTo(K, b, c)
  BY DEF ParserSound
<1>5. out \in Seq(D)
  <2>1. c <= received
    BY <1>1, <1>4 DEF ParsedTo, Blank
  <2>2. c <= n
    BY <1>1, <2>1
  <2> QED BY <1>2, <1>4, <2>2 DEF ParsedTo
<1>6. IsPrefix(out, P)
  <2>1. ParserTypeOK
    BY DEF ParserSound
  <2>2. IsPrefix(out, Parser!Payloads(SubSeq(body, 1, n)))
    BY <1>1, <1>4, <2>1, Begins
  <2> QED BY <1>1, <2>2
<1> HIDE DEF P, D, n
<1>7. Len(out) <= Len(P) /\ \A i \in 1..Len(out) : out[i] = P[i]
  <2>1. Len(out) <= Len(P) /\ SubSeq(out, 1, Len(out)) = SubSeq(P, 1, Len(out))
    BY <1>6 DEF IsPrefix
  <2>2. PICK m \in Nat : m = Len(out)
    BY <1>5
  <2>3. SubSeq(out, 1, m) = out
    BY <1>5, <2>2, SubSeqFull
  <2>4. \A i \in 1..m : P[i] \in D
    BY <1>3, <2>1, <2>2, ElementOfSeq
  <2>5. \A i \in 1..(m - 1 + 1) : SubSeq(P, 1, m)[i] = P[1 + i - 1]
    BY <1>3, <2>4, SubSeqProperties
  <2>6. m - 1 + 1 = m /\ \A i \in 1..m : 1 + i - 1 = i
    OBVIOUS
  <2> QED BY <2>1, <2>2, <2>3, <2>5, <2>6
<1>8. ASSUME NEW q \in Seq(D)
      PROVE  /\ Events(q) \in Seq(Said) /\ Len(Events(q)) = Len(q) /\ Len(q) \in Nat
             /\ \A i \in 1..Len(q) : Events(q)[i] = Meaning[q[i]]
  <2>1. PICK m \in Nat : m = Len(q) /\ DOMAIN q = 1..m
    OBVIOUS
  <2>2. \A i \in 1..m : q[i] \in D
    BY <2>1, ElementOfSeq
  <2>3. Events(q) = [i \in 1..m |-> Meaning[q[i]]] /\ \A i \in 1..m : Meaning[q[i]] \in Said
    BY <2>1, <2>2 DEF Events, Said, D
  <2>4. PICK v : v = Events(q)
    OBVIOUS
  <2>5. v \in [1..m -> Said] /\ \A i \in 1..m : v[i] = Meaning[q[i]]
    BY <2>3, <2>4
  <2>6. v \in Seq(Said) /\ Len(v) = m
    BY <2>5
  <2> QED BY <2>1, <2>4, <2>5, <2>6
<1>9. Whole = Events(P)
  BY DEF Whole, P
<1>10. Adapter!Protocol(Whole)
  BY <1>1, BodiesAssumption DEF Whole
<1>11. /\ Whole \in Seq(Said) /\ Len(Whole) = Len(P) /\ Len(Events(out)) = Len(out)
       /\ Len(out) \in Nat
       /\ \A i \in 1..Len(out) : Events(out)[i] = Meaning[out[i]]
       /\ \A i \in 1..Len(P) : Whole[i] = Meaning[P[i]]
  BY <1>3, <1>5, <1>8, <1>9
<1>12. Len(Whole) \in Nat /\ DOMAIN Whole = 1..Len(Whole)
  BY <1>11
<1>13. ASSUME NEW i \in 1..Len(out) PROVE i \in 1..Len(P)
  BY <1>7, <1>11, <1>12
<1> QED BY <1>7, <1>10, <1>11, <1>12, <1>13

\* The next event is the next one of the body.
LEMMA NextEvent ==
  ASSUME ParserSound, Assembling, UNCHANGED parser, NEW e, NEW k,
         e = Events(out)[read + 1], Adapter!Take(e, k)
  PROVE  /\ e \in Said /\ e.kind = k /\ e.value \in Tells /\ e = Whole[read + 1]
         /\ Seen \in Seq(Said) /\ Len(Seen) = read /\ read \in Nat
         /\ \A i \in 1..read : Seen[i] = Whole[i]
         /\ read + 1 <= Len(Whole) /\ Seen' = Append(Seen, e)
         /\ read' \in 0..Len(Whole)' /\ Whole' = Whole /\ read' = read + 1
         /\ pc = "read"
<1>1. /\ pc = "read" /\ read < Len(Events(out)) /\ e.kind = k /\ read' = read + 1
      /\ body' = body
  BY DEF Adapter!Take, parser
<1>2. /\ Whole \in Seq(Said) /\ Len(Whole) \in Nat
      /\ Len(Events(out)) \in Nat /\ Len(Events(out)) <= Len(Whole)
      /\ \A i \in 1..Len(Events(out)) : Events(out)[i] = Whole[i]
  BY EventsRead
<1>3. PICK r \in Nat : r = read /\ r + 1 <= Len(Events(out)) /\ r + 1 <= Len(Whole)
  BY <1>1, <1>2 DEF Assembling
<1>4. e = Whole[r + 1] /\ e \in Said /\ e.value \in Tells
  <2>1. r + 1 \in 1..Len(Events(out)) /\ r + 1 \in 1..Len(Whole)
    BY <1>2, <1>3
  <2> QED BY <1>2, <1>3, <2>1, ElementOfSeq DEF Tells
<1>5. Whole' = Whole
  BY <1>1 DEF Whole
<1>6. /\ Seen \in Seq(Said) /\ Len(Seen) = r /\ \A i \in 1..r : Seen[i] = Whole[i]
      /\ SubSeq(Whole, 1, r + 1) = Append(Seen, e)
  <2>1. PICK w : w = Whole
    OBVIOUS
  <2>2. PICK v : v = SubSeq(w, 1, r)
    OBVIOUS
  <2>3. \A i \in 1..(r + 1) : w[i] \in Said
    BY <1>2, <1>3, <2>1, ElementOfSeq
  <2>4. /\ v \in Seq(Said) /\ Len(v) = r /\ \A i \in 1..r : v[i] = w[i]
    <3>1. \A i \in 1..r : w[i] \in Said
      BY <2>3
    <3>2. /\ v \in Seq(Said) /\ Len(v) = IF 1 <= r THEN r - 1 + 1 ELSE 0
          /\ \A i \in 1..(r - 1 + 1) : v[i] = w[1 + i - 1]
      BY <1>2, <2>1, <2>2, <3>1, SubSeqProperties
    <3>3. r - 1 + 1 = r /\ \A i \in 1..r : 1 + i - 1 = i
      OBVIOUS
    <3>4. Len(v) = r
      BY <3>2
    <3> QED BY <3>2, <3>3, <3>4
  <2>5. PICK x : x = SubSeq(w, 1, r + 1)
    OBVIOUS
  <2>6. x \in Seq(Said) /\ Len(x) = r + 1 /\ \A i \in 1..(r + 1) : x[i] = w[i]
    <3>1. /\ x \in Seq(Said) /\ Len(x) = IF 1 <= r + 1 THEN r + 1 - 1 + 1 ELSE 0
          /\ \A i \in 1..(r + 1 - 1 + 1) : x[i] = w[1 + i - 1]
      BY <1>2, <2>1, <2>3, <2>5, SubSeqProperties
    <3>2. r + 1 - 1 + 1 = r + 1 /\ \A i \in 1..(r + 1) : 1 + i - 1 = i
      OBVIOUS
    <3>3. Len(x) = r + 1
      BY <3>1
    <3> QED BY <3>1, <3>2, <3>3
  <2>7. PICK y : y = Append(v, e)
    OBVIOUS
  <2>8. y \in Seq(Said) /\ Len(y) = r + 1 /\ y[r + 1] = e /\ \A i \in 1..r : y[i] = v[i]
    BY <1>4, <2>4, <2>7, AppendProperties
  <2>9. \A i \in 1..(r + 1) : x[i] = y[i]
    <3>1. \A i \in 1..(r + 1) : i = r + 1 \/ i \in 1..r
      OBVIOUS
    <3> QED BY <1>4, <2>1, <2>4, <2>6, <2>8, <3>1
  <2>10. x = y
    BY <2>6, <2>8, <2>9, SeqEqual
  <2> QED BY <1>3, <2>1, <2>2, <2>4, <2>5, <2>7, <2>10 DEF Seen
<1>7. Seen' = Append(Seen, e)
  BY <1>1, <1>3, <1>5, <1>6 DEF Seen
<1>8. read' \in 0..Len(Whole)'
  BY <1>1, <1>2, <1>3, <1>5
<1> QED BY <1>1, <1>3, <1>4, <1>5, <1>6, <1>7, <1>8

\* The events seen keep to the protocol.
LEMMA Known ==
  ASSUME ParserSound, NEW s, NEW n \in Nat, n <= Len(Whole), DOMAIN s = 1..n,
         \A i \in 1..n : s[i] = Whole[i]
  PROVE  \A i \in Adapter!Of(s, "call") : s[i].index \in Calls
<1>1. Adapter!Protocol(Whole) /\ DOMAIN Whole = 1..Len(Whole) /\ Len(Whole) \in Nat
  BY EventsRead
<1>2. \A i \in Adapter!Of(Whole, "call") : Whole[i].index \in Calls
  BY <1>1 DEF Adapter!Protocol
<1>3. ASSUME NEW i \in Adapter!Of(s, "call")
      PROVE  i \in Adapter!Of(Whole, "call") /\ s[i] = Whole[i]
  BY <1>1 DEF Adapter!Of
<1> QED BY <1>2, <1>3

\* What each kind of event changes.
Takes(e, k) ==
    /\ content' = IF k = "text" THEN Append(content, e.value) ELSE content
    /\ order' = IF k = "call" THEN Append(order, e.index) ELSE order
    /\ drafts' \in Drafts
    /\ \A c \in Calls :
          /\ drafts'[c].args = IF k = "args" /\ e.index = c THEN Append(drafts[c].args, e.value)
                               ELSE drafts[c].args
          /\ drafts'[c].id = IF k = "call" /\ e.index = c THEN e.value ELSE drafts[c].id
    /\ usage' = [in  |-> IF k = "start" THEN e.value ELSE usage.in,
                 out |-> IF k = "usage" THEN e.value ELSE usage.out]
    /\ finish' = IF k = "finish" THEN Adapter!Mapped(e.value) ELSE finish
    /\ pc' = IF k = "end" THEN "over" ELSE "read"

\* With the next event of the body the message is the one that goes on with it.
LEMMA MessageGrows ==
  ASSUME ParserSound, Assembling, UNCHANGED parser, NEW e, NEW k,
         e = Events(out)[read + 1], Adapter!Take(e, k), Takes(e, k)
  PROVE  Assembling'
<1>1. /\ e \in Said /\ e.kind = k /\ e = Whole[read + 1]
      /\ Seen \in Seq(Said) /\ Len(Seen) = read /\ read \in Nat
      /\ \A i \in 1..read : Seen[i] = Whole[i]
      /\ read + 1 <= Len(Whole) /\ Seen' = Append(Seen, e)
      /\ read' \in 0..Len(Whole)' /\ Whole' = Whole /\ read' = read + 1
  BY NextEvent
<1>2. PICK s \in Seq(Said) : s = Seen
  BY <1>1
<1>3. PICK n \in Nat : n = read
  BY <1>1
<1>4. PICK u : u = Append(s, e)
  OBVIOUS
<1>5. /\ Len(s) = n /\ DOMAIN s = 1..n /\ \A i \in 1..n : s[i] = Whole[i]
      /\ e = Whole[n + 1] /\ n + 1 <= Len(Whole) /\ Seen' = u /\ MessageOf(s)
  BY <1>1, <1>2, <1>3, <1>4 DEF Assembling
<1>6. /\ Adapter!Protocol(Whole) /\ DOMAIN Whole = 1..Len(Whole) /\ Len(Whole) \in Nat
      /\ Whole \in Seq(Said)
  BY EventsRead
<1>7. content' = TextOf(u) /\ \A c \in Calls : drafts'[c].args = GivenTo(u, c)
  <2>1. TextOf(u) = IF k = "text" THEN Append(TextOf(s), e.value) ELSE TextOf(s)
    BY <1>1, <1>4, PiecesAppend
  <2>2. \A c \in Calls : GivenTo(u, c) = IF k = "args" /\ e.index = c
                                          THEN Append(GivenTo(s, c), e.value) ELSE GivenTo(s, c)
    <3>1. \A c : GivenTo(u, c) = IF e.kind = "args" /\ e.index = c
                                 THEN Append(GivenTo(s, c), e.value) ELSE GivenTo(s, c)
      BY <1>1, <1>4, PiecesAppend
    <3> QED BY <1>1, <3>1
  <2>3. content = TextOf(s) /\ \A c \in Calls : drafts[c].args = GivenTo(s, c)
    BY <1>5 DEF MessageOf
  <2>4. content' = TextOf(u)
    BY <2>1, <2>3 DEF Takes
  <2>5. \A c \in Calls : drafts'[c].args = GivenTo(u, c)
    <3> SUFFICES ASSUME NEW c \in Calls PROVE drafts'[c].args = GivenTo(u, c)
      OBVIOUS
    <3>1. drafts'[c].args = IF k = "args" /\ e.index = c THEN Append(drafts[c].args, e.value)
                            ELSE drafts[c].args
      BY DEF Takes
    <3> QED BY <2>2, <2>3, <3>1
  <2> QED BY <2>4, <2>5
<1>8. order' = Indices(u)
  <2>1. Indices(u) = IF k = "call" THEN Append(Indices(s), e.index) ELSE Indices(s)
    BY <1>1, <1>4, IndicesAppend
  <2> QED BY <1>5, <2>1 DEF Takes, MessageOf
<1>9. \A j, d : Adapter!Latest(u, j, d) = IF k = j THEN e.value ELSE Adapter!Latest(s, j, d)
  BY <1>1, <1>4, LatestAppend
<1>10. /\ usage' = [in |-> Adapter!Latest(u, "start", 0), out |-> Adapter!Latest(u, "usage", 0)]
       /\ finish' = Adapter!Mapped(Adapter!Latest(u, "finish", "stop"))
  BY <1>5, <1>9 DEF Takes, MessageOf
<1>11. \A i \in Adapter!Of(s, "call") : s[i].index \in Calls
  <2>1. n <= Len(Whole)
    BY <1>5, <1>6
  <2> QED BY <1>5, <2>1, Known
<1>12. \A i \in Adapter!Of(u, "call") : drafts'[u[i].index].id = u[i].value
  <2>1. CASE k # "call"
    <3>1. \A c \in Calls : drafts'[c].id = drafts[c].id
      BY <2>1 DEF Takes
    <3>2. Adapter!Of(u, "call") = Adapter!Of(s, "call")
      BY <1>1, <1>4, <2>1, OfAppend
    <3>3. \A i \in 1..n : u[i] = s[i]
      BY <1>1, <1>4, <1>5, AppendProperties
    <3>4. \A i \in Adapter!Of(s, "call") : i \in 1..n
      BY <1>5 DEF Adapter!Of
    <3> QED BY <1>5, <1>11, <3>1, <3>2, <3>3, <3>4 DEF MessageOf
  <2>2. CASE k = "call"
    <3>1. n + 1 \in Adapter!Of(Whole, "call")
      BY <1>1, <1>5, <1>6, <2>2 DEF Adapter!Of
    <3>2. e.index \in Calls
      BY <1>5, <1>6, <3>1 DEF Adapter!Protocol
    <3>3. ASSUME NEW i \in Adapter!Of(s, "call") PROVE s[i].index # e.index /\ i \in 1..n
      <4>1. i \in 1..n /\ i \in Adapter!Of(Whole, "call") /\ s[i] = Whole[i]
        BY <1>5, <1>6 DEF Adapter!Of
      <4>2. i # n + 1
        BY <4>1
      <4> QED BY <1>5, <1>6, <3>1, <4>1, <4>2 DEF Adapter!Protocol
    <3>4. Adapter!Of(u, "call") = Adapter!Of(s, "call") \cup {n + 1}
      BY <1>1, <1>4, <1>5, <2>2, OfAppend
    <3>5. u[n + 1] = e /\ \A i \in 1..n : u[i] = s[i]
      BY <1>1, <1>4, <1>5, AppendProperties
    <3>6. drafts'[e.index].id = e.value
      BY <2>2, <3>2 DEF Takes
    <3>7. ASSUME NEW i \in Adapter!Of(s, "call") PROVE drafts'[s[i].index].id = s[i].value
      <4>1. drafts[s[i].index].id = s[i].value
        BY <1>5 DEF MessageOf
      <4> QED BY <1>11, <3>3, <4>1 DEF Takes
    <3> QED BY <3>3, <3>4, <3>5, <3>6, <3>7
  <2> QED BY <2>1, <2>2
<1>13. MessageOf(Seen)'
  BY <1>5, <1>7, <1>8, <1>10, <1>12 DEF MessageOf
<1>14. ASSUME k = "end" PROVE (Seen = Whole)'
  <2>1. n + 1 \in Adapter!Of(Whole, "end")
    BY <1>1, <1>5, <1>6, <1>14 DEF Adapter!Of
  <2>2. read' = Len(Whole)
    BY <1>1, <1>3, <1>6, <2>1 DEF Adapter!Protocol
  <2>3. SubSeq(Whole, 1, Len(Whole)) = Whole
    BY <1>6, SubSeqFull
  <2> QED BY <1>1, <2>2, <2>3 DEF Seen
<1> QED BY <1>1, <1>13, <1>14 DEF Assembling, Takes, Drafts

\* Each step of the adapter that reads an event changes what that event is about.
LEMMA ReadsOn ==
  ASSUME ParserSound, Assembling, UNCHANGED parser, NEW e, e = Events(out)[read + 1],
         \/ Adapter!Start(e) \/ Adapter!Text(e) \/ Adapter!Call(e) \/ Adapter!Args(e)
         \/ Adapter!Finish(e) \/ Adapter!Usage(e) \/ Adapter!Ignore(e) \/ Adapter!Sentinel(e)
  PROVE  Assembling'
<1>1. /\ drafts \in Drafts
      /\ usage = [in |-> usage.in, out |-> usage.out]
  BY DEF Assembling, Drafts, MessageOf
<1>2. ASSUME drafts' = drafts
      PROVE  drafts' \in Drafts /\ \A c \in Calls : drafts'[c].args = drafts[c].args
                                                     /\ drafts'[c].id = drafts[c].id
  BY <1>1, <1>2
<1>3. CASE Adapter!Start(e)
  BY <1>1, <1>2, <1>3, MessageGrows DEF Adapter!Start, Takes, Adapter!Take
<1>4. CASE Adapter!Text(e)
  BY <1>1, <1>2, <1>4, MessageGrows DEF Adapter!Text, Takes, Adapter!Take
<1>5. CASE Adapter!Call(e)
  <2>1. Adapter!Take(e, "call") /\ e.value \in Tells
    BY <1>5, NextEvent DEF Adapter!Call
  <2>2. drafts' = [drafts EXCEPT ![e.index].id = e.value]
    BY <1>5 DEF Adapter!Call
  <2>3. ASSUME NEW c \in Calls
        PROVE  /\ drafts'[c].args = drafts[c].args
               /\ drafts'[c].id = IF e.index = c THEN e.value ELSE drafts[c].id
    BY <1>1, <2>2 DEF Drafts
  <2>4. drafts' \in Drafts
    BY <1>1, <2>1, <2>2 DEF Drafts
  <2>5. Takes(e, "call")
    BY <1>1, <1>5, <2>3, <2>4 DEF Adapter!Call, Takes, Adapter!Take
  <2> QED BY <2>1, <2>5, MessageGrows
<1>6. CASE Adapter!Args(e)
  <2>1. Adapter!Take(e, "args") /\ e.value \in Tells
    BY <1>6, NextEvent DEF Adapter!Args
  <2>2. drafts' = [drafts EXCEPT ![e.index].args = Append(@, e.value)]
    BY <1>6 DEF Adapter!Args
  <2>3. ASSUME NEW c \in Calls
        PROVE  /\ drafts'[c].id = drafts[c].id
               /\ drafts'[c].args = IF e.index = c THEN Append(drafts[c].args, e.value)
                                    ELSE drafts[c].args
    BY <1>1, <2>2 DEF Drafts
  <2>4. drafts' \in Drafts
    <3>1. ASSUME NEW c \in Calls PROVE Append(drafts[c].args, e.value) \in Seq(Tells)
      <4>1. drafts[c].args \in Seq(Tells)
        BY <1>1 DEF Drafts
      <4> QED BY <2>1, <4>1, AppendProperties
    <3>2. PICK a : a = Append(drafts[e.index].args, e.value)
      OBVIOUS
    <3>3. drafts' = [drafts EXCEPT ![e.index].args = a]
      BY <2>2, <3>2
    <3>4. e.index \in Calls => a \in Seq(Tells)
      BY <3>1, <3>2
    <3> QED BY <1>1, <3>3, <3>4 DEF Drafts
  <2>5. Takes(e, "args")
    BY <1>1, <1>6, <2>3, <2>4 DEF Adapter!Args, Takes, Adapter!Take
  <2> QED BY <2>1, <2>5, MessageGrows
<1>7. CASE Adapter!Finish(e)
  BY <1>1, <1>2, <1>7, MessageGrows DEF Adapter!Finish, Takes, Adapter!Take
<1>8. CASE Adapter!Usage(e)
  BY <1>1, <1>2, <1>8, MessageGrows DEF Adapter!Usage, Takes, Adapter!Take
<1>9. CASE Adapter!Ignore(e)
  BY <1>1, <1>2, <1>9, MessageGrows DEF Adapter!Ignore, Takes, Adapter!Take, Adapter!message
<1>10. CASE Adapter!Sentinel(e)
  BY <1>1, <1>2, <1>10, MessageGrows DEF Adapter!Sentinel, Takes, Adapter!Take, Adapter!message
<1> QED BY <1>3, <1>4, <1>5, <1>6, <1>7, <1>8, <1>9, <1>10

\* Before anything was read there is nothing in the message.
LEMMA AssembleInit ==
  ASSUME ParserSound, Init
  PROVE  Assembling
<1>1. /\ read = 0 /\ content = <<>> /\ order = <<>>
      /\ drafts = [c \in Calls |-> [id |-> Adapter!NoId, args |-> <<>>]]
      /\ finish = "stop" /\ usage = [in |-> 0, out |-> 0] /\ pc = "read"
  BY DEF Init, Adapter!Init, Adapter!NoDraft
<1>2. Whole \in Seq(Said) /\ Len(Whole) \in Nat
  BY EventsRead
<1>3. Seen = <<>>
  BY <1>1, <1>2 DEF Seen
<1>4. \A k : Adapter!Of(<<>>, k) = {}
  BY DEF Adapter!Of
<1>5. Adapter!Values(<<>>, {}) = <<>>
  BY SameOnly, OnlyNothing DEF Adapter!Values
<1>6. TextOf(<<>>) = <<>> /\ Indices(<<>>) = <<>> /\ \A c : GivenTo(<<>>, c) = <<>>
  <2>1. \A c : ArgsOf(<<>>, c) = {}
    BY <1>4 DEF ArgsOf
  <2>2. Indices(<<>>) = <<>>
    <3>1. Only(<<>>, Adapter!Of(<<>>, "call")) = <<>>
      BY <1>4, OnlyNothing
    <3>2. Indices(<<>>) = [j \in DOMAIN <<>> |-> <<>>[j].index]
      BY <3>1 DEF Indices
    <3> QED BY <3>2
  <2> QED BY <1>4, <1>5, <2>1, <2>2 DEF TextOf, GivenTo
<1>7. \A k, d : Adapter!Latest(<<>>, k, d) = d
  BY <1>4 DEF Adapter!Latest
<1>8. finish = Adapter!Mapped("stop")
  BY <1>1 DEF Adapter!Mapped, Adapter!mapFinishReason
<1>9. drafts \in Drafts
  <2>1. <<>> \in Seq(Tells)
    OBVIOUS
  <2> QED BY <1>1, <2>1 DEF Drafts
<1>10. MessageOf(<<>>)
  BY <1>1, <1>4, <1>6, <1>7, <1>8 DEF MessageOf
<1> QED BY <1>1, <1>2, <1>3, <1>9, <1>10 DEF Assembling

LEMMA AssembleStep ==
  ASSUME ParserSound, Assembling, [Next]_vars
  PROVE  Assembling'
<1>1. ASSUME body' = body, UNCHANGED <<read, content, order, drafts, finish, usage>>,
             pc' = pc \/ pc' = "failed" \/ (pc' = "done" /\ (OneSymbolEnds => Seen = Whole))
      PROVE  Assembling'
  <2>1. Whole' = Whole
    BY <1>1 DEF Whole
  <2>2. Seen' = Seen
    BY <1>1, <2>1 DEF Seen
  <2>3. OneSymbolEnds' = OneSymbolEnds
    BY <1>1 DEF OneSymbolEnds
  <2>4. MessageOf(Seen)'
    BY <1>1, <2>2 DEF Assembling, MessageOf
  <2> QED BY <1>1, <2>1, <2>2, <2>3, <2>4 DEF Assembling
<1>2. CASE Parse
  <2>1. body' = body
    BY <1>2 DEF Parse, Parser!Next, Parser!Read, Parser!Emit, Parser!KeepPartial, Parser!Close
  <2> QED BY <1>1, <1>2, <2>1 DEF Parse, adapter
<1>3. CASE Assemble
  <2>1. UNCHANGED parser /\ body' = body /\ Adapter!Next
    BY <1>3 DEF Assemble, parser
  <2>2. CASE Adapter!Done
    <3>1. /\ UNCHANGED <<read, content, order, drafts, finish, usage>> /\ pc' = "done"
          /\ pc = "over" \/ (pc = "read" /\ parsing = "closed" /\ read = Len(Events(out)))
      BY <2>2 DEF Adapter!Done, Adapter!message
    <3>2. ASSUME OneSymbolEnds, parsing = "closed", read = Len(Events(out))
          PROVE  Seen = Whole
      <4>1. body \in Bodies /\ received = Len(body)
        BY <3>2 DEF ParserSound, ParserTypeOK
      <4>2. SubSeq(body, 1, received) = body
        BY <4>1, BodyLines, SubSeqFull
      <4>3. out = Parser!Payloads(body)
        BY <3>2, <4>2, NothingHeldBack
      <4>4. Events(out) = Whole
        BY <4>3 DEF Whole
      <4>5. SubSeq(Whole, 1, Len(Whole)) = Whole
        BY EventsRead, SubSeqFull
      <4> QED BY <3>2, <4>4, <4>5 DEF Seen
    <3>3. OneSymbolEnds => Seen = Whole
      BY <3>1, <3>2 DEF Assembling
    <3> QED BY <1>1, <2>1, <3>1, <3>3
  <2>3. CASE Adapter!Throw
    BY <1>1, <2>1, <2>3 DEF Adapter!Throw, Adapter!message
  <2> QED BY <2>1, <2>2, <2>3, ReadsOn DEF Adapter!Next
<1>4. CASE UNCHANGED vars
  BY <1>1, <1>4 DEF vars, parser, adapter
<1> QED BY <1>2, <1>3, <1>4 DEF Next

LEMMA AssembleInvariant == Spec => []Assembling
  BY ParserInit, AssembleInit, ParserInvariant, AssembleStep, PTL DEF Spec

\* The "done" chunk has the message that a call without a stream would return, for any
\* body with LF line ends, any cuts and any interleaving of the fragments of its calls.
THEOREM DoneChunk == Spec => []MessageAssembled
<1>1. ASSUME ParserSound, Assembling, OneSymbolEnds, pc = "done"
      PROVE  Adapter!Assembles(Whole)
  <2>1. PICK s : s = Whole /\ s \in Seq(Said) /\ MessageOf(s)
    BY <1>1, EventsRead DEF Assembling
  <2>2. PICK O : O = Adapter!Of(s, "call")
    OBVIOUS
  <2>3. PICK o : o = Only(s, O)
    OBVIOUS
  <2>4. /\ o = Adapter!Only(s, Adapter!Of(s, "call"))
        /\ order = [j \in DOMAIN o |-> o[j].index]
    BY <2>1, <2>2, <2>3, SameOnly DEF MessageOf, Indices
  <2>5. ASSUME NEW j \in DOMAIN o
        PROVE  /\ o[j].index \in Calls
               /\ drafts[o[j].index]
                    = [id |-> o[j].value, args |-> Adapter!Values(s, ArgsOf(s, o[j].index))]
    <3>1. Inside(O, s)
      BY <2>1, <2>2, OfInside
    <3>2. PICK m \in Nat : m = Cardinality(O) /\ DOMAIN o = 1..m
            /\ \A k \in 1..m : o[k] = s[Ascending(O)[k]]
      BY <2>1, <2>3, <3>1, OnlyAt
    <3>3. \A k \in 1..m : Ascending(O)[k] \in O
      BY <2>1, <3>1, <3>2, InsideNumbers, Listed
    <3>4. PICK i \in O : o[j] = s[i]
      BY <3>2, <3>3
    <3>5. s[i].index \in Calls
      BY <1>1, <2>1, <2>2, EventsRead DEF Adapter!Protocol
    <3>6. drafts[s[i].index].id = s[i].value
      BY <2>1, <2>2 DEF MessageOf
    <3>7. drafts[s[i].index].args = Adapter!Values(s, ArgsOf(s, s[i].index))
      BY <2>1, <3>5 DEF MessageOf, GivenTo
    <3>8. drafts[s[i].index] \in [id : Tells \cup {Adapter!NoId}, args : Seq(Tells)]
      BY <1>1, <3>5 DEF Assembling, Drafts
    <3> QED BY <3>4, <3>5, <3>6, <3>7, <3>8
  <2>6. [j \in DOMAIN order |-> drafts[order[j]]]
          = [j \in DOMAIN o |-> [id |-> o[j].value,
                                 args |-> Adapter!Values(s, ArgsOf(s, o[j].index))]]
    BY <2>4, <2>5
  <2>7. \A c : ArgsOf(s, c) = {i \in Adapter!Of(s, "args") : s[i].index = c}
    BY DEF ArgsOf
  <2> QED BY <2>1, <2>4, <2>6, <2>7 DEF Adapter!Assembles, Adapter!complete, MessageOf, TextOf
<1>2. ASSUME ParserSound, Assembling PROVE MessageAssembled
  BY <1>1, <1>2 DEF MessageAssembled, Whole
<1> QED BY <1>2, ParserInvariant, AssembleInvariant, PTL
===============================================================================
