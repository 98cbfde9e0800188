------------------------ MODULE SpeechStream_proofs -------------------------
(***************************************************************************)
(* Proofs about SpeechStream, for any shapes of chunks, any number of      *)
(* chunks and pieces and any faults.                                       *)
(***************************************************************************)
EXTENDS SpeechStream, FiniteSetTheorems, SequenceTheorems,
        WellFoundedInduction, TLAPS

USE SpeechAssumption

-----------------------------------------------------------------------------
(* Induction and counting *)

\* A set of numbers has a least one.
LEMMA LeastNumber ==
  ASSUME NEW S \in SUBSET Nat, S # {}
  PROVE  \E x \in S : \A y \in S : x <= y
<1> DEFINE R == OpToRel(<, Nat)
<1>1. \A x, y \in Nat : y < x => <<y, x>> \in R
  BY DEF OpToRel
<1>2. IsWellFoundedOn(R, Nat)
  BY NatLessThanWellFounded
<1> HIDE DEF R
<1>3. \E x \in S : \A y \in S : ~ (<<y, x>> \in R)
  BY <1>2, WFMin
<1>4. PICK x \in S : \A y \in S : ~ (<<y, x>> \in R)
  BY <1>3
<1>5. ASSUME NEW y \in S
      PROVE  x <= y
  <2>1. x \in Nat /\ y \in Nat /\ ~ (y < x)
    BY <1>1, <1>4
  <2>2. QED
    BY <2>1
<1>6. QED
  BY <1>4, <1>5

\* Induction over the numbers, of a set: the least element outside S would
\* follow one in S.
LEMMA SetInduction ==
  ASSUME NEW S, 0 \in S, \A n \in Nat : n \in S => n + 1 \in S
  PROVE  Nat \subseteq S
<1> SUFFICES ASSUME Nat \ S # {} PROVE FALSE
  OBVIOUS
<1>1. PICK x \in Nat \ S : \A y \in Nat \ S : x <= y
  <2>1. Nat \ S \in SUBSET Nat
    OBVIOUS
  <2>2. QED
    BY <2>1, LeastNumber
<1>2. x # 0 /\ x - 1 \in Nat /\ (x - 1) + 1 = x /\ ~ (x <= x - 1)
  BY <1>1
<1>3. x - 1 \in S
  BY <1>1, <1>2
<1>4. QED
  BY <1>1, <1>2, <1>3

LEMMA MinMax ==
  ASSUME NEW n \in Nat, NEW S \in SUBSET (1 .. n), S # {}
  PROVE  /\ Min(S) \in S /\ \A y \in S : Min(S) <= y
         /\ Max(S) \in S /\ \A y \in S : y <= Max(S)
<1>1. \E x \in S : \A y \in S : x <= y
  <2>1. S \in SUBSET Nat
    OBVIOUS
  <2>2. QED
    BY <2>1, LeastNumber
<1>2. \E x \in S : \A y \in S : x >= y
  <2> DEFINE T == {n - i : i \in S}
  <2>1. T \in SUBSET Nat /\ T # {}
    <3>1. \A i \in 1 .. n : n - i \in Nat
      OBVIOUS
    <3>2. QED
      BY <3>1
  <2>2. PICK u \in T : \A v \in T : u <= v
    <3> HIDE DEF T
    <3>1. QED
      BY <2>1, LeastNumber
  <2>3. PICK x \in S : u = n - x
    BY <2>2
  <2>4. ASSUME NEW y \in S
        PROVE  x >= y
    <3>1. n - y \in T
      OBVIOUS
    <3>2. n - x <= n - y
      BY <2>2, <2>3, <3>1
    <3>3. x \in Nat /\ y \in Nat
      OBVIOUS
    <3>4. QED
      BY <3>2, <3>3
  <2>5. QED
    BY <2>4
<1>3. Min(S) \in S /\ \A y \in S : Min(S) <= y
  BY <1>1 DEF Min
<1>4. Max(S) \in S /\ \A y \in S : Max(S) >= y
  BY <1>2 DEF Max
<1>5. \A y \in S : y <= Max(S)
  <2>1. \A y \in S : y \in Int
    OBVIOUS
  <2>2. QED
    BY <1>4, <2>1
<1>6. QED
  BY <1>3, <1>4, <1>5

LEMMA RankType ==
  ASSUME NEW n \in Nat, NEW S \in SUBSET (1 .. n)
  PROVE  /\ IsFiniteSet(S) /\ Cardinality(S) \in 0 .. n
         /\ \A i \in Nat : Rank(S, i) \in 0 .. Cardinality(S)
<1>1. IsFiniteSet(1 .. n) /\ Cardinality(1 .. n) = n
  BY FS_Interval
<1>2. /\ IsFiniteSet(S) /\ Cardinality(S) <= n
      /\ Cardinality(S) \in Nat
  <2>1. IsFiniteSet(S) /\ Cardinality(S) <= Cardinality(1 .. n)
    BY <1>1, FS_Subset
  <2>2. QED
    BY <1>1, <2>1, FS_CardinalityType
<1>3. ASSUME NEW i \in Nat
      PROVE  Rank(S, i) \in 0 .. Cardinality(S)
  <2>1. {j \in S : j <= i} \in SUBSET S
    OBVIOUS
  <2>2. /\ IsFiniteSet({j \in S : j <= i})
        /\ Cardinality({j \in S : j <= i}) <= Cardinality(S)
    BY <1>2, <2>1, FS_Subset
  <2>3. Cardinality({j \in S : j <= i}) \in Nat
    BY <2>2, FS_CardinalityType
  <2>4. QED
    BY <1>2, <2>2, <2>3 DEF Rank
<1>4. QED
  BY <1>2, <1>3

\* A later place does not have a lower rank, a later member has a higher one.
LEMMA RankGrows ==
  ASSUME NEW n \in Nat, NEW S \in SUBSET (1 .. n),
         NEW i \in Nat, NEW j \in Nat, i <= j
  PROVE  /\ Rank(S, i) <= Rank(S, j)
         /\ i < j /\ j \in S => Rank(S, i) < Rank(S, j)
<1> DEFINE A == {k \in S : k <= i}
           B == {k \in S : k <= j}
<1>1. IsFiniteSet(S)
  BY RankType
<1>2. A \in SUBSET B /\ B \in SUBSET S
  <2>1. \A k \in S : k \in Nat
    OBVIOUS
  <2>2. \A k \in S : k <= i => k <= j
    BY <2>1
  <2>3. QED
    BY <2>2
<1>3. IsFiniteSet(B)
  BY <1>1, <1>2, FS_Subset
<1>4. /\ IsFiniteSet(A) /\ Cardinality(A) <= Cardinality(B)
      /\ Cardinality(B) = Cardinality(A) => A = B
  BY <1>2, <1>3, FS_Subset
<1>5. Cardinality(A) \in Nat /\ Cardinality(B) \in Nat
  BY <1>3, <1>4, FS_CardinalityType
<1>6. i < j /\ j \in S => A # B
  OBVIOUS
<1>7. Rank(S, i) = Cardinality(A) /\ Rank(S, j) = Cardinality(B)
  BY DEF Rank
<1> HIDE DEF A, B
<1>8. QED
  BY <1>4, <1>5, <1>6, <1>7

\* Every rank is taken.
LEMMA RankTaken ==
  ASSUME NEW n \in Nat, NEW S \in SUBSET (1 .. n),
         NEW r \in 1 .. Cardinality(S)
  PROVE  \E i \in S : Rank(S, i) = r
<1> DEFINE Good == {m \in Nat : \A T \in SUBSET (1 .. m) :
                      \A q \in 1 .. Cardinality(T) :
                        \E i \in T : Rank(T, i) = q}
<1>1. 0 \in Good
  <2> SUFFICES ASSUME NEW T \in SUBSET (1 .. 0), NEW q \in 1 .. Cardinality(T)
               PROVE  FALSE
    OBVIOUS
  <2>1. T = {}
    OBVIOUS
  <2>2. QED
    BY <2>1, FS_EmptySet
<1>2. ASSUME NEW m \in Nat, m \in Good
      PROVE  m + 1 \in Good
  <2> SUFFICES ASSUME NEW T \in SUBSET (1 .. m + 1),
                      NEW q \in 1 .. Cardinality(T)
               PROVE  \E i \in T : Rank(T, i) = q
    OBVIOUS
  <2> DEFINE U == T \ {m + 1}
  <2>1. U \in SUBSET (1 .. m)
    OBVIOUS
  <2>2. \A p \in 1 .. Cardinality(U) : \E i \in U : Rank(U, i) = p
    BY <1>2, <2>1
  <2>3. \A i \in U : {j \in T : j <= i} = {j \in U : j <= i}
    OBVIOUS
  <2>4. CASE m + 1 \notin T
    <3>1. U = T
      BY <2>4
    <3>2. QED
      BY <2>2, <3>1
  <2>5. CASE m + 1 \in T
    <3>1. IsFiniteSet(T) /\ Cardinality(T) \in Nat
      <4>1. IsFiniteSet(1 .. m + 1)
        BY FS_Interval
      <4>2. QED
        BY <4>1, FS_Subset, FS_CardinalityType
    <3>2. Cardinality(U) = Cardinality(T) - 1
      BY <2>5, <3>1, FS_RemoveElement
    <3>3. CASE q = Cardinality(T)
      <4>1. {j \in T : j <= m + 1} = T
        <5>1. \A j \in T : j <= m + 1
          OBVIOUS
        <5>2. QED
          BY <5>1
      <4>2. Rank(T, m + 1) = Cardinality(T)
        BY <4>1 DEF Rank
      <4>3. QED
        BY <2>5, <3>3, <4>2
    <3>4. CASE q # Cardinality(T)
      <4>1. q \in 1 .. Cardinality(U)
        BY <3>1, <3>2, <3>4
      <4>2. PICK i \in U : Rank(U, i) = q
        BY <2>2, <4>1
      <4>3. Rank(T, i) = q
        BY <2>3, <4>2 DEF Rank
      <4>4. QED
        BY <4>2, <4>3
    <3>5. QED
      BY <3>3, <3>4
  <2>6. QED
    BY <2>4, <2>5
<1> HIDE DEF Good
<1>3. Nat \subseteq Good
  BY <1>1, <1>2, SetInduction
<1>4. n \in Good
  BY <1>3
<1>5. QED
  BY <1>4 DEF Good

LEMMA AtMember ==
  ASSUME NEW n \in Nat, NEW S \in SUBSET (1 .. n),
         NEW k \in 1 .. Cardinality(S)
  PROVE  At(S, k) \in S /\ Rank(S, At(S, k)) = k
<1>1. \E i \in S : Rank(S, i) = k
  BY RankTaken
<1>2. QED
  BY <1>1 DEF At

-----------------------------------------------------------------------------
(* What splitSentences returns *)

LEMMA Tokens == /\ Nat \subseteq Token /\ Token \subseteq Int
                /\ Stop \in Token /\ Blank \in Token /\ Stop # Blank
                /\ ~ isWord(Stop) /\ ~ isWord(Blank)
                /\ \A x \in Token : isWord(x) => x \in Nat
BY DEF Token, Stop, Blank, isWord

LEMMA SubSeqFacts ==
  ASSUME NEW t \in Seq(Token), NEW i \in 1 .. Len(t), NEW j \in 1 .. Len(t),
         i <= j
  PROVE  /\ SubSeq(t, i, j) \in Seq(Token)
         /\ Len(SubSeq(t, i, j)) = j - i + 1
         /\ \A k \in 1 .. j - i + 1 : SubSeq(t, i, j)[k] = t[i + k - 1]
<1>1. i \in Int /\ j \in Int /\ \A k \in i .. j : t[k] \in Token
  OBVIOUS
<1>2. /\ SubSeq(t, i, j) \in Seq(Token)
      /\ Len(SubSeq(t, i, j)) = IF i <= j THEN j - i + 1 ELSE 0
      /\ \A k \in 1 .. j - i + 1 : SubSeq(t, i, j)[k] = t[i + k - 1]
  BY <1>1, SubSeqProperties
<1>3. QED
  BY <1>2

\* What is trimmed of t from a to b begins and ends with what is not blank.
LEMMA Trimmed ==
  ASSUME NEW t \in Seq(Token), NEW a \in 1 .. Len(t), NEW b \in 1 .. Len(t)
  PROVE  \/ /\ \A p \in a .. b : t[p] = Blank
            /\ trim(t, a, b) = <<>>
         \/ \E c, d \in a .. b :
              /\ c <= d /\ trim(t, a, b) = SubSeq(t, c, d)
              /\ \A p \in a .. b : t[p] # Blank => p \in c .. d
<1> DEFINE shown == {i \in a .. b : t[i] # Blank}
<1>1. CASE shown = {}
  BY <1>1 DEF trim
<1>2. CASE shown # {}
  <2>1. Len(t) \in Nat /\ shown \in SUBSET (1 .. Len(t))
    OBVIOUS
  <2>2. trim(t, a, b) = SubSeq(t, Min(shown), Max(shown))
    BY <1>2 DEF trim
  <2>3. \A p \in a .. b : t[p] # Blank => p \in shown
    OBVIOUS
  <2>4. shown \subseteq a .. b
    OBVIOUS
  <2> HIDE DEF shown
  <2>5. /\ Min(shown) \in shown /\ \A y \in shown : Min(shown) <= y
        /\ Max(shown) \in shown /\ \A y \in shown : y <= Max(shown)
    BY <1>2, <2>1, MinMax
  <2>6. Min(shown) \in a .. b /\ Max(shown) \in a .. b
    BY <2>4, <2>5
  <2>7. \A p \in a .. b : t[p] # Blank => p \in Min(shown) .. Max(shown)
    BY <2>3, <2>5, <2>6
  <2>8. QED
    BY <2>2, <2>5, <2>6, <2>7
<1>3. QED
  BY <1>1, <1>2

\* Where the k-th sentence that ends with a stop begins and ends.
End(t, k)   == At(Ends(t), k)
Begin(t, k) == IF k = 1 THEN 1 ELSE End(t, k - 1) + 1

LEMMA EndsFacts ==
  ASSUME NEW t \in Seq(Token)
  PROVE  /\ Ends(t) \in SUBSET (1 .. Len(t)) /\ Len(t) \in Nat
         /\ Cardinality(Ends(t)) \in Nat
         /\ \A k \in 1 .. Cardinality(Ends(t)) :
              End(t, k) \in 1 .. Len(t) /\ t[End(t, k)] = Stop
         /\ \A k, l \in 1 .. Cardinality(Ends(t)) :
              k < l => End(t, k) < End(t, l)
         /\ \A q \in Ends(t) : \E k \in 1 .. Cardinality(Ends(t)) :
              End(t, k) = q
<1> DEFINE S == Ends(t)
           n == Cardinality(S)
<1>1. /\ Len(t) \in Nat /\ S \in SUBSET (1 .. Len(t))
      /\ \A q \in S : t[q] = Stop
  BY DEF Ends
<1>2. /\ n \in Nat /\ \A i \in Nat : Rank(S, i) \in 0 .. n
  BY <1>1, RankType
<1>3. \A k \in 1 .. n : End(t, k) \in S /\ Rank(S, End(t, k)) = k
  BY <1>1, AtMember DEF End
<1>4. ASSUME NEW i \in 0 .. Len(t), NEW j \in S, i < j
      PROVE  Rank(S, i) < Rank(S, j)
  <2>1. i \in Nat /\ j \in Nat /\ i <= j
    BY <1>1, <1>4
  <2> HIDE DEF S, n
  <2>2. QED
    BY <1>1, <1>4, <2>1, RankGrows
<1> HIDE DEF S, n
<1>5. ASSUME NEW k \in 1 .. n, NEW l \in 1 .. n, k < l
      PROVE  End(t, k) < End(t, l)
  <2>0. /\ End(t, k) \in 1 .. Len(t) /\ End(t, l) \in 1 .. Len(t)
        /\ End(t, k) \in S /\ End(t, l) \in S
    BY <1>1, <1>3
  <2> SUFFICES ASSUME End(t, l) <= End(t, k) PROVE FALSE
    BY <2>0
  <2>1. End(t, l) # End(t, k)
    BY <1>3, <1>5
  <2>2. End(t, l) \in 0 .. Len(t) /\ End(t, l) < End(t, k)
    BY <2>0, <2>1
  <2>3. l < k
    BY <1>3, <1>4, <2>0, <2>2
  <2>4. QED
    BY <1>5, <2>3
<1>6. ASSUME NEW q \in S
      PROVE  \E k \in 1 .. n : End(t, k) = q
  <2>1. 0 \in 0 .. Len(t) /\ 0 < q /\ q \in Nat /\ q \in 1 .. Len(t)
    BY <1>1
  <2>2. /\ Rank(S, 0) < Rank(S, q)
        /\ Rank(S, 0) \in 0 .. n /\ Rank(S, q) \in 0 .. n
    BY <1>2, <1>4, <2>1
  <2>3. Rank(S, q) \in 1 .. n
    BY <1>2, <2>2
  <2> DEFINE x == End(t, Rank(S, q))
  <2>4. x \in S /\ Rank(S, x) = Rank(S, q) /\ x \in 1 .. Len(t)
    BY <1>1, <1>3, <2>3
  <2> HIDE DEF x
  <2>5. ~ (x < q)
    BY <1>2, <1>4, <2>1, <2>4
  <2>6. ~ (q < x)
    BY <1>2, <1>4, <2>1, <2>4
  <2>7. x = q
    BY <2>1, <2>4, <2>5, <2>6
  <2>8. QED
    BY <2>3, <2>7 DEF x
<1>7. QED
  BY <1>1, <1>2, <1>3, <1>5, <1>6 DEF S, n


LEMMA LastStop ==
  ASSUME NEW t \in Seq(Token), NEW p \in 1 .. Len(t), t[p] = Stop
  PROVE  \E q \in Ends(t) : p <= q
<1> DEFINE S == {j \in 1 .. Len(t) : t[j] = Stop}
<1>1. Len(t) \in Nat /\ S \in SUBSET (1 .. Len(t)) /\ p \in S
  OBVIOUS
<1>2. \A j \in 1 .. Len(t) : j \in S <=> t[j] = Stop
  OBVIOUS
<1> HIDE DEF S
<1>3. Max(S) \in S /\ \A y \in S : y <= Max(S)
  BY <1>1, MinMax
<1>4. PICK m \in S : m = Max(S)
  BY <1>3
<1>5. m \in 1 .. Len(t) /\ t[m] = Stop /\ p <= m
  BY <1>1, <1>2, <1>3, <1>4
<1>6. m = Len(t) \/ t[m + 1] # Stop
  <2> SUFFICES ASSUME m # Len(t), t[m + 1] = Stop PROVE FALSE
    OBVIOUS
  <2>1. m + 1 \in S
    BY <1>1, <1>2, <1>5
  <2>2. m + 1 <= m
    BY <1>3, <1>4, <2>1
  <2>3. QED
    BY <1>5, <2>2
<1>7. QED
  BY <1>5, <1>6 DEF Ends

LEMMA BeginFacts ==
  ASSUME NEW t \in Seq(Token), NEW k \in 1 .. Cardinality(Ends(t))
  PROVE  /\ Begin(t, k) \in 1 .. Len(t) /\ Begin(t, k) <= End(t, k)
         /\ \A l \in 1 .. Cardinality(Ends(t)) :
              k < l => End(t, k) < Begin(t, l)
<1> DEFINE n == Cardinality(Ends(t))
<1>1. /\ n \in Nat /\ Len(t) \in Nat
      /\ \A i \in 1 .. n : End(t, i) \in 1 .. Len(t)
      /\ \A i, j \in 1 .. n : i < j => End(t, i) < End(t, j)
  BY EndsFacts
<1> HIDE DEF n
<1>2. k \in 1 .. n
  BY DEF n
<1>3. ASSUME NEW l \in 1 .. n, k < l
      PROVE  End(t, k) < Begin(t, l)
  <2>1. l # 1 /\ l - 1 \in 1 .. n /\ k <= l - 1
    BY <1>1, <1>2, <1>3
  <2>2. End(t, k) <= End(t, l - 1)
    BY <1>1, <1>2, <2>1
  <2>3. Begin(t, l) = End(t, l - 1) + 1
    BY <2>1 DEF Begin
  <2>4. End(t, k) \in 1 .. Len(t) /\ End(t, l - 1) \in 1 .. Len(t)
    BY <1>1, <1>2, <2>1
  <2>5. QED
    BY <2>2, <2>3, <2>4
<1>4. Begin(t, k) \in 1 .. Len(t) /\ Begin(t, k) <= End(t, k)
  <2>1. CASE k = 1
    BY <1>1, <1>2, <2>1 DEF Begin
  <2>2. CASE k # 1
    <3>1. k - 1 \in 1 .. n /\ k - 1 < k
      BY <1>1, <1>2, <2>2
    <3>2. /\ End(t, k - 1) < End(t, k)
          /\ End(t, k - 1) \in 1 .. Len(t) /\ End(t, k) \in 1 .. Len(t)
      BY <1>1, <1>2, <3>1
    <3>3. QED
      BY <2>2, <3>2 DEF Begin
  <2>3. QED
    BY <2>1, <2>2
<1>5. QED
  BY <1>3, <1>4 DEF n

\* A token with a stop at or after it is in a sentence that ends with a stop.
LEMMA InSentence ==
  ASSUME NEW t \in Seq(Token), NEW p \in 1 .. Len(t), NEW q \in Ends(t), p <= q
  PROVE  \E k \in 1 .. Cardinality(Ends(t)) : p \in Begin(t, k) .. End(t, k)
<1> DEFINE n == Cardinality(Ends(t))
           K == {k \in 1 .. n : p <= End(t, k)}
<1>1. /\ n \in Nat /\ Len(t) \in Nat
      /\ \A i \in 1 .. n : End(t, i) \in 1 .. Len(t)
      /\ \E k \in 1 .. n : End(t, k) = q
  BY EndsFacts
<1>2. K \in SUBSET (1 .. n) /\ K # {}
  BY <1>1
<1>3. \A k \in 1 .. n : k \in K <=> p <= End(t, k)
  OBVIOUS
<1> HIDE DEF K, n
<1>4. Min(K) \in K /\ \A y \in K : Min(K) <= y
  BY <1>1, <1>2, MinMax
<1>5. PICK k \in K : \A y \in K : k <= y
  BY <1>4
<1>6. k \in 1 .. n /\ p <= End(t, k)
  BY <1>2, <1>3, <1>5
<1>7. Begin(t, k) <= p
  <2>1. CASE k = 1
    BY <2>1 DEF Begin
  <2>2. CASE k # 1
    <3>1. k - 1 \in 1 .. n /\ ~ (k <= k - 1)
      BY <1>1, <1>6, <2>2
    <3>2. ~ (p <= End(t, k - 1))
      BY <1>3, <1>5, <3>1
    <3>3. End(t, k - 1) \in 1 .. Len(t)
      BY <1>1, <3>1
    <3>4. QED
      BY <2>2, <3>2, <3>3 DEF Begin
  <2>3. QED
    BY <2>1, <2>2
<1>8. Begin(t, k) \in Int /\ End(t, k) \in Int
  BY <1>1, <1>6, BeginFacts DEF n
<1>9. QED
  BY <1>6, <1>7, <1>8 DEF n

LEMMA RunFacts ==
  ASSUME NEW t \in Seq(Token), Run(t) # {}
  PROVE  /\ Min(Run(t)) \in 1 .. Len(t) /\ Len(t) \in 1 .. Len(t)
         /\ \A j \in Min(Run(t)) .. Len(t) : isWord(t[j])
         /\ \A p \in Run(t) : p \in Min(Run(t)) .. Len(t)
<1>1. Run(t) \in SUBSET (1 .. Len(t)) /\ Len(t) \in Nat
  BY DEF Run
<1>2. Min(Run(t)) \in Run(t) /\ \A y \in Run(t) : Min(Run(t)) <= y
  BY <1>1, MinMax
<1>3. \A j \in Min(Run(t)) .. Len(t) : isWord(t[j])
  BY <1>2 DEF Run
<1>4. QED
  BY <1>1, <1>2, <1>3

\* The sentences s of a text t are pieces of it, one after the other, from
\* b[k] to e[k].
Cut(t, s, b, e) ==
  /\ b \in [1 .. Len(s) -> 1 .. Len(t)] /\ e \in [1 .. Len(s) -> 1 .. Len(t)]
  /\ \A k \in 1 .. Len(s) : b[k] <= e[k] /\ s[k] = SubSeq(t, b[k], e[k])
  /\ \A k, l \in 1 .. Len(s) : k < l => e[k] < b[l]

\* A word at p is in a sentence: a stop follows, or nothing but its own end.
Covered(t, p) == \/ p \in Run(t)
                 \/ \E j \in DOMAIN t : p < j /\ t[j] = Stop

\* The cut is harmless, and there is something to speak.
Harmless(t) == \A p \in DOMAIN t : isWord(t[p]) => Covered(t, p)
Sayable(t)  == Contains(t, Stop) \/ Run(t) # {}

\* The k-th sentence that ends with a stop begins at c.
BeginsAt(t, k, c) ==
  /\ c \in Begin(t, k) .. End(t, k)
  /\ trim(t, Begin(t, k), End(t, k)) = SubSeq(t, c, End(t, k))
  /\ \A p \in Begin(t, k) .. End(t, k) :
       t[p] # Blank => p \in c .. End(t, k)

LEMMA SentenceBegins ==
  ASSUME NEW t \in Seq(Token), NEW k \in 1 .. Cardinality(Ends(t))
  PROVE  \E c : BeginsAt(t, k, c)
<1> PICK i, j : i = Begin(t, k) /\ j = End(t, k)
  OBVIOUS
<1>1. /\ i \in 1 .. Len(t) /\ j \in 1 .. Len(t) /\ i <= j /\ t[j] # Blank
  BY BeginFacts, EndsFacts, Tokens
<1>2. j \in i .. j
  BY <1>1
<1>3. PICK c, d \in i .. j :
        /\ c <= d /\ trim(t, i, j) = SubSeq(t, c, d)
        /\ \A p \in i .. j : t[p] # Blank => p \in c .. d
  <2>1. \/ /\ \A p \in i .. j : t[p] = Blank
           /\ trim(t, i, j) = <<>>
        \/ \E c, d \in i .. j :
             /\ c <= d /\ trim(t, i, j) = SubSeq(t, c, d)
             /\ \A p \in i .. j : t[p] # Blank => p \in c .. d
    BY <1>1, Trimmed
  <2>2. QED
    BY <1>1, <1>2, <2>1
<1>4. j \in c .. d
  BY <1>1, <1>2, <1>3
<1>5. d = j
  BY <1>1, <1>3, <1>4
<1>6. QED
  BY <1>3, <1>5 DEF BeginsAt

LEMMA SplitParts ==
  ASSUME NEW t \in Seq(Token)
  PROVE  LET s == splitSentences(t)
             n == Cardinality(Ends(t))
             r == IF Run(t) = {} THEN 0 ELSE 1
         IN /\ s \in Seq(Seq(Token)) /\ Len(s) = n + r
            /\ \A k \in 1 .. n : s[k] = trim(t, Begin(t, k), End(t, k))
            /\ Run(t) # {} => s[n + 1] = SubSeq(t, Min(Run(t)), Len(t))
<1> DEFINE n == Cardinality(Ends(t))
           r == IF Run(t) = {} THEN 0 ELSE 1
           closed == [k \in 1 .. n |-> trim(t, Begin(t, k), End(t, k))]
           tail == SubSeq(t, Min(Run(t)), Len(t))
           rest == IF Run(t) = {} THEN <<>> ELSE <<tail>>
<1>1. splitSentences(t) = closed \o rest
  BY DEF splitSentences, Begin, End
<1>2. n \in Nat
  BY EndsFacts
<1>3. \A k \in 1 .. n : trim(t, Begin(t, k), End(t, k)) \in Seq(Token)
  <2> SUFFICES ASSUME NEW k \in 1 .. n
               PROVE  trim(t, Begin(t, k), End(t, k)) \in Seq(Token)
    OBVIOUS
  <2>1. PICK c : BeginsAt(t, k, c)
    BY SentenceBegins
  <2>2. PICK i, j : i = Begin(t, k) /\ j = End(t, k)
    OBVIOUS
  <2>3. i \in 1 .. Len(t) /\ j \in 1 .. Len(t)
    BY <2>2, BeginFacts, EndsFacts
  <2>4. c \in 1 .. Len(t) /\ c <= j /\ trim(t, i, j) = SubSeq(t, c, j)
    BY <2>1, <2>2, <2>3 DEF BeginsAt
  <2>5. SubSeq(t, c, j) \in Seq(Token)
    BY <2>3, <2>4, SubSeqFacts
  <2>6. QED
    BY <2>2, <2>4, <2>5
<1>4. Run(t) # {} => tail \in Seq(Token)
  <2> SUFFICES ASSUME Run(t) # {} PROVE tail \in Seq(Token)
    OBVIOUS
  <2>1. PICK i, j : i = Min(Run(t)) /\ j = Len(t)
    OBVIOUS
  <2>2. i \in 1 .. Len(t) /\ j \in 1 .. Len(t) /\ i <= j
    BY <2>1, RunFacts
  <2>3. SubSeq(t, i, j) \in Seq(Token)
    BY <2>2, SubSeqFacts
  <2>4. QED
    BY <2>1, <2>3
<1>5. closed \in [1 .. n -> Seq(Token)]
  BY <1>3
<1>6. \A k \in 1 .. n : closed[k] = trim(t, Begin(t, k), End(t, k))
  OBVIOUS
<1> HIDE DEF closed, tail
<1>a. /\ rest \in Seq(Seq(Token)) /\ Len(rest) = r
      /\ Run(t) # {} => rest[1] = tail
  <2>1. CASE Run(t) = {}
    BY <2>1
  <2>2. CASE Run(t) # {}
    BY <1>4, <2>2
  <2>3. QED
    BY <2>1, <2>2
<1> HIDE DEF rest, n
<1>b. closed \in Seq(Seq(Token)) /\ Len(closed) = n
  BY <1>2, <1>5
<1>7. /\ closed \in Seq(Seq(Token)) /\ Len(closed) = n
      /\ rest \in Seq(Seq(Token)) /\ Len(rest) = r
      /\ Run(t) # {} => rest[1] = tail
  BY <1>a, <1>b
<1>8. PICK s : s = closed \o rest
  OBVIOUS
<1>9. /\ s \in Seq(Seq(Token)) /\ Len(s) = Len(closed) + Len(rest)
      /\ \A i \in 1 .. Len(closed) + Len(rest) :
           s[i] = IF i <= Len(closed) THEN closed[i]
                  ELSE rest[i - Len(closed)]
  <2>1. closed \in Seq(Seq(Token)) /\ rest \in Seq(Seq(Token))
    BY <1>7
  <2>2. QED
    BY <1>8, <2>1, ConcatProperties
<1>10. ASSUME NEW k \in 1 .. n
       PROVE  s[k] = trim(t, Begin(t, k), End(t, k))
  <2>1. k \in 1 .. Len(closed) + Len(rest) /\ k <= Len(closed)
    BY <1>2, <1>7
  <2>2. QED
    BY <1>6, <1>9, <2>1
<1>11. ASSUME Run(t) # {}
       PROVE  s[n + 1] = tail
  <2>1. PICK i : i = n + 1
    OBVIOUS
  <2>2. /\ i \in 1 .. Len(closed) + Len(rest) /\ ~ (i <= Len(closed))
        /\ i - Len(closed) = 1
    BY <1>2, <1>7, <1>11, <2>1
  <2>3. s[i] = rest[i - Len(closed)]
    BY <1>9, <2>2
  <2>4. QED
    BY <1>7, <1>11, <2>1, <2>2, <2>3
<1>12. QED
  BY <1>1, <1>7, <1>8, <1>9, <1>10, <1>11 DEF n, tail

LEMMA SplitCut ==
  ASSUME NEW t \in Seq(Token)
  PROVE  LET s == splitSentences(t)
         IN /\ s \in Seq(Seq(Token)) /\ Len(s) \in Nat
            /\ Sayable(t) => s # <<>>
            /\ \E b, e :
                 /\ Cut(t, s, b, e)
                 /\ \A p \in 1 .. Len(t) : isWord(t[p]) /\ Covered(t, p)
                      => \E k \in 1 .. Len(s) : p \in b[k] .. e[k]
                 /\ \A k \in 1 .. Len(s) :
                      Run(t) = {} \/ (k = 1 /\ Contains(t, Stop))
                        => t[e[k]] = Stop
<1> DEFINE n == Cardinality(Ends(t))
           r == IF Run(t) = {} THEN 0 ELSE 1
           m == Min(Run(t))
<1> PICK s : s = splitSentences(t)
  OBVIOUS
<1>1. /\ s \in Seq(Seq(Token)) /\ Len(s) = n + r
      /\ \A k \in 1 .. n : s[k] = trim(t, Begin(t, k), End(t, k))
      /\ Run(t) # {} => s[n + 1] = SubSeq(t, m, Len(t))
  BY SplitParts
<1>2. /\ n \in Nat /\ Len(t) \in Nat /\ DOMAIN t = 1 .. Len(t)
      /\ \A k \in 1 .. n : End(t, k) \in 1 .. Len(t) /\ t[End(t, k)] = Stop
  BY EndsFacts
<1>3. \A k \in 1 .. n :
        /\ Begin(t, k) \in 1 .. Len(t) /\ Begin(t, k) <= End(t, k)
        /\ \A l \in 1 .. n : k < l => End(t, k) < Begin(t, l)
  BY BeginFacts
<1>4. Run(t) # {} => /\ m \in 1 .. Len(t) /\ Len(t) \in 1 .. Len(t)
                     /\ \A j \in m .. Len(t) : isWord(t[j])
                     /\ \A p \in Run(t) : p \in m .. Len(t)
  BY RunFacts
<1>5. \A k \in 1 .. n : \E c : BeginsAt(t, k, c)
  BY SentenceBegins
<1>6. Contains(t, Stop) => n # 0
  <2> SUFFICES ASSUME Contains(t, Stop) PROVE n # 0
    OBVIOUS
  <2>1. PICK p \in 1 .. Len(t) : t[p] = Stop
    BY <1>2 DEF Contains
  <2>2. PICK q \in Ends(t) : p <= q
    BY <2>1, LastStop
  <2>3. \E k \in 1 .. n : p \in Begin(t, k) .. End(t, k)
    BY <2>2, InSentence
  <2>4. QED
    BY <1>2, <2>3
<1>7. \A p \in 1 .. Len(t) : \A j \in 1 .. Len(t) :
        p < j /\ t[j] = Stop
          => \E k \in 1 .. n : p \in Begin(t, k) .. End(t, k)
  <2> SUFFICES ASSUME NEW p \in 1 .. Len(t), NEW j \in 1 .. Len(t),
                      p < j, t[j] = Stop
               PROVE  \E k \in 1 .. n : p \in Begin(t, k) .. End(t, k)
    OBVIOUS
  <2>1. PICK q \in Ends(t) : j <= q
    BY LastStop
  <2>2. q \in Int
    BY EndsFacts
  <2>3. p <= q
    BY <2>1, <2>2
  <2>4. QED
    BY <2>3, InSentence
<1> DEFINE b == [k \in 1 .. n + r |-> IF k = n + 1 THEN m
                                      ELSE CHOOSE c : BeginsAt(t, k, c)]
           e == [k \in 1 .. n + r |-> IF k = n + 1 THEN Len(t) ELSE End(t, k)]
<1> HIDE DEF n, m
<1>8. /\ r \in {0, 1} /\ (r = 1 <=> Run(t) # {})
      /\ 1 .. Len(s) = 1 .. n + r
      /\ \A k \in 1 .. n + r : k \in 1 .. n \/ (k = n + 1 /\ r = 1)
      /\ \A k \in 1 .. n : k \in 1 .. n + r /\ k # n + 1
      /\ r = 1 => n + 1 \in 1 .. n + r
  BY <1>1, <1>2
<1> HIDE DEF r
<1>9. \A k \in 1 .. n : BeginsAt(t, k, b[k]) /\ e[k] = End(t, k)
  BY <1>5, <1>8
<1>10. r = 1 => b[n + 1] = m /\ e[n + 1] = Len(t)
  BY <1>8
<1>11. DOMAIN b = 1 .. n + r /\ DOMAIN e = 1 .. n + r
  OBVIOUS
<1>12. b = [k \in DOMAIN b |-> b[k]] /\ e = [k \in DOMAIN e |-> e[k]]
  OBVIOUS
<1> HIDE DEF b, e
<1>13. \A k \in 1 .. n :
         /\ b[k] \in 1 .. Len(t) /\ e[k] \in 1 .. Len(t)
         /\ Begin(t, k) <= b[k] /\ b[k] <= e[k] /\ t[e[k]] = Stop
         /\ s[k] = SubSeq(t, b[k], e[k])
         /\ \A p \in Begin(t, k) .. End(t, k) :
              t[p] # Blank => p \in b[k] .. e[k]
  <2> SUFFICES ASSUME NEW k \in 1 .. n
               PROVE  /\ b[k] \in 1 .. Len(t) /\ e[k] \in 1 .. Len(t)
                      /\ Begin(t, k) <= b[k] /\ b[k] <= e[k]
                      /\ t[e[k]] = Stop
                      /\ s[k] = SubSeq(t, b[k], e[k])
                      /\ \A p \in Begin(t, k) .. End(t, k) :
                           t[p] # Blank => p \in b[k] .. e[k]
    OBVIOUS
  <2>1. PICK i, j, c : i = Begin(t, k) /\ j = End(t, k) /\ c = b[k]
    OBVIOUS
  <2>2. i \in 1 .. Len(t) /\ j \in 1 .. Len(t) /\ e[k] = j /\ t[j] = Stop
    BY <1>2, <1>3, <1>9, <2>1
  <2>3. /\ c \in i .. j /\ trim(t, i, j) = SubSeq(t, c, j)
        /\ \A p \in i .. j : t[p] # Blank => p \in c .. j
    BY <1>9, <2>1 DEF BeginsAt
  <2>4. s[k] = SubSeq(t, c, j)
    BY <1>1, <2>1, <2>3
  <2>5. c \in 1 .. Len(t) /\ i <= c /\ c <= j
    BY <2>2, <2>3
  <2>6. QED
    BY <2>1, <2>2, <2>3, <2>4, <2>5
<1>14. b \in [1 .. Len(s) -> 1 .. Len(t)] /\ e \in [1 .. Len(s) -> 1 .. Len(t)]
  <2>1. \A k \in 1 .. n + r : b[k] \in 1 .. Len(t) /\ e[k] \in 1 .. Len(t)
    BY <1>4, <1>8, <1>10, <1>13
  <2>2. QED
    BY <1>8, <1>11, <1>12, <2>1
<1>15. \A k \in 1 .. Len(s) : b[k] <= e[k] /\ s[k] = SubSeq(t, b[k], e[k])
  <2>1. r = 1 => /\ b[n + 1] <= e[n + 1]
                 /\ s[n + 1] = SubSeq(t, b[n + 1], e[n + 1])
    BY <1>1, <1>4, <1>8, <1>10
  <2>2. ASSUME NEW k \in 1 .. Len(s)
        PROVE  b[k] <= e[k] /\ s[k] = SubSeq(t, b[k], e[k])
    <3>1. CASE k \in 1 .. n
      BY <1>13, <3>1
    <3>2. CASE k = n + 1 /\ r = 1
      BY <2>1, <3>2
    <3>3. QED
      BY <1>8, <3>1, <3>2
  <2>3. QED
    BY <2>2
<1>16. ASSUME NEW k \in 1 .. Len(s), NEW l \in 1 .. Len(s), k < l
       PROVE  e[k] < b[l]
  <2>1. k \in 1 .. n
    BY <1>2, <1>8, <1>16
  <2>2. CASE l \in 1 .. n
    <3>1. e[k] = End(t, k) /\ End(t, k) < Begin(t, l) /\ Begin(t, l) <= b[l]
      BY <1>3, <1>9, <1>13, <1>16, <2>1, <2>2
    <3>2. End(t, k) \in Int /\ Begin(t, l) \in Int /\ b[l] \in Int
      BY <1>2, <1>3, <1>13, <2>1, <2>2
    <3>3. QED
      BY <3>1, <3>2
  <2>3. CASE l = n + 1 /\ r = 1
    <3>1. b[l] = m /\ m \in 1 .. Len(t) /\ \A j \in m .. Len(t) : isWord(t[j])
      BY <1>4, <1>8, <1>10, <2>3
    <3>2. e[k] \in 1 .. Len(t) /\ t[e[k]] = Stop
      BY <1>13, <2>1
    <3>3. ~ (e[k] \in m .. Len(t))
      BY <3>1, <3>2, Tokens
    <3>4. QED
      BY <3>1, <3>2, <3>3
  <2>4. QED
    BY <1>8, <2>2, <2>3
<1>17. Cut(t, s, b, e)
  BY <1>14, <1>15, <1>16 DEF Cut
<1>18. ASSUME NEW p \in 1 .. Len(t), isWord(t[p]), Covered(t, p)
       PROVE  \E k \in 1 .. Len(s) : p \in b[k] .. e[k]
  <2>1. CASE p \in Run(t)
    <3>1. r = 1 /\ p \in m .. Len(t)
      BY <1>4, <1>8, <2>1
    <3>2. n + 1 \in 1 .. Len(s) /\ p \in b[n + 1] .. e[n + 1]
      BY <1>8, <1>10, <3>1
    <3>3. QED
      BY <3>2
  <2>2. CASE \E j \in DOMAIN t : p < j /\ t[j] = Stop
    <3>1. PICK k \in 1 .. n : p \in Begin(t, k) .. End(t, k)
      BY <1>2, <1>7, <2>2
    <3>2. t[p] # Blank
      BY <1>18, Tokens
    <3>3. p \in b[k] .. e[k] /\ k \in 1 .. Len(s)
      BY <1>8, <1>13, <3>1, <3>2
    <3>4. QED
      BY <3>3
  <2>3. QED
    BY <1>18, <2>1, <2>2 DEF Covered
<1>19. ASSUME NEW k \in 1 .. Len(s),
              Run(t) = {} \/ (k = 1 /\ Contains(t, Stop))
       PROVE  t[e[k]] = Stop
  <2>1. k \in 1 .. n
    BY <1>2, <1>6, <1>8, <1>19 DEF n
  <2>2. QED
    BY <1>13, <2>1
<1>20. Sayable(t) => s # <<>>
  <2>1. Sayable(t) => Len(s) # 0
    BY <1>1, <1>2, <1>6, <1>8 DEF Sayable, n
  <2>2. QED
    BY <1>1, <2>1
<1>21. Len(s) \in Nat
  BY <1>1
<1>22. QED
  BY <1>1, <1>17, <1>18, <1>19, <1>20, <1>21

-----------------------------------------------------------------------------
(* The words of a text *)

LEMMA WordsFacts ==
  ASSUME NEW t \in Seq(Token)
  PROVE  /\ IsFiniteSet(Words(t)) /\ Cardinality(Words(t)) \in Nat
         /\ \A i \in 1 .. Len(t) : /\ t[i] \in Token
                                   /\ isWord(t[i]) => t[i] \in Words(t)
         /\ \A w \in Words(t) : /\ w \in Nat /\ isWord(w)
                                /\ \E i \in 1 .. Len(t) : t[i] = w
<1>1. /\ Len(t) \in Nat /\ DOMAIN t = 1 .. Len(t)
      /\ \A i \in 1 .. Len(t) : t[i] \in Token
  OBVIOUS
<1> DEFINE T == {t[i] : i \in 1 .. Len(t)}
<1>2. IsFiniteSet(T)
  <2>1. IsFiniteSet(1 .. Len(t))
    BY <1>1, FS_Interval
  <2>2. [i \in 1 .. Len(t) |-> t[i]] \in Surjection(1 .. Len(t), T)
    BY DEF Surjection
  <2>3. QED
    BY <2>1, <2>2, FS_Surjection
<1>3. Words(t) = {x \in T : isWord(x)} /\ T \subseteq Token
  BY <1>1 DEF Words
<1> HIDE DEF T
<1>4. IsFiniteSet(Words(t)) /\ Cardinality(Words(t)) \in Nat
  <2>1. Words(t) \in SUBSET T
    BY <1>3
  <2>2. QED
    BY <1>2, <2>1, FS_Subset, FS_CardinalityType
<1>5. \A w \in Words(t) : w \in Nat
  BY <1>3, Tokens
<1>6. QED
  BY <1>1, <1>3, <1>4, <1>5 DEF T

\* The words of a chunk are the next numbers, in their order.
LEMMA NumberedFacts ==
  ASSUME NEW shape \in Shapes, NEW k \in Nat
  PROVE  LET new == Numbered(shape, k)
             W   == {i \in 1 .. Len(shape) : shape[i] = "w"}
         IN /\ new \in Seq(Token) /\ new # <<>> /\ Len(new) = Len(shape)
            /\ Len(shape) \in Nat \ {0} /\ DOMAIN shape = 1 .. Len(shape)
            /\ \A i \in 1 .. Len(shape) :
                 /\ isWord(new[i]) <=> shape[i] = "w"
                 /\ new[i] = Stop  <=> shape[i] = "."
                 /\ new[i] = Blank <=> shape[i] = "b"
            /\ \A i \in 1 .. Len(shape) :
                 isWord(new[i]) => new[i] \in k + 1 .. k + Cardinality(W)
            /\ \A i, j \in 1 .. Len(shape) :
                 isWord(new[i]) /\ isWord(new[j]) /\ i < j => new[i] < new[j]
            /\ Cardinality(W) \in Nat
            /\ Words(new) = k + 1 .. k + Cardinality(W)
<1> DEFINE new == Numbered(shape, k)
           W == {i \in 1 .. Len(shape) : shape[i] = "w"}
<1>1. /\ shape \in Seq({"w", ".", "b"}) /\ Len(shape) \in Nat \ {0}
      /\ DOMAIN shape = 1 .. Len(shape)
      /\ \A i \in 1 .. Len(shape) : shape[i] \in {"w", ".", "b"}
  <2>1. shape \in Seq({"w", ".", "b"})
    OBVIOUS
  <2>2. \E i \in DOMAIN shape : shape[i] # "b"
    BY ShapesAssumption
  <2>3. QED
    BY <2>1, <2>2
<1>2. /\ DOMAIN new = 1 .. Len(shape)
      /\ \A i \in 1 .. Len(shape) :
           /\ i \in W                     => new[i] = k + Rank(W, i)
           /\ i \notin W /\ shape[i] = "." => new[i] = Stop
           /\ i \notin W /\ shape[i] = "b" => new[i] = Blank
           /\ i \notin W => shape[i] \in {".", "b"}
  <2>1. new = [i \in 1 .. Len(shape) |->
                 CASE i \in W          -> k + Rank(W, i)
                   [] shape[i] = "." -> Stop
                   [] shape[i] = "b" -> Blank]
    BY <1>1 DEF Numbered
  <2>2. \A i \in W : shape[i] = "w"
    OBVIOUS
  <2>3. QED
    BY <1>1, <2>1, <2>2
<1>3. W \in SUBSET (1 .. Len(shape))
  OBVIOUS
<1>w. \A i \in 1 .. Len(shape) : i \in W <=> shape[i] = "w"
  OBVIOUS
<1> HIDE DEF new, W
<1>4. /\ Cardinality(W) \in Nat
      /\ \A i \in 1 .. Len(shape) : Rank(W, i) \in 0 .. Cardinality(W)
  BY <1>1, <1>3, RankType
<1>a. ASSUME NEW i \in 0 .. Len(shape), NEW j \in W, i < j
      PROVE  Rank(W, i) < Rank(W, j)
  <2>1. i \in Nat /\ j \in Nat /\ i <= j /\ Len(shape) \in Nat
    BY <1>1, <1>3, <1>a
  <2>2. QED
    BY <1>3, <1>a, <2>1, RankGrows
<1>5. \A i \in W : Rank(W, i) \in 1 .. Cardinality(W)
  <2> SUFFICES ASSUME NEW i \in W PROVE Rank(W, i) \in 1 .. Cardinality(W)
    OBVIOUS
  <2>1. 0 \in 0 .. Len(shape) /\ 0 < i /\ i \in 1 .. Len(shape)
    BY <1>1, <1>3
  <2>2. Rank(W, 0) < Rank(W, i)
    BY <1>a, <2>1
  <2>3. Rank(W, 0) \in 0 .. Cardinality(W)
    <3>1. 0 \in Nat /\ Len(shape) \in Nat
      BY <1>1
    <3>2. QED
      BY <1>3, <3>1, RankType
  <2>4. QED
    BY <1>4, <2>1, <2>2, <2>3
<1>6. \A i \in 1 .. Len(shape) :
        \/ i \in W /\ new[i] = k + Rank(W, i) /\ new[i] \in Nat \ {0}
        \/ i \notin W /\ shape[i] = "." /\ new[i] = Stop
        \/ i \notin W /\ shape[i] = "b" /\ new[i] = Blank
  BY <1>2, <1>5
<1>7. \A i \in 1 .. Len(shape) :
        /\ new[i] \in Token
        /\ isWord(new[i]) <=> i \in W
        /\ new[i] = Stop  <=> shape[i] = "."
        /\ new[i] = Blank <=> shape[i] = "b"
  <2>1. \A x \in Nat \ {0} : /\ x \in Token /\ isWord(x)
                            /\ x # Stop /\ x # Blank
    BY DEF Token, isWord, Stop, Blank
  <2>2. QED
    BY <1>6, <1>w, <2>1, Tokens
<1>8. new \in Seq(Token) /\ Len(new) = Len(shape) /\ new # <<>>
  <2>1. new \in [1 .. Len(shape) -> Token]
    <3>1. new = [i \in 1 .. Len(shape) |-> new[i]]
      BY <1>1 DEF Numbered, new
    <3>2. QED
      BY <1>7, <3>1
  <2>2. QED
    BY <1>1, <2>1
<1>9. \A i \in 1 .. Len(shape) : isWord(new[i]) <=> i \in W
  BY <1>7
<1>10. \A i \in 1 .. Len(shape) :
         isWord(new[i]) => new[i] \in k + 1 .. k + Cardinality(W)
  BY <1>4, <1>5, <1>6, <1>9
<1>11. ASSUME NEW i \in 1 .. Len(shape), NEW j \in 1 .. Len(shape),
              isWord(new[i]), isWord(new[j]), i < j
       PROVE  new[i] < new[j]
  <2>1. i \in W /\ j \in W /\ i \in 0 .. Len(shape)
    BY <1>9, <1>11
  <2>2. Rank(W, i) < Rank(W, j)
    BY <1>a, <1>11, <2>1
  <2>3. QED
    BY <1>4, <1>6, <2>1, <2>2
<1>12. Words(new) = k + 1 .. k + Cardinality(W)
  <2>1. ASSUME NEW w \in Words(new)
        PROVE  w \in k + 1 .. k + Cardinality(W)
    <3>1. PICK i \in 1 .. Len(new) : new[i] = w
      BY <1>8, WordsFacts
    <3>2. isWord(w)
      BY <1>8, WordsFacts
    <3>3. QED
      BY <1>8, <1>10, <3>1, <3>2
  <2>2. ASSUME NEW w \in k + 1 .. k + Cardinality(W)
        PROVE  w \in Words(new)
    <3>1. w - k \in 1 .. Cardinality(W)
      BY <1>4
    <3>2. PICK i \in W : Rank(W, i) = w - k
      BY <1>1, <1>3, <3>1, RankTaken
    <3>3. i \in 1 .. Len(shape) /\ new[i] = w
      BY <1>3, <1>6, <3>2
    <3>4. isWord(w)
      BY <1>4 DEF isWord
    <3>5. QED
      BY <1>8, <3>3, <3>4, WordsFacts
  <2>3. QED
    BY <2>1, <2>2
<1>13. QED
  BY <1>1, <1>4, <1>7, <1>8, <1>10, <1>11, <1>12, <1>w DEF new, W


-----------------------------------------------------------------------------
(* The order of the words *)

\* The words of a text come in their order.
Ascending(t) == \A i, j \in DOMAIN t :
                  i < j /\ isWord(t[i]) /\ isWord(t[j]) => t[i] < t[j]

\* All of S comes before all of T.
Below(S, T) == \A v \in S, w \in T : v < w

\* The sentences come in the order of their words.
Ordered(s) == \A k \in DOMAIN s :
                /\ Ascending(s[k])
                /\ \A l \in DOMAIN s : k < l => Below(Words(s[k]), Words(s[l]))

LEMMA SubWords ==
  ASSUME NEW t \in Seq(Token), NEW i \in 1 .. Len(t), NEW j \in 1 .. Len(t),
         i <= j
  PROVE  LET q == SubSeq(t, i, j)
         IN /\ q \in Seq(Token) /\ q # <<>> /\ Last(q) = t[j]
            /\ \A w \in Words(q) : isWord(w) /\ \E p \in i .. j : t[p] = w
            /\ \A p \in i .. j : isWord(t[p]) => t[p] \in Words(q)
            /\ Ascending(t) => Ascending(q)
<1> PICK q : q = SubSeq(t, i, j)
  OBVIOUS
<1>1. /\ q \in Seq(Token) /\ Len(q) = j - i + 1
      /\ \A k \in 1 .. j - i + 1 : q[k] = t[i + k - 1]
  BY SubSeqFacts
<1>2. /\ i \in Nat /\ j \in Nat /\ Len(t) \in Nat /\ DOMAIN q = 1 .. Len(q)
      /\ DOMAIN t = 1 .. Len(t) /\ Len(q) \in Nat /\ i >= 1 /\ j <= Len(t)
  BY <1>1
<1>3. q # <<>> /\ Last(q) = t[j]
  <2>1. Len(q) \in 1 .. j - i + 1 /\ i + Len(q) - 1 = j
    BY <1>1, <1>2
  <2>2. q[Len(q)] = t[j]
    BY <1>1, <2>1
  <2>3. QED
    BY <1>1, <2>1, <2>2 DEF Last
<1>4. ASSUME NEW w \in Words(q)
      PROVE  isWord(w) /\ \E p \in i .. j : t[p] = w
  <2>1. isWord(w) /\ \E k \in 1 .. Len(q) : q[k] = w
    BY <1>1, WordsFacts
  <2>2. PICK k \in 1 .. Len(q) : q[k] = w
    BY <2>1
  <2>3. k \in 1 .. j - i + 1
    BY <1>1, <2>2
  <2>4. i + k - 1 \in i .. j
    BY <1>2, <2>3
  <2>5. t[i + k - 1] = w
    BY <1>1, <2>2, <2>3
  <2>6. QED
    BY <2>1, <2>4, <2>5
<1>5. ASSUME NEW p \in i .. j, isWord(t[p])
      PROVE  t[p] \in Words(q)
  <2>1. p - i + 1 \in 1 .. j - i + 1 /\ i + (p - i + 1) - 1 = p
    BY <1>2
  <2>2. q[p - i + 1] = t[p] /\ p - i + 1 \in 1 .. Len(q)
    BY <1>1, <2>1
  <2>3. QED
    BY <1>1, <1>5, <2>2, WordsFacts
<1>6. ASSUME Ascending(t)
      PROVE  Ascending(q)
  <2> SUFFICES ASSUME NEW k \in 1 .. Len(q), NEW l \in 1 .. Len(q), k < l,
                      isWord(q[k]), isWord(q[l])
               PROVE  q[k] < q[l]
    BY <1>2 DEF Ascending
  <2>1. /\ i + k - 1 \in 1 .. Len(t) /\ i + l - 1 \in 1 .. Len(t)
        /\ i + k - 1 < i + l - 1
    BY <1>1, <1>2
  <2>2. q[k] = t[i + k - 1] /\ q[l] = t[i + l - 1]
    BY <1>1
  <2>3. QED
    BY <1>2, <1>6, <2>1, <2>2 DEF Ascending
<1>7. QED
  BY <1>1, <1>3, <1>4, <1>5, <1>6

(***************************************************************************)
(* The sentences of any text have only its words, in its order, and none   *)
(* is empty; one that ends with a stop comes first, if the text has a      *)
(* stop, and last, if a stop follows every word.  There is one, if the     *)
(* text has a stop or ends with a word.  All words of the text they have   *)
(* where the cut is harmless: where no white space follows a word after    *)
(* the last stop (server.ts:1092-1094).                                    *)
(***************************************************************************)
THEOREM SplitWords ==
  ASSUME NEW t \in Seq(Token)
  PROVE  LET s == splitSentences(t)
         IN /\ s \in Seq(Seq(Token)) /\ Len(s) \in Nat
            /\ DOMAIN s = 1 .. Len(s)
            /\ \A k \in 1 .. Len(s) : /\ s[k] \in Seq(Token) /\ s[k] # <<>>
                                      /\ Words(s[k]) \subseteq Words(t)
            /\ Ascending(t) => Ordered(s)
            /\ Sayable(t) => s # <<>>
            /\ Contains(t, Stop) => Last(s[1]) = Stop
            /\ Closed(t) /\ s # <<>> => Last(s[Len(s)]) = Stop
            /\ Harmless(t) => \A w \in Words(t) :
                 \E k \in 1 .. Len(s) : w \in Words(s[k])
<1> PICK s : s = splitSentences(t)
  OBVIOUS
<1>1. /\ s \in Seq(Seq(Token)) /\ Len(s) \in Nat
      /\ Sayable(t) => s # <<>>
      /\ \E b, e :
           /\ Cut(t, s, b, e)
           /\ \A p \in 1 .. Len(t) : isWord(t[p]) /\ Covered(t, p)
                => \E k \in 1 .. Len(s) : p \in b[k] .. e[k]
           /\ \A k \in 1 .. Len(s) :
                Run(t) = {} \/ (k = 1 /\ Contains(t, Stop))
                  => t[e[k]] = Stop
  BY SplitCut
<1>2. PICK b, e :
        /\ Cut(t, s, b, e)
        /\ \A p \in 1 .. Len(t) : isWord(t[p]) /\ Covered(t, p)
             => \E k \in 1 .. Len(s) : p \in b[k] .. e[k]
        /\ \A k \in 1 .. Len(s) :
             Run(t) = {} \/ (k = 1 /\ Contains(t, Stop))
               => t[e[k]] = Stop
  BY <1>1
<1>3. DOMAIN s = 1 .. Len(s) /\ (s # <<>> => Len(s) \in 1 .. Len(s))
  BY <1>1
<1>4. DOMAIN t = 1 .. Len(t) /\ Len(t) \in Nat
  OBVIOUS
<1>5. ASSUME NEW k \in 1 .. Len(s)
      PROVE  /\ b[k] \in 1 .. Len(t) /\ e[k] \in 1 .. Len(t)
             /\ s[k] \in Seq(Token) /\ s[k] # <<>> /\ Last(s[k]) = t[e[k]]
             /\ \A w \in Words(s[k]) :
                  isWord(w) /\ \E p \in b[k] .. e[k] : t[p] = w
             /\ \A p \in b[k] .. e[k] : isWord(t[p]) => t[p] \in Words(s[k])
             /\ Ascending(t) => Ascending(s[k])
  <2>1. /\ b[k] \in 1 .. Len(t) /\ e[k] \in 1 .. Len(t) /\ b[k] <= e[k]
        /\ s[k] = SubSeq(t, b[k], e[k])
    BY <1>2 DEF Cut
  <2>2. PICK i, j, q : i = b[k] /\ j = e[k] /\ q = s[k]
    OBVIOUS
  <2>3. /\ i \in 1 .. Len(t) /\ j \in 1 .. Len(t) /\ i <= j
        /\ q = SubSeq(t, i, j)
    BY <2>1, <2>2
  <2>4. /\ q \in Seq(Token) /\ q # <<>> /\ Last(q) = t[j]
        /\ \A w \in Words(q) : isWord(w) /\ \E p \in i .. j : t[p] = w
        /\ \A p \in i .. j : isWord(t[p]) => t[p] \in Words(q)
        /\ Ascending(t) => Ascending(q)
    BY <2>3, SubWords
  <2>5. QED
    BY <2>1, <2>2, <2>4
<1>6. ASSUME NEW k \in 1 .. Len(s)
      PROVE  Words(s[k]) \subseteq Words(t)
  <2> SUFFICES ASSUME NEW w \in Words(s[k]) PROVE w \in Words(t)
    OBVIOUS
  <2>1. PICK p \in b[k] .. e[k] : t[p] = w
    BY <1>5
  <2>2. p \in 1 .. Len(t) /\ isWord(w)
    BY <1>4, <1>5, <2>1
  <2>3. QED
    BY <2>1, <2>2, WordsFacts
<1>7. ASSUME Ascending(t), NEW k \in 1 .. Len(s), NEW l \in 1 .. Len(s), k < l
      PROVE  Below(Words(s[k]), Words(s[l]))
  <2> SUFFICES ASSUME NEW v \in Words(s[k]), NEW w \in Words(s[l])
               PROVE  v < w
    BY DEF Below
  <2>1. PICK p \in b[k] .. e[k] : t[p] = v
    BY <1>5
  <2>2. PICK q \in b[l] .. e[l] : t[q] = w
    BY <1>5
  <2>3. e[k] < b[l]
    BY <1>2, <1>7 DEF Cut
  <2>4. p \in 1 .. Len(t) /\ q \in 1 .. Len(t) /\ p < q
    <3>1. /\ b[k] \in 1 .. Len(t) /\ e[k] \in 1 .. Len(t)
          /\ b[l] \in 1 .. Len(t) /\ e[l] \in 1 .. Len(t)
      BY <1>5
    <3>2. PICK bk, ek, bl, el : bk = b[k] /\ ek = e[k] /\ bl = b[l] /\ el = e[l]
      OBVIOUS
    <3>3. /\ bk \in 1 .. Len(t) /\ ek \in 1 .. Len(t) /\ ek < bl
          /\ bl \in 1 .. Len(t) /\ el \in 1 .. Len(t)
          /\ p \in bk .. ek /\ q \in bl .. el
      BY <2>1, <2>2, <2>3, <3>1, <3>2
    <3>4. QED
      BY <1>4, <3>3
  <2>5. isWord(v) /\ isWord(w)
    BY <1>5
  <2>6. QED
    BY <1>4, <1>7, <2>1, <2>2, <2>4, <2>5 DEF Ascending
<1>8. Ascending(t) => Ordered(s)
  BY <1>3, <1>5, <1>7 DEF Ordered
<1>9. Contains(t, Stop) => Last(s[1]) = Stop
  <2> SUFFICES ASSUME Contains(t, Stop) PROVE Last(s[1]) = Stop
    OBVIOUS
  <2>1. 1 \in 1 .. Len(s)
    BY <1>1, <1>3 DEF Sayable
  <2>2. QED
    BY <1>2, <1>5, <2>1
<1>10. ASSUME Closed(t), s # <<>>
       PROVE  Last(s[Len(s)]) = Stop
  <2>1. Run(t) = {}
    <3> SUFFICES ASSUME NEW p \in Run(t) PROVE FALSE
      OBVIOUS
    <3>1. p \in 1 .. Len(t) /\ \A j \in p .. Len(t) : isWord(t[j])
      BY <1>4 DEF Run
    <3>2. p \in p .. Len(t)
      BY <1>4, <3>1
    <3>3. PICK j \in 1 .. Len(t) : p < j /\ t[j] = Stop
      BY <1>4, <1>10, <3>1, <3>2 DEF Closed
    <3>4. j \in p .. Len(t)
      BY <3>1, <3>3
    <3>5. QED
      BY <3>1, <3>3, <3>4, Tokens
  <2>2. QED
    BY <1>2, <1>3, <1>5, <1>10, <2>1
<1>11. ASSUME Harmless(t), NEW w \in Words(t)
       PROVE  \E k \in 1 .. Len(s) : w \in Words(s[k])
  <2>1. PICK p \in 1 .. Len(t) : t[p] = w
    BY WordsFacts
  <2>2. isWord(w)
    BY WordsFacts
  <2>3. Covered(t, p)
    BY <1>4, <1>11, <2>1, <2>2 DEF Harmless
  <2>4. PICK k \in 1 .. Len(s) : p \in b[k] .. e[k]
    BY <1>2, <2>1, <2>2, <2>3
  <2>5. QED
    BY <1>5, <2>1, <2>2, <2>4
<1>12. QED
  BY <1>1, <1>3, <1>5, <1>6, <1>8, <1>9, <1>10, <1>11

LEMMA ConcatWords ==
  ASSUME NEW t \in Seq(Token), NEW u \in Seq(Token), u # <<>>
  PROVE  /\ t \o u \in Seq(Token) /\ t \o u # <<>>
         /\ Words(t \o u) = Words(t) \union Words(u)
         /\ Ascending(t) /\ Ascending(u) /\ Below(Words(t), Words(u))
              => Ascending(t \o u)
         /\ Contains(t \o u, Stop) <=> Contains(t, Stop) \/ Contains(u, Stop)
         /\ Len(t \o u) = Len(t) + Len(u)
         /\ Len(t) \in Nat /\ Len(u) \in Nat \ {0}
         /\ \A i \in 1 .. Len(t) : (t \o u)[i] = t[i]
         /\ \A i \in 1 .. Len(u) : (t \o u)[Len(t) + i] = u[i]
<1> PICK c : c = t \o u
  OBVIOUS
<1>1. /\ c \in Seq(Token) /\ Len(c) = Len(t) + Len(u)
      /\ Len(t) \in Nat /\ Len(u) \in Nat \ {0}
      /\ \A i \in 1 .. Len(t) : c[i] = t[i]
      /\ \A i \in 1 .. Len(u) : c[Len(t) + i] = u[i]
  <2>1. Len(u) \in Nat /\ Len(u) # 0 /\ Len(t) \in Nat /\ c \in Seq(Token)
    OBVIOUS
  <2>2. Len(c) = Len(t) + Len(u)
    OBVIOUS
  <2>3. \A i \in 1 .. Len(t) + Len(u) :
          c[i] = IF i <= Len(t) THEN t[i] ELSE u[i - Len(t)]
    BY ConcatProperties
  <2>4. ASSUME NEW i \in 1 .. Len(t)
        PROVE  c[i] = t[i]
    BY <2>1, <2>3
  <2>5. ASSUME NEW i \in 1 .. Len(u)
        PROVE  c[Len(t) + i] = u[i]
    <3>1. /\ Len(t) + i \in 1 .. Len(t) + Len(u) /\ ~ (Len(t) + i <= Len(t))
          /\ (Len(t) + i) - Len(t) = i
      BY <2>1
    <3>2. QED
      BY <2>3, <3>1
  <2>6. QED
    BY <2>1, <2>2, <2>4, <2>5
<1>2. ASSUME NEW i \in 1 .. Len(c)
      PROVE  \/ i \in 1 .. Len(t) /\ c[i] = t[i]
             \/ i - Len(t) \in 1 .. Len(u) /\ c[i] = u[i - Len(t)]
  <2>1. CASE i <= Len(t)
    BY <1>1, <2>1
  <2>2. CASE ~ (i <= Len(t))
    <3>1. i - Len(t) \in 1 .. Len(u) /\ Len(t) + (i - Len(t)) = i
      BY <1>1, <2>2
    <3>2. QED
      BY <1>1, <3>1
  <2>3. QED
    BY <2>1, <2>2
<1>3. Words(c) = Words(t) \union Words(u)
  <2>1. ASSUME NEW w \in Words(c)
        PROVE  w \in Words(t) \union Words(u)
    <3>1. PICK i \in 1 .. Len(c) : c[i] = w
      BY <1>1, WordsFacts
    <3>2. isWord(w)
      BY <1>1, WordsFacts
    <3>3. CASE i \in 1 .. Len(t) /\ c[i] = t[i]
      BY <3>1, <3>2, <3>3, WordsFacts
    <3>4. CASE i - Len(t) \in 1 .. Len(u) /\ c[i] = u[i - Len(t)]
      BY <3>1, <3>2, <3>4, WordsFacts
    <3>5. QED
      BY <1>2, <3>3, <3>4
  <2>2. ASSUME NEW w \in Words(t)
        PROVE  w \in Words(c)
    <3>1. PICK i \in 1 .. Len(t) : t[i] = w
      BY WordsFacts
    <3>2. i \in 1 .. Len(c) /\ c[i] = w /\ isWord(w)
      BY <1>1, <3>1, WordsFacts
    <3>3. QED
      BY <1>1, <3>2, WordsFacts
  <2>3. ASSUME NEW w \in Words(u)
        PROVE  w \in Words(c)
    <3>1. PICK i \in 1 .. Len(u) : u[i] = w
      BY WordsFacts
    <3>2. Len(t) + i \in 1 .. Len(c) /\ c[Len(t) + i] = w /\ isWord(w)
      BY <1>1, <3>1, WordsFacts
    <3>3. QED
      BY <1>1, <3>2, WordsFacts
  <2>4. QED
    BY <2>1, <2>2, <2>3
<1>4. ASSUME Ascending(t), Ascending(u), Below(Words(t), Words(u))
      PROVE  Ascending(c)
  <2>0. DOMAIN c = 1 .. Len(c)
    BY <1>1
  <2> SUFFICES ASSUME NEW i \in 1 .. Len(c), NEW j \in 1 .. Len(c), i < j,
                      isWord(c[i]), isWord(c[j])
               PROVE  c[i] < c[j]
    BY <2>0 DEF Ascending
  <2>1. CASE /\ i \in 1 .. Len(t) /\ c[i] = t[i]
             /\ j \in 1 .. Len(t) /\ c[j] = t[j]
    BY <1>4, <2>1 DEF Ascending
  <2>2. CASE /\ i \in 1 .. Len(t) /\ c[i] = t[i]
             /\ j - Len(t) \in 1 .. Len(u) /\ c[j] = u[j - Len(t)]
    <3>1. c[i] \in Words(t) /\ c[j] \in Words(u)
      BY <2>2, WordsFacts
    <3>2. QED
      BY <1>4, <3>1 DEF Below
  <2>3. CASE /\ i - Len(t) \in 1 .. Len(u) /\ c[i] = u[i - Len(t)]
             /\ j - Len(t) \in 1 .. Len(u) /\ c[j] = u[j - Len(t)]
    <3>1. i - Len(t) < j - Len(t)
      BY <1>1
    <3>2. QED
      BY <1>4, <2>3, <3>1 DEF Ascending
  <2>4. CASE i - Len(t) \in 1 .. Len(u) /\ j \in 1 .. Len(t)
    BY <1>1, <2>4
  <2>5. QED
    BY <1>2, <2>1, <2>2, <2>3, <2>4
<1>5. c # <<>>
  <2>1. Len(c) # 0
    BY <1>1
  <2>2. QED
    BY <1>1, <2>1
<1>6. Contains(c, Stop) <=> Contains(t, Stop) \/ Contains(u, Stop)
  <2>0. /\ DOMAIN c = 1 .. Len(c) /\ DOMAIN t = 1 .. Len(t)
        /\ DOMAIN u = 1 .. Len(u)
    BY <1>1
  <2>1. Contains(c, Stop) => Contains(t, Stop) \/ Contains(u, Stop)
    BY <1>2, <2>0 DEF Contains
  <2>2. ASSUME NEW i \in 1 .. Len(t), t[i] = Stop
        PROVE  Contains(c, Stop)
    <3>1. i \in 1 .. Len(c) /\ c[i] = Stop
      BY <1>1, <2>2
    <3>2. QED
      BY <2>0, <3>1 DEF Contains
  <2>3. ASSUME NEW i \in 1 .. Len(u), u[i] = Stop
        PROVE  Contains(c, Stop)
    <3>1. Len(t) + i \in 1 .. Len(c) /\ c[Len(t) + i] = Stop
      BY <1>1, <2>3
    <3>2. QED
      BY <2>0, <3>1 DEF Contains
  <2>4. QED
    BY <2>0, <2>1, <2>2, <2>3 DEF Contains
<1>7. QED
  BY <1>1, <1>3, <1>4, <1>5, <1>6

LEMMA NoWords == Words(<<>>) = {} /\ Ascending(<<>>)
BY DEF Words, Ascending

LEMMA OneWord ==
  ASSUME NEW x \in Nat
  PROVE  Words(<<x>>) \subseteq {x} /\ Ascending(<<x>>)
<1>1. DOMAIN <<x>> = {1} /\ <<x>>[1] = x
  OBVIOUS
<1>2. QED
  BY <1>1 DEF Words, Ascending

\* A trimmed text has the words of the text.
LEMMA TrimWords ==
  ASSUME NEW t \in Seq(Token)
  PROVE  LET q == trim(t, 1, Len(t))
         IN q \in Seq(Token) /\ Words(q) = Words(t)
<1>0. Len(t) \in Nat
  OBVIOUS
<1>1. CASE Len(t) = 0
  <2>1. 1 .. Len(t) = {}
    BY <1>1
  <2>2. trim(t, 1, Len(t)) = <<>>
    BY <2>1 DEF trim
  <2>3. t = <<>> /\ <<>> \in Seq(Token)
    BY <1>1
  <2>4. QED
    BY <2>2, <2>3
<1>2. CASE Len(t) # 0
  <2>1. 1 \in 1 .. Len(t) /\ Len(t) \in 1 .. Len(t)
    BY <1>0, <1>2
  <2>2. CASE /\ \A p \in 1 .. Len(t) : t[p] = Blank
             /\ trim(t, 1, Len(t)) = <<>>
    <3>1. Words(t) = {}
      BY <2>2, WordsFacts, Tokens
    <3>2. <<>> \in Seq(Token)
      OBVIOUS
    <3>3. QED
      BY <2>2, <3>1, <3>2, NoWords
  <2>3. ASSUME NEW c \in 1 .. Len(t), NEW d \in 1 .. Len(t),
               c <= d, trim(t, 1, Len(t)) = SubSeq(t, c, d),
               \A p \in 1 .. Len(t) : t[p] # Blank => p \in c .. d
        PROVE  /\ trim(t, 1, Len(t)) \in Seq(Token)
               /\ Words(trim(t, 1, Len(t))) = Words(t)
    <3> PICK q : q = SubSeq(t, c, d)
      OBVIOUS
    <3>1. /\ q \in Seq(Token)
          /\ \A w \in Words(q) : isWord(w) /\ \E p \in c .. d : t[p] = w
          /\ \A p \in c .. d : isWord(t[p]) => t[p] \in Words(q)
      BY <2>3, SubWords
    <3>2. ASSUME NEW w \in Words(q)
          PROVE  w \in Words(t)
      <4>1. isWord(w) /\ \E p \in 1 .. Len(t) : t[p] = w
        BY <1>0, <3>1
      <4>2. QED
        BY <4>1, WordsFacts
    <3>3. ASSUME NEW w \in Words(t)
          PROVE  w \in Words(q)
      <4>1. PICK p \in 1 .. Len(t) : t[p] = w
        BY WordsFacts
      <4>2. isWord(w) /\ w # Blank
        BY WordsFacts, Tokens
      <4>3. QED
        BY <2>3, <3>1, <4>1, <4>2
    <3>4. QED
      BY <2>3, <3>1, <3>2, <3>3
  <2>4. QED
    BY <2>1, <2>2, <2>3, Trimmed
<1>3. QED
  BY <1>1, <1>2

-----------------------------------------------------------------------------
(* Types *)

\* A flush ends with its last complete sentence, and a fixed text has words.
TypeInv == /\ TypeOK
           /\ pc = "flush" => next <= completeCount /\ sentences # <<>>
           /\ decision = "fixed" => answer # <<>>

LEMMA InitType == Init => TypeInv
<1> SUFFICES ASSUME Init PROVE TypeInv
  OBVIOUS
<1>1. /\ text \in Seq(Token) /\ textBuffer \in Seq(Token)
      /\ answer \in Seq(Token)
      /\ sentences \in Seq(Seq(Token)) /\ Len(sentences) = 0
  BY DEF Init
<1>2. audio \in Seq(Message)
  BY DEF Init
<1>3. next \in 1 .. Len(sentences) + 1 /\ chunks \in 0 .. MaxChunks
  BY <1>1 DEF Init
<1>4. QED
  BY <1>1, <1>2, <1>3 DEF Init, TypeInv, TypeOK, Control, Decisions

\* A fixed text: the words after those that were streamed.
LEMMA UnstreamedFacts ==
  ASSUME TypeOK, NEW n \in Nat \ {0}
  PROVE  /\ Unstreamed(n) \in Seq(Token) /\ Unstreamed(n) # <<>>
         /\ Len(Unstreamed(n)) = n /\ Cardinality(Words(text)) \in Nat
         /\ \A i \in 1 .. n : Unstreamed(n)[i] = Cardinality(Words(text)) + i
<1>1. Cardinality(Words(text)) \in Nat
  BY WordsFacts DEF TypeOK
<1>2. \A i \in 1 .. n : Cardinality(Words(text)) + i \in Nat
  BY <1>1
<1>3. Unstreamed(n) \in [1 .. n -> Token]
  BY <1>2, Tokens DEF Unstreamed
<1>4. Unstreamed(n) \in Seq(Token) /\ Len(Unstreamed(n)) = n
  BY <1>3
<1>5. QED
  BY <1>1, <1>4 DEF Unstreamed

LEMMA SentType ==
  ASSUME TypeOK, NEW s \in Seq(Token), NEW last \in BOOLEAN,
         ttsAndSend(s, last) \/ generated(s, last) \/ failed
  PROVE  audio' \in Seq(Message) /\ ttsFailed' \in BOOLEAN
<1>1. speech(s, last) \in Message
  BY DEF speech, Message
<1>2. audio \in Seq(Message) /\ Append(audio, speech(s, last)) \in Seq(Message)
  BY <1>1 DEF TypeOK
<1>3. QED
  BY <1>2 DEF TypeOK, ttsAndSend, generated, failed, send

\* What a chunk does.
LEMMA ChunkFacts ==
  ASSUME TypeOK, NEW shape \in Shapes, Chunk(shape)
  PROVE  \E new, buffer, split :
           /\ new = Numbered(shape, Cardinality(Words(text)))
           /\ new \in Seq(Token) /\ new # <<>>
           /\ buffer = textBuffer \o new /\ buffer \in Seq(Token)
           /\ buffer # <<>>
           /\ split = splitSentences(buffer)
           /\ split \in Seq(Seq(Token)) /\ Len(split) \in Nat
           /\ Contains(new, Stop) => split # <<>> /\ Contains(buffer, Stop)
           /\ pc = "stream" /\ chunks < MaxChunks /\ chunks' = chunks + 1
           /\ text' = text \o new /\ text' \in Seq(Token)
           /\ tidy' = (tidy /\ Tidy(shape))
           /\ \/ /\ ~ Contains(new, Stop)
                 /\ textBuffer' = buffer /\ UNCHANGED <<pc, flush>>
              \/ /\ Contains(new, Stop) /\ Len(split) = 1
                 /\ textBuffer' = Last(split) /\ UNCHANGED <<pc, flush>>
              \/ /\ Contains(new, Stop) /\ Len(split) > 1
                 /\ textBuffer' = buffer /\ pc' = "flush"
                 /\ sentences' = split /\ next' = 1 /\ finalFlush' = FALSE
           /\ UNCHANGED <<verdict, audio, ttsFailed, voice>>
<1>1. PICK new : new = Numbered(shape, Cardinality(Words(text)))
  OBVIOUS
<1>2. PICK buffer : buffer = textBuffer \o new
  OBVIOUS
<1>3. PICK split : split = splitSentences(buffer)
  OBVIOUS
<1>4. /\ text \in Seq(Token) /\ textBuffer \in Seq(Token)
      /\ Cardinality(Words(text)) \in Nat
  BY WordsFacts DEF TypeOK
<1>5. new \in Seq(Token) /\ new # <<>>
  BY <1>1, <1>4, NumberedFacts
<1>6. /\ buffer \in Seq(Token) /\ buffer # <<>> /\ text \o new \in Seq(Token)
      /\ Contains(new, Stop) => Contains(buffer, Stop)
  BY <1>2, <1>4, <1>5, ConcatWords
<1>7. /\ split \in Seq(Seq(Token)) /\ Len(split) \in Nat
      /\ Contains(buffer, Stop) => split # <<>>
  BY <1>3, <1>6, SplitWords, SplitCut DEF Sayable
<1>8. /\ pc = "stream" /\ chunks < MaxChunks /\ chunks' = chunks + 1
      /\ text' = text \o new
      /\ tidy' = (tidy /\ Tidy(shape))
      /\ \/ /\ ~ Contains(new, Stop)
            /\ textBuffer' = buffer /\ UNCHANGED <<pc, flush>>
         \/ /\ Contains(new, Stop) /\ Len(split) = 1
            /\ textBuffer' = Last(split) /\ UNCHANGED <<pc, flush>>
         \/ /\ Contains(new, Stop) /\ Len(split) > 1
            /\ textBuffer' = buffer /\ pc' = "flush"
            /\ sentences' = split /\ next' = 1 /\ finalFlush' = FALSE
      /\ UNCHANGED <<verdict, audio, ttsFailed, voice>>
  BY <1>1, <1>2, <1>3 DEF Chunk
<1>9. QED
  BY <1>1, <1>2, <1>3, <1>5, <1>6, <1>7, <1>8

LEMMA ChunkType ==
  ASSUME TypeInv, NEW shape \in Shapes, Chunk(shape)
  PROVE  TypeInv'
<1>1. PICK buffer, split :
        /\ buffer \in Seq(Token)
        /\ split \in Seq(Seq(Token)) /\ Len(split) \in Nat
        /\ pc = "stream" /\ chunks < MaxChunks /\ chunks' = chunks + 1
        /\ text' \in Seq(Token) /\ tidy' = (tidy /\ Tidy(shape))
        /\ \/ textBuffer' = buffer /\ UNCHANGED <<pc, flush>>
           \/ /\ split # <<>> /\ textBuffer' = Last(split)
              /\ UNCHANGED <<pc, flush>>
           \/ /\ Len(split) > 1 /\ textBuffer' = buffer /\ pc' = "flush"
              /\ sentences' = split /\ next' = 1 /\ finalFlush' = FALSE
        /\ UNCHANGED <<verdict, audio, ttsFailed, voice>>
  BY ChunkFacts DEF TypeInv
<1>2. split # <<>> => Last(split) \in Seq(Token)
  BY <1>1 DEF Last
<1>3. chunks' \in 0 .. MaxChunks /\ tidy' \in BOOLEAN
  BY <1>1 DEF TypeInv, TypeOK, Tidy
<1>4. /\ textBuffer' \in Seq(Token)
      /\ pc' \in Control /\ sentences' \in Seq(Seq(Token))
      /\ next' \in 1 .. Len(sentences') + 1 /\ finalFlush' \in BOOLEAN
      /\ pc' = "prompt" => next' <= Len(sentences')
      /\ pc' = "flush" => next' <= completeCount' /\ sentences' # <<>>
  <2>1. CASE UNCHANGED <<pc, flush>>
    BY <1>1, <1>2, <2>1 DEF TypeInv, TypeOK, flush, completeCount, Control
  <2>2. CASE /\ Len(split) > 1 /\ textBuffer' = buffer /\ pc' = "flush"
             /\ sentences' = split /\ next' = 1 /\ finalFlush' = FALSE
    <3>1. textBuffer' \in Seq(Token) /\ pc' \in Control /\ pc' = "flush"
      BY <1>1, <2>2 DEF Control
    <3>2. sentences' \in Seq(Seq(Token)) /\ sentences' # <<>>
      BY <1>1, <2>2
    <3>3. next' \in 1 .. Len(sentences') + 1 /\ next' <= Len(sentences') - 1
      BY <1>1, <2>2
    <3>4. finalFlush' = FALSE /\ next' <= completeCount'
      BY <2>2, <3>3 DEF completeCount
    <3>5. QED
      BY <3>1, <3>2, <3>3, <3>4
  <2>3. QED
    BY <1>1, <2>1, <2>2
<1>5. QED
  BY <1>1, <1>3, <1>4 DEF TypeInv, TypeOK, verdict

LEMMA StepType == TypeInv /\ [Next]_vars => TypeInv'
<1> SUFFICES ASSUME TypeInv, [Next]_vars PROVE TypeInv'
  OBVIOUS
<1>1. CASE UNCHANGED vars
  BY <1>1 DEF TypeInv, TypeOK, vars, completeCount
<1>2. CASE \E shape \in Shapes : Chunk(shape)
  BY <1>2, ChunkType
<1>3. CASE \E n \in 1 .. MaxPieces : DecideFixed(n)
  <2>1. PICK n \in 1 .. MaxPieces : DecideFixed(n)
    BY <1>3
  <2>2. Unstreamed(n) \in Seq(Token) /\ Unstreamed(n) # <<>>
    BY UnstreamedFacts DEF TypeInv
  <2>3. QED
    BY <2>1, <2>2 DEF DecideFixed, Decide, TypeInv, TypeOK, stream, flush,
                      Control, Decisions
<1>4. CASE Respond
  <2>1. trim(text, 1, Len(text)) \in Seq(Token)
    BY TrimWords DEF TypeInv, TypeOK
  <2>2. QED
    BY <1>4, <2>1 DEF Respond, Decide, TypeInv, TypeOK, stream, flush,
                      Control, Decisions
<1>5. CASE RespondAtOnce
  <2>1. Append(Unstreamed(1), Stop) \in Seq(Token)
    <3>1. Unstreamed(1) \in Seq(Token)
      BY UnstreamedFacts DEF TypeInv
    <3>2. QED
      BY <3>1, Tokens
  <2>2. QED
    BY <1>5, <2>1 DEF RespondAtOnce, Decide, TypeInv, TypeOK, stream, flush,
                      Control, Decisions
<1>6. CASE NoResult
  BY <1>6 DEF NoResult, TypeInv, TypeOK, stream, flush, Control
<1>7. CASE Flush
  <2>0. /\ next \in 1 .. Len(sentences) /\ sentences \in Seq(Seq(Token))
        /\ completeCount \in Nat /\ next <= completeCount
        /\ completeCount <= Len(sentences)
    BY <1>7 DEF Flush, TypeInv, TypeOK, completeCount
  <2>1. /\ sentences[next] \in Seq(Token) /\ Last(sentences) \in Seq(Token)
        /\ (finalFlush /\ next = Len(sentences)) \in BOOLEAN
    BY <2>0 DEF Last, TypeInv, TypeOK
  <2>2. audio' \in Seq(Message) /\ ttsFailed' \in BOOLEAN
    BY <1>7, <2>1, SentType DEF Flush, TypeInv
  <2>3. textBuffer' \in Seq(Token)
    <3>1. textBuffer \in Seq(Token) /\ <<>> \in Seq(Token)
      BY DEF TypeInv, TypeOK
    <3>2. textBuffer' \in {textBuffer, <<>>, Last(sentences)}
      BY <1>7 DEF Flush
    <3>3. QED
      BY <2>1, <3>1, <3>2
  <2>4. /\ pc' \in Control /\ pc' # "prompt"
        /\ next' \in 1 .. Len(sentences) + 1
        /\ pc' = "flush" => next' <= completeCount
    BY <1>7, <2>0 DEF Flush, Control
  <2>5. QED
    BY <1>7, <2>2, <2>3, <2>4 DEF Flush, TypeInv, TypeOK, completeCount,
                                  stream, verdict
<1>8. CASE FlushRest
  <2>1. PICK split : split = splitSentences(textBuffer)
    OBVIOUS
  <2>2. split \in Seq(Seq(Token)) /\ Len(split) \in Nat
    BY <2>1, SplitCut DEF TypeInv, TypeOK
  <2>3. /\ UNCHANGED <<stream, verdict, textBuffer, audio, ttsFailed, voice>>
        /\ \/ /\ split # <<>> /\ pc' = "flush" /\ sentences' = split
              /\ next' = 1 /\ finalFlush' = TRUE
           \/ pc' = "mark" /\ UNCHANGED flush
    BY <1>8, <2>1 DEF FlushRest
  <2>4. CASE pc' = "mark" /\ UNCHANGED flush
    BY <2>3, <2>4 DEF TypeInv, TypeOK, flush, stream, verdict, Control
  <2>5. CASE /\ split # <<>> /\ pc' = "flush" /\ sentences' = split
             /\ next' = 1 /\ finalFlush' = TRUE
    <3>1. Len(split) \in Nat \ {0}
      BY <2>2, <2>5
    <3>2. QED
      BY <2>2, <2>3, <2>5, <3>1 DEF TypeInv, TypeOK, completeCount, stream,
                                    verdict, Control
  <2>6. QED
    BY <2>3, <2>4, <2>5
<1>9. CASE StartPrompt
  <2>1. answer \in Seq(Token) /\ answer # <<>>
    BY <1>9 DEF StartPrompt, TypeInv, TypeOK
  <2>2. /\ sentences' \in [1 .. Len(answer) -> Seq(Token)]
        /\ Len(answer) \in Nat \ {0}
    BY <1>9, <2>1 DEF StartPrompt
  <2>3. /\ sentences' \in Seq(Seq(Token)) /\ Len(sentences') \in Nat \ {0}
    BY <2>2
  <2>4. QED
    BY <1>9, <2>3 DEF StartPrompt, TypeInv, TypeOK, stream, verdict, Control
<1>10. CASE Piece
  <2>0. /\ next \in 1 .. Len(sentences) /\ sentences \in Seq(Seq(Token))
        /\ Len(sentences) \in Nat
    BY <1>10 DEF Piece, TypeInv, TypeOK
  <2>1. sentences[next] \in Seq(Token)
    BY <2>0
  <2>2. generated(sentences[next], FALSE) \/ failed
    BY <1>10 DEF Piece
  <2>3. audio' \in Seq(Message) /\ ttsFailed' \in BOOLEAN
    BY <2>1, <2>2, SentType DEF TypeInv
  <2>4. /\ next' \in 1 .. Len(sentences) /\ pc' \in Control /\ pc' # "flush"
    <3>1. \/ pc' = "prompt" /\ next < Len(sentences) /\ next' = next + 1
          \/ pc' \in {"mark", "complete"} /\ next' = next
      BY <1>10 DEF Piece
    <3>2. QED
      BY <2>0, <3>1 DEF Control
  <2>5. QED
    BY <1>10, <2>3, <2>4 DEF Piece, TypeInv, TypeOK, stream, verdict
<1>11. marker \in Message /\ textFallback \in Message
  <2>1. <<>> \in Seq(Token)
    OBVIOUS
  <2>2. QED
    BY <2>1 DEF marker, textFallback, Message
<1>12. CASE NothingToSpeak
  BY <1>11, <1>12 DEF NothingToSpeak, send, TypeInv, TypeOK, stream, verdict,
                      flush, Control
<1>13. CASE Mark
  BY <1>11, <1>13 DEF Mark, send, TypeInv, TypeOK, stream, verdict, flush,
                      Control
<1>14. CASE SendText
  BY <1>11, <1>14 DEF SendText, send, TypeInv, TypeOK, stream, verdict, flush,
                      Control
<1>15. QED
  BY <1>1, <1>2, <1>3, <1>4, <1>5, <1>6, <1>7, <1>8, <1>9, <1>10, <1>12, <1>13,
     <1>14 DEF Next, Speak

(***************************************************************************)
(* Every variable of a turn keeps its type; the sentence a flush or a      *)
(* fixed text speaks next always exists (server.ts:1136-1154, 1374-1426).  *)
(***************************************************************************)
THEOREM TypeCorrect == Spec => []TypeOK
<1>1. TypeInv => TypeOK
  BY DEF TypeInv
<1>2. QED
  BY InitType, StepType, <1>1, PTL DEF Spec

-----------------------------------------------------------------------------
(* How a turn's audio ends *)

\* The end marker ends the audio, and the turn.
MarkerLast == \A i \in DOMAIN audio :
                audio[i].kind = "marker" => pc = "complete" /\ i = Len(audio)

\* Nothing is decided while the stream goes on.
Undecided == pc = "stream" \/ (pc = "flush" /\ ~ finalFlush)
               => decision = "none" /\ answer = <<>>

\* What speaks the end of an answer has a voice.
Voiced == pc \in {"prompt", "mark"} \/ (pc = "flush" /\ finalFlush) => voice

\* The voice works, and nothing was spoken yet.
Silent == voice /\ ~ ttsFailed /\ audio = <<>>

\* Something is left to speak of a text: in the buffer, or as the last
\* sentence of a flush.  While nothing was spoken, what makes the text
\* sayable is in the buffer.
LeftToSpeak ==
  /\ pc \in {"stream", "answer"} =>
       /\ textBuffer = <<>> => text = <<>>
       /\ Silent /\ Contains(text, Stop) => Contains(textBuffer, Stop)
       /\ Silent /\ Run(text) # {} => Sayable(textBuffer)
  /\ pc = "flush" => Last(sentences) # <<>>

\* What the answer is while it is being spoken.
AnswerKnown == /\ pc = "prompt" =>
                    /\ decision = "fixed"
                    /\ sentences = [i \in DOMAIN answer |-> <<answer[i]>>]
               /\ pc = "answer" /\ whole /\ text = <<>> => answer = <<>>

\* An answer that must be spoken.
Due == decision = "fixed" \/ (whole /\ Sayable(text))

\* Before the marker such an answer is spoken, or a synthesis failed.
SpokenBeforeMark == pc = "mark" /\ ~ ttsFailed /\ Due
                      => \E i \in DOMAIN audio : audio[i].kind # "marker"

\* Only the audio of one piece may lack the marker.
MarkedAtEnd == pc = "complete" /\ voice /\ decision # "none"
                 => \/ \E i \in DOMAIN audio : audio[i].kind = "marker"
                    \/ decision = "fixed" /\ Len(answer) = 1

EndInv == /\ MarkerLast /\ Undecided /\ Voiced /\ LeftToSpeak /\ AnswerKnown
          /\ SpokenBeforeMark /\ MarkedAtEnd /\ StreamedAnswerIsSent

LEMMA LastRun ==
  ASSUME NEW t \in Seq(Token)
  PROVE  Run(t) # {} <=> t # <<>> /\ isWord(Last(t))
<1>1. DOMAIN t = 1 .. Len(t) /\ Len(t) \in Nat
  OBVIOUS
<1>2. ASSUME t # <<>>, isWord(Last(t))
      PROVE  Run(t) # {}
  <2>1. Len(t) \in DOMAIN t /\ \A j \in Len(t) .. Len(t) : j = Len(t)
    BY <1>1, <1>2
  <2>2. Len(t) \in Run(t)
    BY <1>2, <2>1 DEF Run, Last
  <2>3. QED
    BY <2>2
<1>3. ASSUME NEW p \in Run(t)
      PROVE  t # <<>> /\ isWord(Last(t))
  <2>1. p \in 1 .. Len(t) /\ \A j \in p .. Len(t) : isWord(t[j])
    BY <1>1 DEF Run
  <2>2. Len(t) \in p .. Len(t)
    BY <1>1, <2>1
  <2>3. QED
    BY <2>1, <2>2 DEF Last
<1>4. QED
  BY <1>2, <1>3

LEMMA Appended ==
  ASSUME NEW a \in Seq(Message), NEW m \in Message
  PROVE  /\ Len(a) \in Nat /\ DOMAIN a = 1 .. Len(a)
         /\ Append(a, m) \in Seq(Message)
         /\ Len(Append(a, m)) = Len(a) + 1
         /\ DOMAIN Append(a, m) = 1 .. Len(a) + 1
         /\ \A i \in 1 .. Len(a) : Append(a, m)[i] = a[i]
         /\ Append(a, m)[Len(a) + 1] = m
OBVIOUS

\* A sentence is not a marker, and it is there unless its synthesis failed.
LEMMA SpeechSent ==
  ASSUME TypeOK, NEW s \in Seq(Token), NEW last \in BOOLEAN,
         ttsAndSend(s, last) \/ generated(s, last) \/ failed, voice,
         \A i \in DOMAIN audio : audio[i].kind # "marker"
  PROVE  /\ \A i \in DOMAIN audio' : audio'[i].kind # "marker"
         /\ ~ ttsFailed' => \E i \in DOMAIN audio' : audio'[i].kind # "marker"
<1>1. CASE audio' = Append(audio, speech(s, last))
  <2>1. speech(s, last) \in Message /\ speech(s, last).kind # "marker"
    BY DEF speech, Message
  <2>2. audio \in Seq(Message)
    BY DEF TypeOK
  <2>3. /\ Len(audio) \in Nat /\ DOMAIN audio = 1 .. Len(audio)
        /\ DOMAIN audio' = 1 .. Len(audio) + 1
        /\ \A i \in 1 .. Len(audio) : audio'[i] = audio[i]
        /\ audio'[Len(audio) + 1] = speech(s, last)
    BY <1>1, <2>1, <2>2, Appended
  <2>4. Len(audio) + 1 \in DOMAIN audio'
    BY <2>3
  <2>5. ASSUME NEW i \in DOMAIN audio'
        PROVE  audio'[i].kind # "marker"
    <3>1. CASE i = Len(audio) + 1
      BY <2>1, <2>3, <3>1
    <3>2. CASE i # Len(audio) + 1
      <4>1. i \in DOMAIN audio
        BY <2>3, <3>2
      <4>2. QED
        BY <2>3, <4>1
    <3>3. QED
      BY <3>1, <3>2
  <2>6. QED
    BY <2>1, <2>3, <2>4, <2>5
<1>2. CASE UNCHANGED audio /\ ttsFailed'
  BY <1>2
<1>3. QED
  BY <1>1, <1>2 DEF ttsAndSend, generated, failed, send

\* The message that ends the audio: the marker, or the text itself.
LEMMA EndSent ==
  ASSUME TypeOK, NEW m \in Message, send(m),
         \A i \in DOMAIN audio : audio[i].kind # "marker"
  PROVE  /\ \A i \in DOMAIN audio' :
              audio'[i].kind = "marker" => i = Len(audio')
         /\ \E i \in DOMAIN audio' : audio'[i] = m
         /\ (\E i \in DOMAIN audio : audio[i].kind # "marker")
              => \E i \in DOMAIN audio' : audio'[i].kind # "marker"
<1>1. audio \in Seq(Message) /\ audio' = Append(audio, m)
  BY DEF TypeOK, send
<1>2. /\ Len(audio) \in Nat /\ DOMAIN audio = 1 .. Len(audio)
      /\ DOMAIN audio' = 1 .. Len(audio) + 1 /\ Len(audio') = Len(audio) + 1
      /\ \A i \in 1 .. Len(audio) : audio'[i] = audio[i]
      /\ audio'[Len(audio) + 1] = m
  BY <1>1, Appended
<1>3. /\ Len(audio) + 1 \in DOMAIN audio'
      /\ \A i \in DOMAIN audio : i \in DOMAIN audio' /\ audio'[i] = audio[i]
      /\ \A i \in DOMAIN audio' : i = Len(audio) + 1 \/ i \in DOMAIN audio
  BY <1>2
<1>4. QED
  BY <1>2, <1>3

LEMMA InitEnd == Init => EndInv
<1> SUFFICES ASSUME Init PROVE EndInv
  OBVIOUS
<1>1. DOMAIN audio = {}
  BY DEF Init
<1>2. text = <<>> /\ textBuffer = <<>>
  BY DEF Init
<1>3. QED
  BY <1>1, <1>2 DEF Init, EndInv, MarkerLast, Undecided, Voiced, LeftToSpeak,
     AnswerKnown, SpokenBeforeMark, MarkedAtEnd, StreamedAnswerIsSent,
     EveryAnswerIsSent, Sayable

\* Nothing is sent, and the turn does not end.
LEMMA SilentEnd ==
  ASSUME EndInv, UNCHANGED audio, pc # "complete", pc' # "complete"
  PROVE  MarkerLast' /\ MarkedAtEnd' /\ StreamedAnswerIsSent'
BY DEF EndInv, MarkerLast, MarkedAtEnd, StreamedAnswerIsSent,
       EveryAnswerIsSent

LEMMA ChunkEnd ==
  ASSUME TypeInv, EndInv, NEW shape \in Shapes, Chunk(shape)
  PROVE  EndInv'
<1>1. PICK new, buffer, split :
        /\ new \in Seq(Token) /\ new # <<>>
        /\ buffer = textBuffer \o new /\ buffer \in Seq(Token) /\ buffer # <<>>
        /\ split = splitSentences(buffer) /\ Len(split) \in Nat
        /\ Contains(new, Stop) => split # <<>> /\ Contains(buffer, Stop)
        /\ pc = "stream" /\ text' = text \o new
        /\ \/ /\ ~ Contains(new, Stop)
              /\ textBuffer' = buffer /\ UNCHANGED <<pc, flush>>
           \/ /\ Contains(new, Stop) /\ Len(split) = 1
              /\ textBuffer' = Last(split) /\ UNCHANGED <<pc, flush>>
           \/ /\ Contains(new, Stop) /\ Len(split) > 1
              /\ textBuffer' = buffer /\ pc' = "flush"
              /\ sentences' = split /\ next' = 1 /\ finalFlush' = FALSE
        /\ UNCHANGED <<verdict, audio, ttsFailed, voice>>
  BY ChunkFacts DEF TypeInv
<1>2. /\ Len(split) # 0 => Last(split) \in Seq(Token) /\ Last(split) # <<>>
      /\ Contains(buffer, Stop) => Last(split[1]) = Stop
  <2>1. /\ \A k \in 1 .. Len(split) : /\ split[k] \in Seq(Token)
                                      /\ split[k] # <<>>
        /\ Contains(buffer, Stop) => Last(split[1]) = Stop
    BY <1>1, SplitWords
  <2>2. Len(split) # 0 => Len(split) \in 1 .. Len(split)
    BY <1>1
  <2>3. QED
    BY <2>1, <2>2 DEF Last
<1>3. MarkerLast' /\ MarkedAtEnd' /\ StreamedAnswerIsSent'
  BY <1>1, SilentEnd
<1>4. /\ text \in Seq(Token) /\ textBuffer \in Seq(Token)
      /\ text' \in Seq(Token) /\ Silent' = Silent
      /\ Contains(text', Stop) <=> Contains(text, Stop) \/ Contains(new, Stop)
      /\ Contains(buffer, Stop)
           <=> Contains(textBuffer, Stop) \/ Contains(new, Stop)
  <2>1. text \in Seq(Token) /\ textBuffer \in Seq(Token)
    BY DEF TypeInv, TypeOK
  <2>2. QED
    BY <1>1, <2>1, ConcatWords DEF Silent
<1>5. Run(text') # {} <=> Run(buffer) # {}
  <2>1. Last(text') = Last(new) /\ Last(buffer) = Last(new) /\ text' # <<>>
    BY <1>1, <1>4, ConcatWords DEF Last
  <2>2. QED
    BY <1>1, <1>4, <2>1, LastRun
<1>6. LeftToSpeak'
  <2>1. CASE ~ Contains(new, Stop) /\ textBuffer' = buffer /\ UNCHANGED pc
    BY <1>1, <1>4, <1>5, <2>1 DEF LeftToSpeak, EndInv, Sayable
  <2>2. CASE /\ Contains(new, Stop) /\ Len(split) = 1
             /\ textBuffer' = Last(split)
    <3>1. textBuffer' \in Seq(Token) /\ textBuffer' # <<>>
      BY <1>2, <2>2
    <3>2. Last(textBuffer') = Stop
      BY <1>1, <1>2, <2>2 DEF Last
    <3>3. Contains(textBuffer', Stop)
      <4>1. Len(textBuffer') \in DOMAIN textBuffer'
        BY <3>1
      <4>2. QED
        BY <3>2, <4>1 DEF Last, Contains
    <3>4. pc' = "stream"
      BY <1>1, <2>2
    <3>5. QED
      BY <3>1, <3>3, <3>4 DEF LeftToSpeak, Sayable
  <2>3. CASE Contains(new, Stop) /\ pc' = "flush" /\ sentences' = split
    BY <1>1, <1>2, <2>3 DEF LeftToSpeak
  <2>4. QED
    BY <1>1, <2>1, <2>2, <2>3
<1>7. QED
  BY <1>1, <1>3, <1>6 DEF EndInv, Undecided, Voiced, AnswerKnown,
                          SpokenBeforeMark, verdict

\* What Flush and Piece speak.
LEMMA NextSpoken ==
  ASSUME TypeInv, Flush \/ Piece
  PROVE  /\ next \in 1 .. Len(sentences) /\ Len(sentences) \in Nat
         /\ sentences \in Seq(Seq(Token)) /\ sentences[next] \in Seq(Token)
         /\ DOMAIN sentences = 1 .. Len(sentences)
         /\ pc \in {"flush", "prompt"}
         /\ \/ \E last \in BOOLEAN : ttsAndSend(sentences[next], last)
            \/ /\ pc = "prompt"
               /\ generated(sentences[next], FALSE) \/ failed
<1>1. /\ next \in 1 .. Len(sentences) + 1 /\ Len(sentences) \in Nat
      /\ sentences \in Seq(Seq(Token))
  BY DEF TypeInv, TypeOK
<1>2. next <= Len(sentences) /\ pc \in {"flush", "prompt"}
  <2>1. CASE Flush
    BY <1>1, <2>1 DEF Flush, TypeInv, completeCount
  <2>2. CASE Piece
    <3>1. pc = "prompt" /\ (next < Len(sentences) \/ next = Len(sentences))
      BY <2>2 DEF Piece
    <3>2. QED
      BY <1>1, <3>1
  <2>3. QED
    BY <2>1, <2>2
<1>3. \/ \E last \in BOOLEAN : ttsAndSend(sentences[next], last)
      \/ pc = "prompt" /\ (generated(sentences[next], FALSE) \/ failed)
  <2>1. CASE Flush
    <3>1. (finalFlush /\ next = Len(sentences)) \in BOOLEAN
      OBVIOUS
    <3>2. ttsAndSend(sentences[next], finalFlush /\ next = Len(sentences))
      BY <2>1 DEF Flush
    <3>3. QED
      BY <3>1, <3>2
  <2>2. CASE Piece
    BY <2>2 DEF Piece
  <2>3. QED
    BY <2>1, <2>2
<1>4. /\ next \in 1 .. Len(sentences) /\ sentences[next] \in Seq(Token)
      /\ DOMAIN sentences = 1 .. Len(sentences)
  <2>1. next \in 1 .. Len(sentences)
    BY <1>1, <1>2
  <2>2. QED
    BY <1>1, <2>1
<1>5. QED
  BY <1>1, <1>2, <1>3, <1>4

LEMMA SpeakEnd ==
  ASSUME TypeInv, EndInv, Flush \/ Piece
  PROVE  EndInv'
<1>1. /\ sentences[next] \in Seq(Token) /\ pc \in {"flush", "prompt"}
      /\ \/ \E last \in BOOLEAN : ttsAndSend(sentences[next], last)
         \/ /\ pc = "prompt"
            /\ generated(sentences[next], FALSE) \/ failed
  BY NextSpoken
<1>2. \A i \in DOMAIN audio : audio[i].kind # "marker"
  BY <1>1 DEF EndInv, MarkerLast
<1>3. \E last \in BOOLEAN : \/ ttsAndSend(sentences[next], last)
                           \/ generated(sentences[next], last)
                           \/ failed
  BY <1>1
<1>4. voice => /\ \A i \in DOMAIN audio' : audio'[i].kind # "marker"
               /\ ~ ttsFailed' =>
                    \E i \in DOMAIN audio' : audio'[i].kind # "marker"
  BY <1>1, <1>2, <1>3, SpeechSent DEF TypeInv
<1>5. ~ voice => UNCHANGED audio
  BY <1>1 DEF ttsAndSend, EndInv, Voiced
<1>6. \A i \in DOMAIN audio' : audio'[i].kind # "marker"
  BY <1>2, <1>4, <1>5
<1>7. CASE Flush
  <2>1. /\ \/ pc' = "flush" /\ UNCHANGED textBuffer
           \/ pc' = "mark" /\ finalFlush
           \/ pc' = "stream" /\ ~ finalFlush /\ textBuffer' = Last(sentences)
        /\ pc = "flush" /\ pc' # "complete"
        /\ UNCHANGED <<stream, verdict, sentences, finalFlush, voice>>
    BY <1>7 DEF Flush
  <2>2. /\ MarkerLast' /\ MarkedAtEnd' /\ StreamedAnswerIsSent'
    BY <1>6, <2>1 DEF MarkerLast, MarkedAtEnd, StreamedAnswerIsSent,
                      EveryAnswerIsSent
  <2>3. SpokenBeforeMark'
    BY <1>4, <2>1 DEF SpokenBeforeMark, EndInv, Voiced
  <2>4. ~ Silent'
    <3> SUFFICES ASSUME voice', ~ ttsFailed' PROVE audio' # <<>>
      BY DEF Silent
    <3>1. \E i \in DOMAIN audio' : audio'[i].kind # "marker"
      BY <1>4, <2>1
    <3>2. QED
      BY <3>1
  <2>5. LeftToSpeak'
    BY <2>1, <2>4 DEF LeftToSpeak, EndInv
  <2>6. QED
    BY <2>1, <2>2, <2>3, <2>5 DEF EndInv, Undecided, Voiced, AnswerKnown,
                                  verdict
<1>8. CASE Piece
  <2>1. /\ pc = "prompt" /\ pc' \in {"prompt", "mark", "complete"}
        /\ pc' = "complete" => ttsFailed' /\ Len(sentences) = 1
        /\ UNCHANGED <<stream, verdict, textBuffer, sentences, finalFlush,
                       voice>>
    BY <1>8 DEF Piece, failed
  <2>2. /\ voice /\ decision = "fixed"
        /\ sentences = [i \in DOMAIN answer |-> <<answer[i]>>]
    BY <2>1 DEF EndInv, Voiced, AnswerKnown
  <2>3. MarkerLast'
    BY <1>6 DEF MarkerLast
  <2>4. Len(sentences) = Len(answer)
    <3>1. answer \in Seq(Token)
      BY DEF TypeInv, TypeOK
    <3>2. QED
      BY <2>2, <3>1
  <2>5. MarkedAtEnd'
    BY <2>1, <2>2, <2>4 DEF MarkedAtEnd, verdict
  <2>6. StreamedAnswerIsSent'
    BY <2>1, <2>2 DEF StreamedAnswerIsSent, EveryAnswerIsSent
  <2>7. SpokenBeforeMark'
    BY <1>4, <2>2 DEF SpokenBeforeMark
  <2>8. AnswerKnown' /\ Undecided' /\ Voiced' /\ LeftToSpeak'
    BY <2>1, <2>2 DEF AnswerKnown, Undecided, Voiced, LeftToSpeak, verdict
  <2>9. QED
    BY <2>3, <2>5, <2>6, <2>7, <2>8 DEF EndInv
<1>9. QED
  BY <1>7, <1>8

LEMMA StepEnd == TypeInv /\ EndInv /\ [Next]_vars => EndInv'
<1> SUFFICES ASSUME TypeInv, EndInv, [Next]_vars PROVE EndInv'
  OBVIOUS
<1>a. pc # "complete" => \A i \in DOMAIN audio : audio[i].kind # "marker"
  BY DEF EndInv, MarkerLast
<1>b. marker \in Message /\ textFallback \in Message
  <2>1. <<>> \in Seq(Token)
    OBVIOUS
  <2>2. QED
    BY <2>1 DEF marker, textFallback, Message
<1>1. CASE UNCHANGED vars
  BY <1>1 DEF vars, EndInv, MarkerLast, Undecided, Voiced, LeftToSpeak,
              AnswerKnown, SpokenBeforeMark, MarkedAtEnd, Due, Silent,
              StreamedAnswerIsSent, EveryAnswerIsSent
<1>2. CASE \E shape \in Shapes : Chunk(shape)
  BY <1>2, ChunkEnd
<1>3. ASSUME NEW type, NEW told, NEW fromStream, pc = "stream",
             Decide(type, told, fromStream),
             fromStream /\ text = <<>> => told = <<>>
      PROVE  EndInv'
  <2>1. MarkerLast' /\ MarkedAtEnd' /\ StreamedAnswerIsSent'
    BY <1>3, SilentEnd DEF Decide
  <2>2. QED
    BY <1>3, <2>1 DEF Decide, EndInv, Undecided, Voiced, LeftToSpeak, Silent,
                      AnswerKnown, SpokenBeforeMark, stream, flush
<1>4. CASE \E n \in 1 .. MaxPieces : DecideFixed(n)
  BY <1>3, <1>4 DEF DecideFixed
<1>5. CASE Respond
  <2>1. trim(<<>>, 1, Len(<<>>)) = <<>>
    BY DEF trim
  <2>2. QED
    BY <1>3, <1>5, <2>1 DEF Respond
<1>6. CASE RespondAtOnce
  BY <1>3, <1>6 DEF RespondAtOnce
<1>7. CASE NoResult
  <2>1. decision' = "none" /\ answer' = <<>>
    BY <1>7 DEF NoResult, EndInv, Undecided
  <2>2. MarkerLast'
    BY <1>7 DEF NoResult, EndInv, MarkerLast
  <2>3. MarkedAtEnd' /\ StreamedAnswerIsSent'
    BY <1>7, <2>1 DEF NoResult, MarkedAtEnd, StreamedAnswerIsSent,
                      EveryAnswerIsSent
  <2>4. QED
    BY <1>7, <2>2, <2>3 DEF NoResult, EndInv, Undecided, Voiced, LeftToSpeak,
                            AnswerKnown, SpokenBeforeMark
<1>8. CASE Flush \/ Piece
  BY <1>8, SpeakEnd
<1>9. CASE FlushRest
  <2>1. MarkerLast' /\ MarkedAtEnd' /\ StreamedAnswerIsSent'
    BY <1>9, SilentEnd DEF FlushRest
  <2>2. PICK split : split = splitSentences(textBuffer)
    OBVIOUS
  <2>3. /\ Len(split) \in Nat
        /\ \A k \in 1 .. Len(split) : split[k] # <<>>
        /\ Sayable(textBuffer) => split # <<>>
    BY <2>2, SplitWords DEF TypeInv, TypeOK
  <2>4. /\ pc = "answer" /\ voice
        /\ UNCHANGED <<stream, verdict, textBuffer, audio, ttsFailed, voice>>
        /\ \/ /\ split # <<>> /\ pc' = "flush" /\ sentences' = split
              /\ finalFlush' = TRUE
           \/ split = <<>> /\ pc' = "mark" /\ decision = "respond"
    BY <1>9, <2>2 DEF FlushRest
  <2>5. split # <<>> => Last(split) # <<>>
    <3>1. split # <<>> => Len(split) \in 1 .. Len(split)
      BY <2>2, <2>3, SplitCut DEF TypeInv, TypeOK
    <3>2. QED
      BY <2>3, <3>1 DEF Last
  <2>6. LeftToSpeak'
    BY <2>4, <2>5 DEF LeftToSpeak
  <2>7. SpokenBeforeMark'
    <3> SUFFICES ASSUME pc' = "mark", ~ ttsFailed, whole /\ Sayable(text)
                 PROVE  \E i \in DOMAIN audio : audio[i].kind # "marker"
      BY <2>4 DEF SpokenBeforeMark, Due, verdict, stream
    <3>1. ~ Sayable(textBuffer)
      BY <2>3, <2>4
    <3>2. ~ Silent
      BY <2>4, <3>1 DEF EndInv, LeftToSpeak, Sayable
    <3>3. audio # <<>> /\ audio \in Seq(Message)
      BY <2>4, <3>2 DEF Silent, TypeInv, TypeOK
    <3>4. 1 \in DOMAIN audio
      BY <3>3
    <3>5. QED
      BY <1>a, <2>4, <3>4
  <2>8. QED
    BY <2>1, <2>4, <2>6, <2>7 DEF EndInv, Undecided, Voiced, AnswerKnown
<1>10. CASE StartPrompt
  <2>1. MarkerLast' /\ MarkedAtEnd' /\ StreamedAnswerIsSent'
    BY <1>10, SilentEnd DEF StartPrompt
  <2>2. QED
    BY <1>10, <2>1 DEF StartPrompt, EndInv, Undecided, Voiced,
                       LeftToSpeak, AnswerKnown, SpokenBeforeMark, verdict
<1>11. CASE NothingToSpeak
  <2>1. /\ \A i \in DOMAIN audio' :
              audio'[i].kind = "marker" => i = Len(audio')
        /\ \E i \in DOMAIN audio' : audio'[i] = marker
    BY <1>11, <1>a, <1>b, EndSent DEF NothingToSpeak, TypeInv
  <2>2. marker.kind = "marker"
    BY DEF marker
  <2>3. MarkerLast' /\ MarkedAtEnd'
    BY <1>11, <2>1, <2>2 DEF NothingToSpeak, MarkerLast, MarkedAtEnd
  <2>4. decision' = "respond" /\ (whole' => answer' = <<>>)
    BY <1>11 DEF NothingToSpeak, EndInv, AnswerKnown, LeftToSpeak, verdict
  <2>5. StreamedAnswerIsSent'
    <3>1. voice'
      BY <1>11 DEF NothingToSpeak
    <3>2. QED
      BY <2>4, <3>1 DEF StreamedAnswerIsSent, EveryAnswerIsSent
  <2>6. QED
    BY <1>11, <2>3, <2>5 DEF NothingToSpeak, EndInv, Undecided, Voiced,
                             LeftToSpeak, AnswerKnown, SpokenBeforeMark
<1>12. CASE Mark
  <2>1. /\ \A i \in DOMAIN audio' :
              audio'[i].kind = "marker" => i = Len(audio')
        /\ \E i \in DOMAIN audio' : audio'[i] = marker
        /\ (\E i \in DOMAIN audio : audio[i].kind # "marker")
              => \E i \in DOMAIN audio' : audio'[i].kind # "marker"
    BY <1>12, <1>a, <1>b, EndSent DEF Mark, TypeInv
  <2>2. marker.kind = "marker"
    BY DEF marker
  <2>3. MarkerLast' /\ MarkedAtEnd'
    BY <1>12, <2>1, <2>2 DEF Mark, MarkerLast, MarkedAtEnd
  <2>4. StreamedAnswerIsSent'
    <3>1. /\ voice' /\ UNCHANGED <<verdict, text, ttsFailed>>
          /\ ~ ttsFailed /\ Due
               => \E i \in DOMAIN audio : audio[i].kind # "marker"
      BY <1>12 DEF Mark, stream, EndInv, Voiced, SpokenBeforeMark
    <3>2. QED
      BY <2>1, <3>1 DEF StreamedAnswerIsSent, EveryAnswerIsSent, Due, Sayable,
                        verdict
  <2>5. QED
    BY <1>12, <2>3, <2>4 DEF Mark, EndInv, Undecided, Voiced, LeftToSpeak,
                             AnswerKnown, SpokenBeforeMark
<1>13. CASE SendText
  <2>1. /\ \A i \in DOMAIN audio' :
              audio'[i].kind = "marker" => i = Len(audio')
        /\ \E i \in DOMAIN audio' : audio'[i] = textFallback
    BY <1>13, <1>a, <1>b, EndSent DEF SendText, TypeInv
  <2>2. textFallback.kind # "marker"
    BY DEF textFallback
  <2>3. MarkerLast'
    BY <1>13, <2>1 DEF SendText, MarkerLast
  <2>4. MarkedAtEnd'
    BY <1>13 DEF SendText, MarkedAtEnd
  <2>5. StreamedAnswerIsSent'
    BY <2>1, <2>2 DEF StreamedAnswerIsSent, EveryAnswerIsSent
  <2>6. QED
    BY <1>13, <2>3, <2>4, <2>5 DEF SendText, EndInv, Undecided, Voiced,
                                 LeftToSpeak, AnswerKnown, SpokenBeforeMark
<1>14. QED
  BY <1>1, <1>2, <1>4, <1>5, <1>6, <1>7, <1>8, <1>9, <1>10, <1>11, <1>12, <1>13
     DEF Next, Speak

LEMMA EndAlways == Spec => [](TypeInv /\ EndInv)
<1>1. QED
  BY InitType, StepType, InitEnd, StepEnd, PTL DEF Spec

(***************************************************************************)
(* While synthesis works, whoever was given a fixed text, or a streamed    *)
(* answer that has a stop or ends with a word, hears some of it, over      *)
(* whatever flushes; without a voice, the text is sent (server.ts:1136-    *)
(* 1154, 1374-1424).                                                       *)
(***************************************************************************)
THEOREM AnswersAreSent == Spec => []StreamedAnswerIsSent
<1>1. EndInv => StreamedAnswerIsSent
  BY DEF EndInv
<1>2. QED
  BY EndAlways, <1>1, PTL

-----------------------------------------------------------------------------
(* The order of what is spoken *)

Told == Cardinality(Words(text))

\* The words of the text are numbered from 1 on.
Counted == Words(text) = 1 .. Told

\* Only the text is spoken, until a fixed text is.
OfTheText == pc \in {"stream", "flush", "answer"} \/ whole
               => Spoken \subseteq Words(text)

\* The buffer is yet to be spoken.
Buffered == pc \in {"stream", "answer"}
              => /\ Ascending(textBuffer)
                 /\ Below(Spoken, Words(textBuffer))
                 /\ Words(textBuffer) \subseteq Words(text)

\* So are the sentences from the next one on.
Ahead == /\ pc \in {"flush", "prompt"}
              => /\ Ordered(sentences)
                 /\ \A k \in next .. Len(sentences) :
                      Below(Spoken, Words(sentences[k]))
         /\ pc = "flush" => \A k \in DOMAIN sentences :
                              Words(sentences[k]) \subseteq Words(text)

\* A fixed text is none that was streamed.
Fixed == decision = "fixed"
           => ~ whole /\ \A i \in DOMAIN answer : answer[i] = Told + i

OrderInv == Counted /\ OfTheText /\ Buffered /\ Ahead /\ Fixed /\ SpokenInOrder

\* A cut is harmless where the chunk is tidy.
LEMMA TidyHarmless ==
  ASSUME NEW shape \in Shapes, NEW k \in Nat, NEW u \in Seq(Token),
         Contains(Numbered(shape, k), Stop), Tidy(shape)
  PROVE  Harmless(u \o Numbered(shape, k))
<1>1. PICK n : n = Numbered(shape, k)
  OBVIOUS
<1>2. /\ n \in Seq(Token) /\ n # <<>> /\ Len(n) = Len(shape)
      /\ Len(shape) \in Nat /\ DOMAIN shape = 1 .. Len(shape)
      /\ \A i \in 1 .. Len(shape) : /\ isWord(n[i]) <=> shape[i] = "w"
                                    /\ n[i] = Stop <=> shape[i] = "."
                                    /\ n[i] = Blank <=> shape[i] = "b"
  BY <1>1, NumberedFacts
<1>3. \A i \in 1 .. Len(shape) : shape[i] \in {"w", ".", "b"}
  BY <1>2
<1>4. PICK s \in 1 .. Len(shape) : n[s] = Stop
  BY <1>1, <1>2 DEF Contains
<1>5. \A i, j \in 1 .. Len(shape) :
        i < j /\ shape[i] = "w" /\ shape[j] = "b"
          => \E l \in 1 .. Len(shape) : i < l /\ shape[l] = "."
  BY <1>2, <1>4 DEF Tidy, Contains
<1>6. PICK c : c = u \o n
  OBVIOUS
<1>7. /\ c \in Seq(Token) /\ Len(c) = Len(u) + Len(n)
      /\ Len(u) \in Nat /\ Len(n) \in Nat \ {0}
      /\ \A i \in 1 .. Len(u) : c[i] = u[i]
      /\ \A i \in 1 .. Len(n) : c[Len(u) + i] = n[i]
  BY <1>2, <1>6, ConcatWords
<1>8. DOMAIN c = 1 .. Len(c)
  BY <1>7
<1>9. ASSUME NEW p \in 1 .. Len(c), isWord(c[p])
      PROVE  Covered(c, p)
  <2>1. CASE \E l \in 1 .. Len(n) : p < Len(u) + l /\ n[l] = Stop
    <3>1. PICK l \in 1 .. Len(n) : p < Len(u) + l /\ n[l] = Stop
      BY <2>1
    <3>2. Len(u) + l \in 1 .. Len(c) /\ c[Len(u) + l] = Stop
      BY <1>7, <3>1
    <3>3. QED
      BY <1>8, <3>1, <3>2 DEF Covered
  <2>2. CASE \A l \in 1 .. Len(n) : p < Len(u) + l => n[l] # Stop
    <3>1. ~ (p < Len(u) + s)
      BY <1>2, <1>4, <2>2
    <3>2. PICK i \in 1 .. Len(n) : p = Len(u) + i
      <4>1. p - Len(u) \in 1 .. Len(n) /\ p = Len(u) + (p - Len(u))
        BY <1>2, <1>4, <1>7, <3>1
      <4>2. QED
        BY <4>1
    <3>3. shape[i] = "w"
      BY <1>2, <1>7, <1>9, <3>2
    <3>4. ASSUME NEW l \in 1 .. Len(n), i < l
          PROVE  shape[l] = "w"
      <4>1. \A r \in 1 .. Len(n) : i < r => shape[r] # "."
        <5>1. \A r \in 1 .. Len(n) : i < r => p < Len(u) + r
          BY <1>7, <3>2
        <5>2. QED
          BY <1>2, <2>2, <5>1
      <4>2. shape[l] # "b"
        BY <1>2, <1>5, <3>3, <3>4, <4>1
      <4>3. QED
        BY <1>2, <1>3, <3>4, <4>1, <4>2
    <3>5. ASSUME NEW j \in p .. Len(c)
          PROVE  isWord(c[j])
      <4>1. PICK l \in 1 .. Len(n) : j = Len(u) + l /\ (i = l \/ i < l)
        <5>1. /\ j - Len(u) \in 1 .. Len(n) /\ j = Len(u) + (j - Len(u))
              /\ i = j - Len(u) \/ i < j - Len(u)
          BY <1>7, <3>2
        <5>2. QED
          BY <5>1
      <4>2. shape[l] = "w"
        BY <3>3, <3>4, <4>1
      <4>3. QED
        BY <1>2, <1>7, <4>1, <4>2
    <3>6. QED
      BY <1>8, <3>5 DEF Covered, Run
  <2>3. QED
    BY <2>1, <2>2
<1>10. QED
  BY <1>1, <1>6, <1>8, <1>9 DEF Harmless

\* The words that a chunk brings.
LEMMA ChunkWords ==
  ASSUME TypeOK, NEW shape \in Shapes, NEW new, NEW buffer,
         new = Numbered(shape, Cardinality(Words(text))),
         buffer = textBuffer \o new, text' = text \o new
  PROVE  /\ \E m \in Nat : Words(new) = Told + 1 .. Told + m
         /\ Words(text') = Words(text) \union Words(new)
         /\ Words(buffer) = Words(textBuffer) \union Words(new)
         /\ Ascending(textBuffer) /\ Below(Words(textBuffer), Words(new))
              => Ascending(buffer)
         /\ Contains(new, Stop) /\ Tidy(shape) => Harmless(buffer)
<1>1. /\ text \in Seq(Token) /\ textBuffer \in Seq(Token) /\ Told \in Nat
  BY WordsFacts DEF TypeOK, Told
<1>2. /\ new \in Seq(Token) /\ new # <<>> /\ Len(new) = Len(shape)
      /\ \A i, j \in 1 .. Len(shape) :
           isWord(new[i]) /\ isWord(new[j]) /\ i < j => new[i] < new[j]
      /\ \E m \in Nat : Words(new) = Told + 1 .. Told + m
  BY <1>1, NumberedFacts DEF Told
<1>3. Ascending(new)
  <2>1. DOMAIN new = 1 .. Len(shape)
    BY <1>2
  <2>2. QED
    BY <1>2, <2>1 DEF Ascending
<1>4. Words(text') = Words(text) \union Words(new)
  BY <1>1, <1>2, ConcatWords
<1>5. /\ Words(buffer) = Words(textBuffer) \union Words(new)
      /\ Ascending(textBuffer) /\ Below(Words(textBuffer), Words(new))
           => Ascending(buffer)
  BY <1>1, <1>2, <1>3, ConcatWords
<1>6. Contains(new, Stop) /\ Tidy(shape) => Harmless(buffer)
  BY <1>1, TidyHarmless DEF Told
<1>7. QED
  BY <1>2, <1>4, <1>5, <1>6

\* A message that follows what is spoken is spoken in order.
LEMMA SentInOrder ==
  ASSUME TypeOK, SpokenInOrder, NEW m \in Message, audio' = Append(audio, m),
         Ascending(m.words), Below(Spoken, Words(m.words))
  PROVE  SpokenInOrder' /\ Spoken' = Spoken \union Words(m.words)
<1>1. audio \in Seq(Message)
  BY DEF TypeOK
<1>2. /\ Len(audio) \in Nat /\ DOMAIN audio = 1 .. Len(audio)
      /\ DOMAIN audio' = 1 .. Len(audio) + 1
      /\ \A i \in 1 .. Len(audio) : audio'[i] = audio[i]
      /\ audio'[Len(audio) + 1] = m
  BY <1>1, Appended
<1>3. Spoken' = Spoken \union Words(m.words)
  <2>1. Spoken' = UNION {Words(audio'[i].words) : i \in 1 .. Len(audio) + 1}
    BY <1>2 DEF Spoken
  <2>2. Spoken = UNION {Words(audio[i].words) : i \in 1 .. Len(audio)}
    BY <1>2 DEF Spoken
  <2>3. 1 .. Len(audio) + 1 = (1 .. Len(audio)) \union {Len(audio) + 1}
    BY <1>2
  <2>4. QED
    BY <1>2, <2>1, <2>2, <2>3
<1>4. ASSUME NEW i \in 1 .. Len(audio) + 1, NEW j \in 1 .. Len(audio) + 1,
             NEW k \in DOMAIN audio'[i].words, NEW l \in DOMAIN audio'[j].words,
             i < j \/ (i = j /\ k < l),
             isWord(audio'[i].words[k]), isWord(audio'[j].words[l])
      PROVE  audio'[i].words[k] < audio'[j].words[l]
  <2>1. CASE j # Len(audio) + 1
    <3>1. i \in 1 .. Len(audio) /\ j \in 1 .. Len(audio)
      BY <1>2, <1>4, <2>1
    <3>2. audio'[i] = audio[i] /\ audio'[j] = audio[j]
      BY <1>2, <3>1
    <3>3. QED
      BY <1>2, <1>4, <3>1, <3>2 DEF SpokenInOrder
  <2>2. CASE j = Len(audio) + 1 /\ i = Len(audio) + 1
    <3>1. audio'[i] = m /\ audio'[j] = m /\ k < l
      BY <1>2, <1>4, <2>2
    <3>2. QED
      BY <1>4, <3>1 DEF Ascending
  <2>3. CASE j = Len(audio) + 1 /\ i # Len(audio) + 1
    <3>1. i \in 1 .. Len(audio)
      BY <1>2, <2>3
    <3>2. audio'[i] = audio[i] /\ audio'[j] = m
      BY <1>2, <2>3, <3>1
    <3>3. audio[i].words[k] \in Words(audio[i].words)
      BY <1>4, <3>2 DEF Words, isWord
    <3>4. audio[i].words[k] \in Spoken
      BY <1>2, <3>1, <3>3 DEF Spoken
    <3>5. m.words[l] \in Words(m.words)
      BY <1>4, <3>2 DEF Words, isWord
    <3>6. QED
      BY <3>2, <3>4, <3>5 DEF Below
  <2>4. QED
    BY <2>1, <2>2, <2>3
<1>5. SpokenInOrder'
  BY <1>2, <1>4 DEF SpokenInOrder
<1>6. QED
  BY <1>3, <1>5

\* What ends the audio has no words.
LEMMA EndInOrder ==
  ASSUME TypeOK, SpokenInOrder, NEW m \in {marker, textFallback}, send(m)
  PROVE  SpokenInOrder' /\ Spoken' = Spoken
<1>1. m \in Message /\ m.words = <<>>
  <2>1. <<>> \in Seq(Token)
    OBVIOUS
  <2>2. CASE m = marker
    BY <2>1, <2>2 DEF marker, Message
  <2>3. CASE m = textFallback
    BY <2>1, <2>3 DEF textFallback, Message
  <2>4. QED
    BY <2>2, <2>3
<1>2. Ascending(m.words) /\ Below(Spoken, Words(m.words)) /\ Words(m.words) = {}
  BY <1>1, NoWords DEF Below
<1>3. QED
  BY <1>1, <1>2, SentInOrder DEF send

\* A sentence is spoken, unless its synthesis fails or there is no voice.
LEMMA Said ==
  ASSUME TypeOK, SpokenInOrder, NEW s \in Seq(Token), NEW last \in BOOLEAN,
         ttsAndSend(s, last) \/ generated(s, last) \/ failed,
         Ascending(s), Below(Spoken, Words(s))
  PROVE  /\ SpokenInOrder'
         /\ Spoken' \subseteq Spoken \union Words(s)
         /\ voice /\ ~ ttsFailed' => /\ ~ ttsFailed
                                     /\ Spoken' = Spoken \union Words(s)
<1>1. CASE UNCHANGED audio /\ (voice => ttsFailed')
  <2>1. SpokenInOrder' /\ Spoken' = Spoken
    BY <1>1 DEF SpokenInOrder, Spoken
  <2>2. QED
    BY <1>1, <2>1
<1>2. CASE audio' = Append(audio, speech(s, last)) /\ UNCHANGED ttsFailed
  <2>1. speech(s, last) \in Message /\ speech(s, last).words = s
    BY DEF speech, Message
  <2>2. QED
    BY <1>2, <2>1, SentInOrder
<1>3. QED
  BY <1>1, <1>2 DEF ttsAndSend, generated, failed, send

LEMMA InitOrder == Init => OrderInv
<1> SUFFICES ASSUME Init PROVE OrderInv
  OBVIOUS
<1>1. Words(text) = {} /\ Ascending(textBuffer) /\ Words(textBuffer) = {}
  BY NoWords DEF Init
<1>2. Told = 0
  BY <1>1, FS_EmptySet DEF Told
<1>3. DOMAIN audio = {} /\ Spoken = {}
  BY DEF Init, Spoken
<1>4. Counted /\ SpokenInOrder
  BY <1>1, <1>2, <1>3 DEF Counted, SpokenInOrder
<1>5. QED
  BY <1>1, <1>3, <1>4 DEF Init, OrderInv, OfTheText, Buffered, Ahead, Fixed,
                          Below

\* Where no text comes and nothing is sent.
LEMMA QuietOrder ==
  ASSUME OrderInv, UNCHANGED text
  PROVE  /\ Told' = Told /\ Words(text') = Words(text) /\ Counted'
         /\ UNCHANGED audio => SpokenInOrder' /\ Spoken' = Spoken
BY DEF OrderInv, Counted, Told, SpokenInOrder, Spoken

LEMMA ToldType ==
  ASSUME TypeInv
  PROVE  Told \in Nat
BY WordsFacts DEF TypeInv, TypeOK, Told

LEMMA ChunkOrder ==
  ASSUME TypeInv, EndInv, OrderInv, NEW shape \in Shapes, Chunk(shape)
  PROVE  OrderInv'
<1>1. PICK new, buffer, split :
        /\ new = Numbered(shape, Cardinality(Words(text)))
        /\ buffer = textBuffer \o new /\ buffer \in Seq(Token)
        /\ split = splitSentences(buffer) /\ Len(split) \in Nat
        /\ Contains(new, Stop) => split # <<>>
        /\ pc = "stream" /\ text' = text \o new
        /\ \/ /\ ~ Contains(new, Stop)
              /\ textBuffer' = buffer /\ UNCHANGED <<pc, flush>>
           \/ /\ Contains(new, Stop) /\ Len(split) = 1
              /\ textBuffer' = Last(split) /\ UNCHANGED <<pc, flush>>
           \/ /\ Contains(new, Stop) /\ Len(split) > 1
              /\ textBuffer' = buffer /\ pc' = "flush"
              /\ sentences' = split /\ next' = 1 /\ finalFlush' = FALSE
        /\ UNCHANGED <<verdict, audio, ttsFailed, voice>>
  BY ChunkFacts DEF TypeInv
<1>w. /\ \E m \in Nat : Words(new) = Told + 1 .. Told + m
      /\ Words(text') = Words(text) \union Words(new)
      /\ Words(buffer) = Words(textBuffer) \union Words(new)
      /\ Ascending(textBuffer) /\ Below(Words(textBuffer), Words(new))
           => Ascending(buffer)
  BY <1>1, ChunkWords DEF TypeInv
<1>2. PICK m \in Nat : Words(new) = Told + 1 .. Told + m
  BY <1>w
<1>3. Told \in Nat /\ Words(text) = 1 .. Told
  BY ToldType DEF OrderInv, Counted
<1>4. /\ Spoken \subseteq Words(text) /\ Words(textBuffer) \subseteq Words(text)
      /\ Ascending(textBuffer) /\ Below(Spoken, Words(textBuffer))
      /\ SpokenInOrder
  BY <1>1 DEF OrderInv, OfTheText, Buffered
<1>5. SpokenInOrder' /\ Spoken' = Spoken
  BY <1>1, <1>4 DEF SpokenInOrder, Spoken
<1>6. Counted'
  <2>1. Words(text') = 1 .. Told + m
    BY <1>2, <1>3, <1>w
  <2>2. Cardinality(1 .. Told + m) = Told + m
    BY <1>3, FS_Interval
  <2>3. Told' = Told + m
    BY <2>1, <2>2 DEF Told
  <2>4. QED
    BY <2>1, <2>3 DEF Counted
<1>7. Below(Words(text), Words(new))
  BY <1>2, <1>3 DEF Below
<1>8. /\ Ascending(buffer) /\ Below(Spoken, Words(buffer))
      /\ Words(buffer) \subseteq Words(text')
      /\ Words(text) \subseteq Words(text')
  BY <1>4, <1>7, <1>w DEF Below
<1>9. /\ DOMAIN split = 1 .. Len(split)
      /\ \A k \in 1 .. Len(split) : Words(split[k]) \subseteq Words(buffer)
      /\ Ordered(split) /\ Last(split) = split[Len(split)]
  BY <1>1, <1>8, SplitWords DEF Last
<1>10. \A k \in 1 .. Len(split) : /\ Below(Spoken, Words(split[k]))
                                  /\ Words(split[k]) \subseteq Words(text')
                                  /\ Ascending(split[k])
  BY <1>8, <1>9 DEF Below, Ordered
<1>11. Len(split) # 0 => Len(split) \in 1 .. Len(split)
  BY <1>1
<1>12. OfTheText'
  BY <1>4, <1>5, <1>8 DEF OfTheText
<1>13. Buffered' /\ Ahead'
  <2>1. CASE textBuffer' = buffer /\ UNCHANGED <<pc, flush>>
    BY <1>1, <1>5, <1>8, <2>1 DEF Buffered, Ahead
  <2>2. CASE /\ Len(split) = 1 /\ textBuffer' = Last(split)
             /\ UNCHANGED <<pc, flush>>
    <3>1. /\ Ascending(textBuffer') /\ Below(Spoken, Words(textBuffer'))
          /\ Words(textBuffer') \subseteq Words(text')
      <4>1. Len(split) \in 1 .. Len(split)
        BY <1>11, <2>2
      <4>2. textBuffer' = split[Len(split)]
        BY <2>2 DEF Last
      <4>3. QED
        BY <1>10, <4>1, <4>2
    <3>2. pc' = "stream"
      BY <1>1, <2>2
    <3>3. QED
      BY <1>5, <3>1, <3>2 DEF Buffered, Ahead
  <2>3. CASE pc' = "flush" /\ sentences' = split /\ next' = 1
    BY <1>5, <1>9, <1>10, <2>3 DEF Buffered, Ahead
  <2>4. QED
    BY <1>1, <2>1, <2>2, <2>3
<1>14. Fixed'
  BY <1>1 DEF Fixed, EndInv, Undecided, verdict
<1>15. QED
  BY <1>5, <1>6, <1>12, <1>13, <1>14 DEF OrderInv

\* The next sentence is spoken, and the ones after it are still ahead.
LEMMA SpeakOrder ==
  ASSUME TypeInv, OrderInv, Flush \/ Piece
  PROVE  /\ SpokenInOrder'
         /\ next \in 1 .. Len(sentences) /\ Len(sentences) \in Nat
         /\ DOMAIN sentences = 1 .. Len(sentences)
         /\ Spoken' \subseteq Spoken \union Words(sentences[next])
         /\ \A k \in next + 1 .. Len(sentences) :
              Below(Spoken', Words(sentences[k]))
         /\ \A k \in 1 .. Len(sentences) : Ascending(sentences[k])
         /\ voice /\ ~ ttsFailed' =>
              /\ ~ ttsFailed
              /\ Spoken' = Spoken \union Words(sentences[next])
<1>1. /\ next \in 1 .. Len(sentences) /\ Len(sentences) \in Nat
      /\ sentences[next] \in Seq(Token)
      /\ DOMAIN sentences = 1 .. Len(sentences)
      /\ pc \in {"flush", "prompt"}
      /\ \/ \E last \in BOOLEAN : ttsAndSend(sentences[next], last)
         \/ /\ pc = "prompt"
            /\ generated(sentences[next], FALSE) \/ failed
  BY NextSpoken
<1>2. PICK last \in BOOLEAN : \/ ttsAndSend(sentences[next], last)
                              \/ generated(sentences[next], last)
                              \/ failed
  BY <1>1
<1>3. /\ Ordered(sentences) /\ SpokenInOrder
      /\ \A k \in next .. Len(sentences) : Below(Spoken, Words(sentences[k]))
  BY <1>1 DEF OrderInv, Ahead
<1>4. next \in next .. Len(sentences)
  BY <1>1
<1>5. \A k \in 1 .. Len(sentences) : Ascending(sentences[k])
  BY <1>1, <1>3 DEF Ordered
<1>6. /\ SpokenInOrder'
      /\ Spoken' \subseteq Spoken \union Words(sentences[next])
      /\ voice /\ ~ ttsFailed' =>
           /\ ~ ttsFailed
           /\ Spoken' = Spoken \union Words(sentences[next])
  BY <1>1, <1>2, <1>3, <1>4, <1>5, Said DEF TypeInv
<1>7. ASSUME NEW k \in next + 1 .. Len(sentences)
       PROVE  Below(Spoken', Words(sentences[k]))
  <2>1. /\ k \in next .. Len(sentences) /\ k \in 1 .. Len(sentences)
        /\ next < k
    BY <1>1
  <2>2. Below(Spoken, Words(sentences[k]))
    BY <1>3, <2>1
  <2>3. Below(Words(sentences[next]), Words(sentences[k]))
    BY <1>1, <1>3, <2>1 DEF Ordered
  <2>4. QED
    BY <1>6, <2>2, <2>3 DEF Below
<1>8. QED
  BY <1>1, <1>5, <1>6, <1>7

LEMMA FlushOrder ==
  ASSUME TypeInv, OrderInv, Flush
  PROVE  OrderInv'
<1>1. /\ SpokenInOrder'
      /\ next \in 1 .. Len(sentences) /\ DOMAIN sentences = 1 .. Len(sentences)
      /\ Len(sentences) \in Nat
      /\ Spoken' \subseteq Spoken \union Words(sentences[next])
      /\ \A k \in next + 1 .. Len(sentences) :
           Below(Spoken', Words(sentences[k]))
      /\ \A k \in 1 .. Len(sentences) : Ascending(sentences[k])
  BY SpeakOrder
<1>2. /\ pc = "flush" /\ next' = next + 1
      /\ \/ pc' = "flush" /\ UNCHANGED textBuffer
         \/ pc' = "mark"
         \/ /\ next = Len(sentences) - 1 /\ pc' = "stream"
            /\ textBuffer' = Last(sentences)
      /\ UNCHANGED <<text, verdict, sentences>>
  BY DEF Flush, stream, completeCount
<1>3. Told' = Told /\ Words(text') = Words(text) /\ Counted'
  BY <1>2, QuietOrder
<1>4. /\ Spoken \subseteq Words(text) /\ Ordered(sentences)
      /\ \A k \in DOMAIN sentences : Words(sentences[k]) \subseteq Words(text)
  BY <1>2 DEF OrderInv, OfTheText, Ahead
<1>5. Spoken' \subseteq Words(text')
  BY <1>1, <1>3, <1>4
<1>6. Buffered'
  <2>1. CASE /\ next = Len(sentences) - 1 /\ pc' = "stream"
             /\ textBuffer' = Last(sentences)
    <3>0. Len(sentences) \in Nat /\ next \in 1 .. Len(sentences)
      BY <1>1
    <3>1. Len(sentences) \in next + 1 .. Len(sentences)
      BY <2>1, <3>0
    <3>2. Len(sentences) \in 1 .. Len(sentences)
      BY <3>0
    <3>3. textBuffer' = sentences[Len(sentences)]
      BY <2>1 DEF Last
    <3>4. QED
      BY <1>1, <1>3, <1>4, <3>1, <3>2, <3>3 DEF Buffered
  <2>2. CASE pc' \in {"flush", "mark"}
    BY <2>2 DEF Buffered
  <2>3. QED
    BY <1>2, <2>1, <2>2
<1>7. Ahead'
  BY <1>1, <1>2, <1>3, <1>4 DEF Ahead
<1>8. Fixed'
  BY <1>2, <1>3 DEF Fixed, OrderInv, verdict
<1>9. QED
  BY <1>1, <1>3, <1>5, <1>6, <1>7, <1>8 DEF OrderInv, OfTheText

LEMMA PieceOrder ==
  ASSUME TypeInv, EndInv, OrderInv, Piece
  PROVE  OrderInv'
<1>1. /\ SpokenInOrder'
      /\ \A k \in next + 1 .. Len(sentences) :
           Below(Spoken', Words(sentences[k]))
  BY SpeakOrder
<1>2. /\ pc = "prompt" /\ pc' \in {"prompt", "mark", "complete"}
      /\ pc' = "prompt" => next' = next + 1
      /\ UNCHANGED <<text, verdict, sentences>>
  BY DEF Piece, stream
<1>3. Told' = Told /\ Words(text') = Words(text) /\ Counted'
  BY <1>2, QuietOrder
<1>4. Ordered(sentences) /\ decision = "fixed" /\ ~ whole
  BY <1>2 DEF OrderInv, Ahead, Fixed, EndInv, AnswerKnown
<1>5. Ahead'
  BY <1>1, <1>2, <1>4 DEF Ahead
<1>6. OfTheText' /\ Buffered'
  BY <1>2, <1>4 DEF OfTheText, Buffered, verdict
<1>7. Fixed'
  BY <1>2, <1>3 DEF Fixed, OrderInv, verdict
<1>8. QED
  BY <1>1, <1>3, <1>5, <1>6, <1>7 DEF OrderInv

LEMMA DecideOrder ==
  ASSUME TypeInv, OrderInv, NEW type \in {"respond", "fixed"}, NEW told,
         NEW fromStream, pc = "stream", Decide(type, told, fromStream),
         type = "fixed" => /\ ~ fromStream
                           /\ \A i \in DOMAIN told : told[i] = Told + i
  PROVE  OrderInv'
<1>1. /\ pc' = "answer" /\ decision' = type /\ answer' = told
      /\ whole' = fromStream
      /\ UNCHANGED <<text, textBuffer, audio>>
  BY DEF Decide, stream
<1>2. /\ Told' = Told /\ Words(text') = Words(text) /\ Counted'
      /\ SpokenInOrder' /\ Spoken' = Spoken
  BY <1>1, QuietOrder
<1>3. OfTheText' /\ Buffered'
  BY <1>1, <1>2 DEF OrderInv, OfTheText, Buffered
<1>4. Ahead'
  BY <1>1 DEF Ahead
<1>5. Fixed'
  BY <1>1, <1>2 DEF Fixed
<1>6. QED
  BY <1>2, <1>3, <1>4, <1>5 DEF OrderInv

LEMMA FlushRestOrder ==
  ASSUME TypeInv, OrderInv, FlushRest
  PROVE  OrderInv'
<1>1. /\ pc = "answer" /\ pc' \in {"flush", "mark"}
      /\ pc' = "flush" => next' = 1
      /\ UNCHANGED <<text, verdict, textBuffer, audio>>
  BY DEF FlushRest, stream
<1>2. /\ Told' = Told /\ Words(text') = Words(text) /\ Counted'
      /\ SpokenInOrder' /\ Spoken' = Spoken
  BY <1>1, QuietOrder
<1>3. PICK split : split = splitSentences(textBuffer)
  OBVIOUS
<1>4. pc' = "flush" => sentences' = split
  BY <1>3 DEF FlushRest
<1>5. /\ Ascending(textBuffer) /\ Below(Spoken, Words(textBuffer))
      /\ Words(textBuffer) \subseteq Words(text)
      /\ Spoken \subseteq Words(text)
  BY <1>1 DEF OrderInv, OfTheText, Buffered
<1>6. /\ DOMAIN split = 1 .. Len(split) /\ Ordered(split)
      /\ \A k \in 1 .. Len(split) : Words(split[k]) \subseteq Words(textBuffer)
  BY <1>1, <1>3, <1>5, SplitWords DEF TypeInv, TypeOK
<1>7. \A k \in 1 .. Len(split) : /\ Below(Spoken, Words(split[k]))
                                 /\ Words(split[k]) \subseteq Words(text)
  BY <1>5, <1>6 DEF Below
<1>8. Ahead'
  BY <1>1, <1>2, <1>4, <1>6, <1>7 DEF Ahead
<1>9. OfTheText' /\ Buffered'
  BY <1>1, <1>2, <1>5 DEF OfTheText, Buffered
<1>10. Fixed'
  BY <1>1, <1>2 DEF Fixed, OrderInv, verdict
<1>11. QED
  BY <1>2, <1>8, <1>9, <1>10 DEF OrderInv

LEMMA StartPromptOrder ==
  ASSUME TypeInv, OrderInv, StartPrompt
  PROVE  OrderInv'
<1>1. /\ pc = "answer" /\ decision = "fixed" /\ pc' = "prompt" /\ next' = 1
      /\ UNCHANGED <<text, verdict, textBuffer, audio>>
  BY DEF StartPrompt, stream
<1>2. /\ Told' = Told /\ Words(text') = Words(text) /\ Counted'
      /\ SpokenInOrder' /\ Spoken' = Spoken
  BY <1>1, QuietOrder
<1>3. PICK s : s = [i \in DOMAIN answer |-> <<answer[i]>>]
  OBVIOUS
<1>4. sentences' = s
  BY <1>3 DEF StartPrompt
<1>5. Told \in Nat /\ Spoken \subseteq 1 .. Told
  BY <1>1, ToldType DEF OrderInv, OfTheText, Counted
<1>6. /\ ~ whole
      /\ \A i \in DOMAIN answer : answer[i] = Told + i
  BY <1>1 DEF OrderInv, Fixed
<1>7. answer \in Seq(Token)
  BY DEF TypeInv, TypeOK
<1>8. DOMAIN answer = 1 .. Len(answer) /\ Len(answer) \in Nat
  BY <1>7
<1>9. /\ DOMAIN s = 1 .. Len(answer) /\ Len(s) = Len(answer)
      /\ \A i \in 1 .. Len(answer) : s[i] = <<Told + i>>
  BY <1>3, <1>6, <1>8
<1>10. \A i \in 1 .. Len(answer) : /\ Words(s[i]) \subseteq {Told + i}
                                   /\ Ascending(s[i])
  <2> SUFFICES ASSUME NEW i \in 1 .. Len(answer)
               PROVE  Words(s[i]) \subseteq {Told + i} /\ Ascending(s[i])
    OBVIOUS
  <2>1. Told + i \in Nat
    BY <1>5, <1>8
  <2>2. Words(<<Told + i>>) \subseteq {Told + i} /\ Ascending(<<Told + i>>)
    BY <2>1, OneWord
  <2>3. QED
    BY <1>9, <2>2
<1>11. Ordered(s)
  <2>1. ASSUME NEW k \in 1 .. Len(answer), NEW l \in 1 .. Len(answer), k < l
        PROVE  Below(Words(s[k]), Words(s[l]))
    <3>1. Told + k < Told + l
      BY <1>5, <1>8, <2>1
    <3>2. QED
      BY <1>10, <3>1 DEF Below
  <2>2. QED
    BY <1>9, <1>10, <2>1 DEF Ordered
<1>12. \A k \in 1 .. Len(answer) : Below(Spoken, Words(s[k]))
  <2> SUFFICES ASSUME NEW k \in 1 .. Len(answer), NEW v \in Spoken,
                      NEW w \in Words(s[k])
               PROVE  v < w
    BY DEF Below
  <2>1. w = Told + k /\ v \in 1 .. Told
    BY <1>5, <1>10
  <2>2. QED
    BY <1>5, <1>8, <2>1
<1>13. Ahead'
  BY <1>1, <1>2, <1>4, <1>9, <1>11, <1>12 DEF Ahead
<1>14. OfTheText' /\ Buffered'
  BY <1>1, <1>6 DEF OfTheText, Buffered, verdict
<1>15. Fixed'
  BY <1>1, <1>2 DEF Fixed, OrderInv, verdict
<1>16. QED
  BY <1>2, <1>13, <1>14, <1>15 DEF OrderInv

LEMMA EndOrder ==
  ASSUME TypeInv, OrderInv, NothingToSpeak \/ Mark \/ SendText
  PROVE  OrderInv'
<1>1. /\ pc' = "complete" /\ UNCHANGED <<text, verdict>>
      /\ \E m \in {marker, textFallback} : send(m)
  BY DEF NothingToSpeak, Mark, SendText, stream
<1>2. PICK m \in {marker, textFallback} : send(m)
  BY <1>1
<1>3. SpokenInOrder' /\ Spoken' = Spoken
  BY <1>2, EndInOrder DEF TypeInv, OrderInv
<1>4. /\ Told' = Told /\ Words(text') = Words(text) /\ Counted'
  BY <1>1, QuietOrder
<1>5. OfTheText' /\ Buffered' /\ Ahead'
  BY <1>1, <1>3, <1>4 DEF OrderInv, OfTheText, Buffered, Ahead, verdict
<1>6. Fixed'
  BY <1>1, <1>4 DEF Fixed, OrderInv, verdict
<1>7. QED
  BY <1>3, <1>4, <1>5, <1>6 DEF OrderInv

LEMMA StepOrder == TypeInv /\ EndInv /\ OrderInv /\ [Next]_vars => OrderInv'
<1> SUFFICES ASSUME TypeInv, EndInv, OrderInv, [Next]_vars PROVE OrderInv'
  OBVIOUS
<1>1. CASE UNCHANGED vars
  <2>1. /\ Told' = Told /\ Words(text') = Words(text) /\ Counted'
        /\ SpokenInOrder' /\ Spoken' = Spoken
    BY <1>1, QuietOrder DEF vars
  <2>2. QED
    BY <1>1, <2>1 DEF vars, OrderInv, OfTheText, Buffered, Ahead, Fixed
<1>2. CASE \E shape \in Shapes : Chunk(shape)
  BY <1>2, ChunkOrder
<1>3. CASE \E n \in 1 .. MaxPieces : DecideFixed(n)
  <2>1. PICK n \in 1 .. MaxPieces : DecideFixed(n)
    BY <1>3
  <2>2. PICK told : told = Unstreamed(n)
    OBVIOUS
  <2>3. /\ told \in Seq(Token) /\ Len(told) = n
        /\ \A i \in 1 .. n : told[i] = Told + i
    <3>1. n \in Nat \ {0}
      OBVIOUS
    <3>2. QED
      BY <2>2, <3>1, UnstreamedFacts DEF TypeInv, Told
  <2>4. DOMAIN told = 1 .. n
    BY <2>3
  <2>5. pc = "stream" /\ Decide("fixed", told, FALSE)
    BY <2>1, <2>2 DEF DecideFixed
  <2>6. QED
    BY <2>3, <2>4, <2>5, DecideOrder
<1>4. CASE Respond
  BY <1>4, DecideOrder DEF Respond
<1>5. CASE RespondAtOnce
  BY <1>5, DecideOrder DEF RespondAtOnce
<1>6. CASE NoResult
  <2>1. /\ pc' = "complete" /\ ~ whole' /\ pc = "stream"
        /\ UNCHANGED <<text, audio, decision, answer>>
    BY <1>6 DEF NoResult, stream
  <2>2. /\ Told' = Told /\ Words(text') = Words(text) /\ Counted'
        /\ SpokenInOrder' /\ Spoken' = Spoken
    BY <2>1, QuietOrder
  <2>3. OfTheText' /\ Buffered' /\ Ahead' /\ Fixed'
    BY <2>1, <2>2 DEF OfTheText, Buffered, Ahead, Fixed, EndInv, Undecided
  <2>4. QED
    BY <2>2, <2>3 DEF OrderInv
<1>7. CASE Flush
  BY <1>7, FlushOrder
<1>8. CASE FlushRest
  BY <1>8, FlushRestOrder
<1>9. CASE StartPrompt
  BY <1>9, StartPromptOrder
<1>10. CASE Piece
  BY <1>10, PieceOrder
<1>11. CASE NothingToSpeak \/ Mark \/ SendText
  BY <1>11, EndOrder
<1>12. QED
  BY <1>1, <1>2, <1>3, <1>4, <1>5, <1>6, <1>7, <1>8, <1>9, <1>10, <1>11
     DEF Next, Speak

LEMMA OrderAlways == Spec => [](TypeInv /\ EndInv /\ OrderInv)
<1>1. QED
  BY InitType, StepType, InitEnd, StepEnd, InitOrder, StepOrder, PTL DEF Spec

(***************************************************************************)
(* Whatever the model streams and wherever a chunk ends, what is spoken is *)
(* spoken in the order of the text and never twice, although every flush   *)
(* puts its last sentence back into the buffer (server.ts:1140-1154,       *)
(* 1199-1206).                                                             *)
(***************************************************************************)
THEOREM SpokenInTextOrder == Spec => []SpokenInOrder
<1>1. OrderInv => SpokenInOrder
  BY DEF OrderInv
<1>2. QED
  BY OrderAlways, <1>1, PTL

-----------------------------------------------------------------------------
(* The lone piece that was not spoken *)

\* Without a marker, the only piece of the answer was not spoken.
LonePiece == pc = "complete" /\ voice /\ decision = "fixed"
               => \/ \E i \in DOMAIN audio : audio[i].kind = "marker"
                  \/ answer[1] \notin Spoken

LEMMA PieceLone ==
  ASSUME TypeInv, EndInv, OrderInv, Piece
  PROVE  LonePiece'
<1> SUFFICES ASSUME pc' = "complete" PROVE answer'[1] \notin Spoken'
  BY DEF LonePiece
<1>1. /\ pc = "prompt" /\ Len(sentences) = 1 /\ next = 1
      /\ UNCHANGED <<audio, answer>>
  BY DEF Piece, failed, verdict
<1>2. /\ decision = "fixed"
      /\ sentences = [i \in DOMAIN answer |-> <<answer[i]>>]
      /\ answer \in Seq(Token) /\ Told \in Nat
  BY <1>1, ToldType DEF EndInv, AnswerKnown, TypeInv, TypeOK
<1>3. /\ 1 \in DOMAIN answer /\ sentences[1] = <<answer[1]>>
      /\ 1 \in next .. Len(sentences)
  BY <1>1, <1>2
<1>4. answer[1] = Told + 1 /\ isWord(answer[1])
  BY <1>2, <1>3 DEF OrderInv, Fixed, isWord
<1>5. answer[1] \in Words(sentences[1])
  <2>1. DOMAIN <<answer[1]>> = {1} /\ <<answer[1]>>[1] = answer[1]
    OBVIOUS
  <2>2. QED
    BY <1>3, <1>4, <2>1 DEF Words
<1>6. Below(Spoken, Words(sentences[1]))
  BY <1>1, <1>3 DEF OrderInv, Ahead
<1>7. answer[1] \notin Spoken
  <2> SUFFICES ASSUME answer[1] \in Spoken PROVE FALSE
    OBVIOUS
  <2>1. answer[1] < answer[1]
    BY <1>5, <1>6 DEF Below
  <2>2. QED
    BY <1>2, <1>4, <2>1
<1>8. Spoken' = Spoken
  BY <1>1 DEF Spoken
<1>9. QED
  BY <1>1, <1>7, <1>8

LEMMA StepLone ==
  TypeInv /\ EndInv /\ OrderInv /\ LonePiece /\ [Next]_vars => LonePiece'
<1> SUFFICES ASSUME TypeInv, EndInv, OrderInv, LonePiece, [Next]_vars
             PROVE  LonePiece'
  OBVIOUS
<1>0. CASE UNCHANGED vars
  BY <1>0 DEF vars, LonePiece, Spoken
<1>1. CASE Piece
  BY <1>1, PieceLone
<1>2. CASE NothingToSpeak \/ Mark
  <2>1. send(marker) /\ marker.kind = "marker"
    BY <1>2 DEF NothingToSpeak, Mark, marker
  <2>2. audio \in Seq(Message) /\ marker \in Message
    <3>1. <<>> \in Seq(Token)
      OBVIOUS
    <3>2. QED
      BY <3>1 DEF marker, Message, TypeInv, TypeOK
  <2>3. audio'[Len(audio) + 1] = marker /\ Len(audio) + 1 \in DOMAIN audio'
    BY <2>1, <2>2, Appended DEF send
  <2>4. QED
    BY <2>1, <2>3 DEF LonePiece
<1>3. CASE NoResult
  BY <1>3 DEF NoResult, LonePiece, EndInv, Undecided
<1>4. CASE SendText
  BY <1>4 DEF SendText, LonePiece
<1>5. pc' # "complete" => LonePiece'
  BY DEF LonePiece
<1>6. CASE \/ \E shape \in Shapes : Chunk(shape)
           \/ \E n \in 1 .. MaxPieces : DecideFixed(n)
           \/ Respond \/ RespondAtOnce \/ Flush \/ FlushRest \/ StartPrompt
  <2>1. \A shape \in Shapes : Chunk(shape) => pc' # "complete"
    BY DEF Chunk
  <2>2. pc' # "complete"
    BY <1>6, <2>1 DEF DecideFixed, Respond, RespondAtOnce, Decide, Flush,
                      FlushRest, StartPrompt
  <2>3. QED
    BY <1>5, <2>2
<1>7. QED
  BY <1>0, <1>1, <1>2, <1>3, <1>4, <1>6 DEF Next, Speak

(***************************************************************************)
(* The end marker ends the audio of every turn; only a turn without a      *)
(* result and a fixed text of one piece that is not spoken go without one, *)
(* whatever else failed (server.ts:1382-1412).                             *)
(***************************************************************************)
THEOREM MarkerEndsTheAudio == Spec => []MarkerEndsAudio
<1>1. Init => LonePiece
  BY DEF Init, LonePiece
<1>2. EndInv /\ LonePiece => MarkerEndsAudio
  BY DEF EndInv, MarkerLast, MarkedAtEnd, LonePiece, MarkerEndsAudio
<1>3. QED
  BY OrderAlways, StepLone, <1>1, <1>2, PTL DEF Spec

-----------------------------------------------------------------------------
(* No word is lost *)

\* Every word is spoken, as far as the cut, the voice and the synthesis allow.
Lucky == voice /\ ~ ttsFailed /\ tidy

\* Where a stop follows every word of the text, it does in what is left of it.
Closing ==
  Closed(text) => /\ pc \in {"stream", "answer"} => Closed(textBuffer)
                  /\ pc = "flush" /\ ~ finalFlush => Closed(Last(sentences))

\* What a flush has yet to speak.
Remaining == UNION {Words(sentences[k]) : k \in next .. Len(sentences)}

\* Nothing is lost on the way, and at the end nothing of a closed text.
Kept ==
  Lucky =>
    /\ pc \in {"stream", "answer"}
         => Words(text) \subseteq Spoken \union Words(textBuffer)
    /\ pc = "flush" /\ (~ finalFlush \/ Closed(text))
         => Words(text) \subseteq Spoken \union Remaining
    /\ pc \in {"mark", "complete"} /\ whole /\ Closed(text)
         => Words(text) \subseteq Spoken

\* The answer from the stream alone has the words of its text.
Whole == whole /\ pc # "stream" /\ (pc = "flush" => finalFlush)
           => Words(answer) = Words(text)

KeptInv == Closing /\ Kept /\ Whole

\* What ends with a stop is closed, and then the cut is harmless.
LEMMA StopClosed ==
  ASSUME NEW t \in Seq(Token)
  PROVE  /\ t # <<>> /\ Last(t) = Stop => Closed(t)
         /\ Closed(t) => Harmless(t)
<1>1. DOMAIN t = 1 .. Len(t) /\ Len(t) \in Nat
  OBVIOUS
<1>2. ASSUME t # <<>>, Last(t) = Stop
      PROVE  Closed(t)
  <2>1. t[Len(t)] = Stop /\ Len(t) \in 1 .. Len(t)
    BY <1>1, <1>2 DEF Last
  <2>2. \A i \in 1 .. Len(t) : isWord(t[i]) => i < Len(t)
    BY <1>1, <2>1, Tokens
  <2>3. QED
    BY <1>1, <2>1, <2>2 DEF Closed
<1>3. QED
  BY <1>2 DEF Closed, Harmless, Covered

\* When a text with something after it is closed.
LEMMA ClosedConcat ==
  ASSUME NEW t \in Seq(Token), NEW u \in Seq(Token), u # <<>>
  PROVE  Closed(t \o u)
           <=> Closed(u) /\ (Contains(u, Stop) \/ Closed(t))
<1> PICK c : c = t \o u
  OBVIOUS
<1>1. /\ c \in Seq(Token) /\ Len(c) = Len(t) + Len(u)
      /\ Len(t) \in Nat /\ Len(u) \in Nat \ {0}
      /\ \A i \in 1 .. Len(t) : c[i] = t[i]
      /\ \A i \in 1 .. Len(u) : c[Len(t) + i] = u[i]
  BY ConcatWords
<1>2. /\ DOMAIN c = 1 .. Len(c) /\ DOMAIN t = 1 .. Len(t)
      /\ DOMAIN u = 1 .. Len(u)
      /\ \A i \in 1 .. Len(t) : i \in 1 .. Len(c)
      /\ \A i \in 1 .. Len(u) : Len(t) + i \in 1 .. Len(c)
  BY <1>1
<1>3. ASSUME NEW i \in 1 .. Len(c)
      PROVE  \/ i \in 1 .. Len(t) /\ c[i] = t[i]
             \/ \E l \in 1 .. Len(u) : i = Len(t) + l /\ c[i] = u[l]
  <2>1. CASE i <= Len(t)
    BY <1>1, <2>1
  <2>2. CASE ~ (i <= Len(t))
    <3>1. i - Len(t) \in 1 .. Len(u) /\ Len(t) + (i - Len(t)) = i
      BY <1>1, <2>2
    <3>2. QED
      BY <1>1, <3>1
  <2>3. QED
    BY <2>1, <2>2
<1>4. ASSUME Closed(c)
      PROVE  Closed(u) /\ (Contains(u, Stop) \/ Closed(t))
  <2>1. ASSUME NEW l \in 1 .. Len(u), isWord(u[l])
        PROVE  \E k \in 1 .. Len(u) : l < k /\ u[k] = Stop
    <3>1. PICK j \in 1 .. Len(c) : Len(t) + l < j /\ c[j] = Stop
      BY <1>1, <1>2, <1>4, <2>1 DEF Closed
    <3>2. ~ (j \in 1 .. Len(t))
      BY <1>1, <3>1
    <3>3. PICK k \in 1 .. Len(u) : j = Len(t) + k /\ c[j] = u[k]
      BY <1>3, <3>2
    <3>4. l < k
      BY <1>1, <3>1, <3>3
    <3>5. QED
      BY <3>1, <3>3, <3>4
  <2>2. ASSUME ~ Contains(u, Stop), NEW i \in 1 .. Len(t), isWord(t[i])
        PROVE  \E k \in 1 .. Len(t) : i < k /\ t[k] = Stop
    <3>1. PICK j \in 1 .. Len(c) : i < j /\ c[j] = Stop
      BY <1>1, <1>2, <1>4, <2>2 DEF Closed
    <3>2. ~ \E l \in 1 .. Len(u) : c[j] = u[l]
      BY <1>2, <2>2, <3>1 DEF Contains
    <3>3. j \in 1 .. Len(t) /\ c[j] = t[j]
      BY <1>3, <3>2
    <3>4. QED
      BY <3>1, <3>3
  <2>3. QED
    BY <1>2, <2>1, <2>2 DEF Closed
<1>5. ASSUME Closed(u), Contains(u, Stop) \/ Closed(t)
      PROVE  Closed(c)
  <2> SUFFICES ASSUME NEW i \in 1 .. Len(c), isWord(c[i])
               PROVE  \E j \in 1 .. Len(c) : i < j /\ c[j] = Stop
    BY <1>2 DEF Closed
  <2>1. CASE \E l \in 1 .. Len(u) : i = Len(t) + l /\ c[i] = u[l]
    <3>1. PICK l \in 1 .. Len(u) : i = Len(t) + l /\ c[i] = u[l]
      BY <2>1
    <3>2. PICK k \in 1 .. Len(u) : l < k /\ u[k] = Stop
      BY <1>2, <1>5, <3>1 DEF Closed
    <3>3. i < Len(t) + k
      BY <1>1, <3>1, <3>2
    <3>4. QED
      BY <1>1, <1>2, <3>2, <3>3
  <2>2. CASE i \in 1 .. Len(t) /\ c[i] = t[i]
    <3>1. CASE Contains(u, Stop)
      <4>1. PICK k \in 1 .. Len(u) : u[k] = Stop
        BY <1>2, <3>1 DEF Contains
      <4>2. i < Len(t) + k
        BY <1>1, <2>2, <4>1
      <4>3. QED
        BY <1>1, <1>2, <4>1, <4>2
    <3>2. CASE Closed(t)
      <4>1. PICK k \in 1 .. Len(t) : i < k /\ t[k] = Stop
        BY <1>2, <2>2, <3>2 DEF Closed
      <4>2. QED
        BY <1>1, <1>2, <4>1
    <3>3. QED
      BY <1>5, <3>1, <3>2
  <2>3. QED
    BY <1>3, <2>1, <2>2
<1>6. QED
  BY <1>4, <1>5

LEMMA InitKept == Init => KeptInv
<1> SUFFICES ASSUME Init PROVE KeptInv
  OBVIOUS
<1>1. Words(text) = {} /\ Words(answer) = {}
  BY NoWords DEF Init
<1>2. Closed(textBuffer)
  BY DEF Init, Closed
<1>3. QED
  BY <1>1, <1>2 DEF Init, KeptInv, Closing, Kept, Whole

LEMMA ChunkKept ==
  ASSUME TypeInv, EndInv, OrderInv, KeptInv, NEW shape \in Shapes, Chunk(shape)
  PROVE  KeptInv'
<1>1. PICK new, buffer, split :
        /\ new = Numbered(shape, Cardinality(Words(text)))
        /\ new \in Seq(Token) /\ new # <<>>
        /\ buffer = textBuffer \o new /\ buffer \in Seq(Token)
        /\ split = splitSentences(buffer) /\ Len(split) \in Nat
        /\ Contains(new, Stop) => split # <<>>
        /\ pc = "stream" /\ tidy' = (tidy /\ Tidy(shape))
        /\ text' = text \o new
        /\ \/ /\ ~ Contains(new, Stop)
              /\ textBuffer' = buffer /\ UNCHANGED <<pc, flush>>
           \/ /\ Contains(new, Stop) /\ Len(split) = 1
              /\ textBuffer' = Last(split) /\ UNCHANGED <<pc, flush>>
           \/ /\ Contains(new, Stop) /\ Len(split) > 1
              /\ textBuffer' = buffer /\ pc' = "flush"
              /\ sentences' = split /\ next' = 1 /\ finalFlush' = FALSE
        /\ UNCHANGED <<verdict, audio, ttsFailed, voice>>
  BY ChunkFacts DEF TypeInv
<1>2. /\ Words(text') = Words(text) \union Words(new)
      /\ Words(buffer) = Words(textBuffer) \union Words(new)
      /\ Contains(new, Stop) /\ Tidy(shape) => Harmless(buffer)
  BY <1>1, ChunkWords DEF TypeInv
<1>3. /\ \A k \in 1 .. Len(split) : split[k] \in Seq(Token) /\ split[k] # <<>>
      /\ Closed(buffer) /\ split # <<>> => Last(split[Len(split)]) = Stop
      /\ Harmless(buffer) => \A w \in Words(buffer) :
           \E k \in 1 .. Len(split) : w \in Words(split[k])
  BY <1>1, SplitWords
<1>4. Closed(text') => Closed(buffer)
  BY <1>1, ClosedConcat DEF KeptInv, Closing, TypeInv, TypeOK
<1>5. Len(split) # 0 => Len(split) \in 1 .. Len(split)
  BY <1>1
<1>6. Closed(text') /\ Len(split) # 0 => Closed(Last(split))
  <2> SUFFICES ASSUME Closed(buffer), Len(split) # 0 PROVE Closed(Last(split))
    BY <1>4
  <2>1. /\ split # <<>> /\ Last(split) = split[Len(split)]
        /\ Len(split) \in 1 .. Len(split)
    BY <1>5 DEF Last
  <2>2. PICK q : q = split[Len(split)]
    OBVIOUS
  <2>3. q \in Seq(Token) /\ q # <<>> /\ Last(q) = Stop
    BY <1>3, <2>1, <2>2
  <2>4. QED
    BY <2>1, <2>2, <2>3, StopClosed
<1>7. Spoken' = Spoken
  BY <1>1 DEF Spoken
<1>8. Lucky' => Lucky /\ Tidy(shape)
  BY <1>1 DEF Lucky
<1>9. Lucky => Words(text') \subseteq Spoken \union Words(buffer)
  BY <1>1, <1>2 DEF KeptInv, Kept
<1>10. Closing'
  <2>1. CASE textBuffer' = buffer /\ pc' = "stream"
    <3>1. Closed(text') => Closed(textBuffer')
      BY <1>4, <2>1
    <3>2. QED
      BY <2>1, <3>1 DEF Closing
  <2>2. CASE Len(split) = 1 /\ textBuffer' = Last(split) /\ pc' = "stream"
    <3>1. Closed(text') => Closed(textBuffer')
      BY <1>6, <2>2
    <3>2. QED
      BY <2>2, <3>1 DEF Closing
  <2>3. CASE Len(split) > 1 /\ sentences' = split /\ pc' = "flush"
    <3>1. Len(split) # 0
      BY <1>1, <2>3
    <3>2. Closed(text') => Closed(Last(sentences'))
      BY <1>6, <2>3, <3>1
    <3>3. QED
      BY <2>3, <3>2 DEF Closing
  <2>4. QED
    BY <1>1, <2>1, <2>2, <2>3
<1>11. CASE textBuffer' = buffer /\ UNCHANGED <<pc, flush>>
  <2>1. Kept'
    BY <1>1, <1>7, <1>8, <1>9, <1>11 DEF Kept
  <2>2. QED
    BY <1>1, <1>10, <1>11, <2>1 DEF KeptInv, Whole
<1>12. CASE /\ Contains(new, Stop) /\ Len(split) = 1
            /\ textBuffer' = Last(split) /\ UNCHANGED <<pc, flush>>
  <2>1. ASSUME Lucky'
        PROVE  Words(buffer) \subseteq Words(textBuffer')
    <3>1. Harmless(buffer)
      BY <1>2, <1>8, <1>12, <2>1
    <3>2. textBuffer' = split[Len(split)]
      BY <1>12 DEF Last
    <3>3. \A k \in 1 .. Len(split) : k = Len(split)
      BY <1>12
    <3>4. QED
      BY <1>3, <3>1, <3>2, <3>3
  <2>2. Kept'
    BY <1>1, <1>7, <1>8, <1>9, <1>12, <2>1 DEF Kept
  <2>3. QED
    BY <1>1, <1>10, <1>12, <2>2 DEF KeptInv, Whole
<1>13. CASE /\ Contains(new, Stop) /\ pc' = "flush"
            /\ sentences' = split /\ next' = 1 /\ finalFlush' = FALSE
  <2>1. ASSUME Lucky'
        PROVE  Words(buffer) \subseteq Remaining'
    <3>1. Harmless(buffer)
      BY <1>2, <1>8, <1>13, <2>1
    <3>2. Remaining' = UNION {Words(split[k]) : k \in 1 .. Len(split)}
      BY <1>13 DEF Remaining
    <3>3. QED
      BY <1>3, <3>1, <3>2
  <2>2. Kept'
    BY <1>7, <1>8, <1>9, <1>13, <2>1 DEF Kept
  <2>3. QED
    BY <1>10, <1>13, <2>2 DEF KeptInv, Whole
<1>14. QED
  BY <1>1, <1>11, <1>12, <1>13

\* What is decided is not in the stream; the buffer is left as it is.
LEMMA DecideKept ==
  ASSUME KeptInv, NEW type, NEW told, NEW fromStream, pc = "stream",
         Decide(type, told, fromStream),
         fromStream => Words(told) = Words(text)
  PROVE  KeptInv'
<1>1. /\ pc' = "answer" /\ answer' = told /\ whole' = fromStream
      /\ UNCHANGED <<text, tidy, textBuffer, audio, ttsFailed, voice>>
  BY DEF Decide, stream
<1>2. Spoken' = Spoken /\ Lucky' = Lucky
  BY <1>1 DEF Spoken, Lucky
<1>3. Closing' /\ Kept' /\ Whole'
  BY <1>1, <1>2 DEF KeptInv, Closing, Kept, Whole
<1>4. QED
  BY <1>3 DEF KeptInv

LEMMA FlushKept ==
  ASSUME TypeInv, EndInv, OrderInv, KeptInv, Flush
  PROVE  KeptInv'
<1>1. /\ next \in 1 .. Len(sentences) /\ Len(sentences) \in Nat
      /\ voice /\ ~ ttsFailed' =>
           /\ ~ ttsFailed
           /\ Spoken' = Spoken \union Words(sentences[next])
  BY SpeakOrder
<1>2. /\ pc = "flush" /\ next' = next + 1
      /\ \/ pc' = "flush"
         \/ next = Len(sentences) /\ pc' = "mark" /\ finalFlush
         \/ /\ next = Len(sentences) - 1 /\ pc' = "stream" /\ ~ finalFlush
            /\ textBuffer' = Last(sentences)
      /\ UNCHANGED <<text, tidy, verdict, sentences, finalFlush, voice>>
  BY DEF Flush, stream, completeCount
<1>3. /\ Closed(text) /\ ~ finalFlush => Closed(Last(sentences))
      /\ Lucky /\ (~ finalFlush \/ Closed(text))
           => Words(text) \subseteq Spoken \union Remaining
  BY <1>2 DEF KeptInv, Closing, Kept
<1>4. Lucky' => Lucky /\ Spoken' = Spoken \union Words(sentences[next])
  BY <1>1, <1>2 DEF Lucky
<1>5. Closing'
  <2>1. CASE pc' = "flush" \/ pc' = "mark"
    <3>1. Closed(text') /\ ~ finalFlush' => Closed(Last(sentences'))
      BY <1>2, <1>3
    <3>2. QED
      BY <2>1, <3>1 DEF Closing
  <2>2. CASE pc' = "stream" /\ ~ finalFlush /\ textBuffer' = Last(sentences)
    <3>1. Closed(text') => Closed(textBuffer')
      BY <1>2, <1>3, <2>2
    <3>2. QED
      BY <2>2, <3>1 DEF Closing
  <2>3. QED
    BY <1>2, <2>1, <2>2
<1>6. ASSUME Lucky', ~ finalFlush \/ Closed(text), NEW w \in Words(text)
      PROVE  \/ w \in Spoken'
             \/ \E k \in next + 1 .. Len(sentences) : w \in Words(sentences[k])
  <2>1. \/ w \in Spoken
        \/ \E k \in next .. Len(sentences) : w \in Words(sentences[k])
    BY <1>3, <1>4, <1>6 DEF Remaining
  <2>2. ASSUME NEW k \in next .. Len(sentences)
        PROVE  k = next \/ k \in next + 1 .. Len(sentences)
    <3>1. next \in Nat /\ Len(sentences) \in Nat
      BY <1>1
    <3>2. QED
      BY <3>1
  <2>3. QED
    BY <1>4, <1>6, <2>1, <2>2
<1>7. Words(text') = Words(text) /\ (Closed(text') <=> Closed(text))
  BY <1>2
<1>8. Kept'
  <2> SUFFICES
        ASSUME Lucky'
        PROVE  /\ pc' = "stream"
                    => Words(text) \subseteq Spoken' \union Words(textBuffer')
               /\ pc' = "flush" /\ (~ finalFlush \/ Closed(text))
                    => Words(text) \subseteq Spoken' \union Remaining'
               /\ pc' = "mark" /\ Closed(text) => Words(text) \subseteq Spoken'
    BY <1>2, <1>7 DEF Kept
  <2>1. CASE pc' = "flush"
    <3>1. Remaining' = UNION {Words(sentences[k]) :
                              k \in next + 1 .. Len(sentences)}
      BY <1>2 DEF Remaining
    <3>2. QED
      BY <1>6, <2>1, <3>1
  <2>2. CASE next = Len(sentences) /\ pc' = "mark"
    <3>1. next + 1 .. Len(sentences) = {}
      BY <1>1, <2>2
    <3>2. QED
      BY <1>6, <2>2, <3>1
  <2>3. CASE /\ next = Len(sentences) - 1 /\ pc' = "stream" /\ ~ finalFlush
             /\ textBuffer' = Last(sentences)
    <3>1. \A k \in next + 1 .. Len(sentences) : k = Len(sentences)
      BY <1>1, <2>3
    <3>2. \A k \in next + 1 .. Len(sentences) : sentences[k] = textBuffer'
      BY <2>3, <3>1 DEF Last
    <3>3. QED
      BY <1>6, <2>3, <3>2
  <2>4. QED
    BY <1>2, <2>1, <2>2, <2>3
<1>9. Whole'
  BY <1>2 DEF KeptInv, Whole, verdict
<1>10. QED
  BY <1>5, <1>8, <1>9 DEF KeptInv

LEMMA FlushRestKept ==
  ASSUME TypeInv, KeptInv, FlushRest
  PROVE  KeptInv'
<1>1. PICK split : split = splitSentences(textBuffer)
  OBVIOUS
<1>2. /\ pc = "answer"
      /\ UNCHANGED <<text, tidy, verdict, audio, ttsFailed, voice>>
      /\ \/ /\ pc' = "flush" /\ sentences' = split
            /\ next' = 1 /\ finalFlush' = TRUE
         \/ split = <<>> /\ pc' = "mark"
  BY <1>1 DEF FlushRest, stream
<1>3. /\ Closed(text) => Closed(textBuffer)
      /\ Lucky => Words(text) \subseteq Spoken \union Words(textBuffer)
  BY <1>2 DEF KeptInv, Closing, Kept
<1>4. ASSUME Closed(text), NEW w \in Words(textBuffer)
      PROVE  \E k \in 1 .. Len(split) : w \in Words(split[k])
  <2>1. textBuffer \in Seq(Token)
    BY DEF TypeInv, TypeOK
  <2>2. Harmless(textBuffer)
    BY <1>3, <1>4, <2>1, StopClosed
  <2>3. QED
    BY <1>1, <1>4, <2>1, <2>2, SplitWords
<1>5. /\ Spoken' = Spoken /\ Lucky' = Lucky
      /\ Closed(text') <=> Closed(text)
  BY <1>2 DEF Spoken, Lucky
<1>6. Kept'
  <2>1. CASE /\ pc' = "flush" /\ sentences' = split
             /\ next' = 1 /\ finalFlush' = TRUE
    <3>1. Remaining' = UNION {Words(split[k]) : k \in 1 .. Len(split)}
      BY <2>1 DEF Remaining
    <3>2. Closed(text) => Words(textBuffer) \subseteq Remaining'
      BY <1>4, <3>1
    <3>3. QED
      BY <1>2, <1>3, <1>5, <2>1, <3>2 DEF Kept
  <2>2. CASE split = <<>> /\ pc' = "mark"
    <3>1. 1 .. Len(split) = {}
      BY <2>2
    <3>2. Closed(text) => Words(textBuffer) = {}
      BY <1>4, <3>1
    <3>3. QED
      BY <1>2, <1>3, <1>5, <2>2, <3>2 DEF Kept
  <2>3. QED
    BY <1>2, <2>1, <2>2
<1>7. Closing' /\ Whole'
  BY <1>2 DEF KeptInv, Closing, Whole, verdict
<1>8. QED
  BY <1>6, <1>7 DEF KeptInv

LEMMA StepKept ==
  TypeInv /\ EndInv /\ OrderInv /\ KeptInv /\ [Next]_vars => KeptInv'
<1> SUFFICES ASSUME TypeInv, EndInv, OrderInv, KeptInv, [Next]_vars
             PROVE  KeptInv'
  OBVIOUS
<1>0. CASE UNCHANGED vars
  BY <1>0 DEF vars, KeptInv, Closing, Kept, Whole, Lucky, Remaining, Spoken
<1>1. CASE \E shape \in Shapes : Chunk(shape)
  BY <1>1, ChunkKept
<1>2. CASE \E n \in 1 .. MaxPieces : DecideFixed(n)
  BY <1>2, DecideKept DEF DecideFixed
<1>3. CASE Respond
  <2>1. Words(trim(text, 1, Len(text))) = Words(text)
    BY TrimWords DEF TypeInv, TypeOK
  <2>2. QED
    BY <1>3, <2>1, DecideKept DEF Respond
<1>4. CASE RespondAtOnce
  BY <1>4, DecideKept DEF RespondAtOnce
<1>5. CASE NoResult
  BY <1>5 DEF NoResult, KeptInv, Closing, Kept, Whole
<1>6. CASE Flush
  BY <1>6, FlushKept
<1>7. CASE FlushRest
  BY <1>7, FlushRestKept
<1>8. CASE StartPrompt \/ Piece
  <2>1. decision = "fixed" => ~ whole
    BY DEF OrderInv, Fixed
  <2>2. CASE StartPrompt
    BY <2>1, <2>2 DEF StartPrompt, verdict, KeptInv, Closing, Kept, Whole
  <2>3. CASE Piece
    <3>1. /\ pc = "prompt" /\ pc' \in {"prompt", "mark", "complete"}
          /\ UNCHANGED whole
      BY <2>3 DEF Piece, verdict
    <3>2. ~ whole
      BY <2>1, <3>1 DEF EndInv, AnswerKnown
    <3>3. QED
      BY <3>1, <3>2 DEF KeptInv, Closing, Kept, Whole
  <2>4. QED
    BY <1>8, <2>2, <2>3
<1>9. CASE NothingToSpeak
  <2>1. /\ pc = "answer" /\ pc' = "complete" /\ textBuffer = <<>>
        /\ UNCHANGED <<text, tidy, verdict, ttsFailed, voice>>
    BY <1>9 DEF NothingToSpeak, stream
  <2>2. Words(textBuffer) = {}
    BY <2>1, NoWords
  <2>3. Spoken' = Spoken
    BY <1>9, EndInOrder DEF NothingToSpeak, TypeInv, OrderInv
  <2>4. QED
    BY <2>1, <2>2, <2>3 DEF KeptInv, Closing, Kept, Whole, Lucky, verdict
<1>10. CASE Mark
  <2>1. /\ pc = "mark" /\ pc' = "complete"
        /\ UNCHANGED <<text, tidy, verdict, ttsFailed, voice>>
    BY <1>10 DEF Mark, stream
  <2>2. Spoken' = Spoken
    BY <1>10, EndInOrder DEF Mark, TypeInv, OrderInv
  <2>3. QED
    BY <2>1, <2>2 DEF KeptInv, Closing, Kept, Whole, Lucky, verdict
<1>11. CASE SendText
  <2>1. /\ pc = "answer" /\ pc' = "complete" /\ ~ voice'
        /\ UNCHANGED <<text, verdict>>
    BY <1>11 DEF SendText, stream
  <2>2. QED
    BY <2>1 DEF KeptInv, Closing, Kept, Whole, Lucky, verdict
<1>12. QED
  BY <1>0, <1>1, <1>2, <1>3, <1>4, <1>5, <1>6, <1>7, <1>8, <1>9, <1>10, <1>11
     DEF Next, Speak

\* What is not spoken is in the buffer and what is spoken is not, and at the
\* end all of a closed text is spoken.
LEMMA KeptEnough == TypeInv /\ OrderInv /\ KeptInv => TextIsKept
<1> SUFFICES ASSUME TypeInv, OrderInv, KeptInv PROVE TextIsKept
  OBVIOUS
<1>1. ASSUME tidy, pc \in {"stream", "answer"}, voice, ~ ttsFailed
      PROVE  /\ Spoken \union Words(textBuffer) = Words(text)
             /\ Spoken \intersect Words(textBuffer) = {}
  <2>1. /\ Spoken \subseteq Words(text)
        /\ Words(textBuffer) \subseteq Words(text)
        /\ Below(Spoken, Words(textBuffer))
    BY <1>1 DEF OrderInv, OfTheText, Buffered
  <2>2. Words(text) \subseteq Spoken \union Words(textBuffer)
    BY <1>1 DEF KeptInv, Kept, Lucky
  <2>3. \A w \in Words(textBuffer) : ~ (w < w)
    <3>1. \A w \in Words(textBuffer) : w \in Nat
      BY WordsFacts DEF TypeInv, TypeOK
    <3>2. QED
      BY <3>1
  <2>4. QED
    BY <2>1, <2>2, <2>3 DEF Below
<1>2. ASSUME pc = "complete", voice, ~ ttsFailed, tidy, whole, Closed(text)
      PROVE  Spoken = Words(answer)
  <2>1. Spoken \subseteq Words(text)
    BY <1>2 DEF OrderInv, OfTheText
  <2>2. Words(text) \subseteq Spoken /\ Words(answer) = Words(text)
    BY <1>2 DEF KeptInv, Kept, Whole, Lucky
  <2>3. QED
    BY <2>1, <2>2
<1>3. QED
  BY <1>1, <1>2 DEF TextIsKept, TidyTextKept, NothingDropped, WholeAnswerSpoken

(***************************************************************************)
(* As long as no white space follows a word after a chunk's last stop, no  *)
(* word is lost between the stream and the voice: until the final flush    *)
(* each is spoken or in the buffer, and a response whose words are all     *)
(* followed by a stop is spoken to its end, over any number of chunks and  *)
(* flushes (server.ts:1092-1094, 1136-1154, 1375-1385).                    *)
(***************************************************************************)
THEOREM NoWordIsLost == Spec => []TextIsKept
<1>1. Init => TypeInv /\ EndInv /\ OrderInv /\ KeptInv
  BY InitType, InitEnd, InitOrder, InitKept
<1>2. TypeInv /\ EndInv /\ OrderInv /\ KeptInv /\ [Next]_vars
        => (TypeInv /\ EndInv /\ OrderInv /\ KeptInv)'
  BY StepType, StepEnd, StepOrder, StepKept
<1>3. QED
  BY <1>1, <1>2, KeptEnough, PTL DEF Spec
=============================================================================
