------------------------- MODULE RateLimiters_proofs ------------------------
(***************************************************************************)
(* Proofs about RateLimiters: for any keys, any window and any limits.     *)
(***************************************************************************)
EXTENDS RateLimiters, FiniteSetTheorems, TLAPS

USE LimitsAssumption

Passed == [at : Nat, opener : Nat]

-----------------------------------------------------------------------------
(* The fixed window *)

(***************************************************************************)
(* What the requests that passed look like at time t: in order, each with  *)
(* an opener at most MaxRequests - 1 before it, and two windows begin more *)
(* than a Window apart.                                                    *)
(***************************************************************************)
Chain(p, t) ==
  \A i, j \in 1..Len(p) :
    /\ p[i].at <= t
    /\ p[i].opener \in 1..i /\ i - p[i].opener < MaxRequests
    /\ i <= j => p[i].at <= p[j].at /\ p[i].opener <= p[j].opener
    /\ p[i].opener < p[j].opener =>
         p[p[i].opener].at + Window < p[p[j].opener].at

\* When the window of the last request that passed began.
Began(p) == p[p[Len(p)].opener].at

\* An entry counts the requests of its window; without one, or after its
\* resetTime, the last window is over.
Entry(e, p, t) ==
  /\ e.count > 0 =>
       /\ Len(p) > 0
       /\ e.resetTime = Began(p) + Window
       /\ e.count <= MaxRequests => Len(p) + 1 - p[Len(p)].opener = e.count
       /\ e.count > MaxRequests =>
            Len(p) + 1 - p[Len(p)].opener = MaxRequests
  /\ e.count = 0 /\ Len(p) > 0 => Began(p) + Window < t

FixedInv ==
  \A k \in Keys : Chain(passed[k], now) /\ Entry(store[k], passed[k], now)

\* A request that passes keeps the chain.
LEMMA ChainAppend ==
  ASSUME NEW p \in Seq(Passed), NEW t \in Nat, Chain(p, t), NEW o \in Nat,
         o \in 1..(Len(p) + 1), Len(p) + 1 - o < MaxRequests,
         \/ o = Len(p) + 1 /\ (Len(p) > 0 => Began(p) + Window < t)
         \/ Len(p) > 0 /\ o = p[Len(p)].opener
  PROVE  Chain(Append(p, [at |-> t, opener |-> o]), t)
<1> DEFINE n == Len(p)
           r == [at |-> t, opener |-> o]
           q == Append(p, r)
<1>1. n \in Nat /\ DOMAIN p = 1..n /\ \A i \in 1..n : p[i] \in Passed
  OBVIOUS
<1>r. r \in Passed
  BY DEF Passed
<1>l. q \in Seq(Passed) /\ Len(q) = n + 1
  BY <1>r
<1>a. q[n + 1] = r /\ \A i \in 1..n : q[i] = p[i]
  OBVIOUS
<1>2. \A i \in 1..n : q[i].opener \in 1..i /\ q[q[i].opener] = p[p[i].opener]
  <2> TAKE i \in 1..n
  <2>1. q[i] = p[i] /\ p[i].opener \in 1..i
    BY <1>a DEF Chain
  <2>2. p[i].opener \in 1..n
    BY <2>1, <1>1
  <2> QED
    BY <2>1, <2>2, <1>a
<1>3. \A i \in 1..n :
        /\ p[i].opener \in 1..n
        /\ p[i].opener <= p[n].opener
        /\ p[p[i].opener].at <= p[p[n].opener].at
        /\ p[p[i].opener].at \in Nat /\ p[i].at \in Nat
  <2> TAKE i \in 1..n
  <2>1. p[i].opener \in 1..n /\ p[n].opener \in 1..n
    BY <1>1 DEF Chain
  <2>2. p[i].opener <= p[n].opener
    BY <1>1 DEF Chain
  <2>3. p[p[i].opener].at <= p[p[n].opener].at
    BY <2>1, <2>2 DEF Chain
  <2>4. p[p[i].opener] \in Passed /\ p[i] \in Passed
    BY <2>1, <1>1
  <2> QED
    BY <2>1, <2>2, <2>3, <2>4 DEF Passed
<1>4. \A i \in 1..n : q[i].opener < o => p[p[i].opener].at + Window < q[o].at
  <2>1. CASE o = n + 1 /\ (n > 0 => Began(p) + Window < t)
    BY <1>1, <1>a, <1>3, <2>1 DEF Began
  <2>2. CASE n > 0 /\ o = p[n].opener
    BY <1>1, <1>a, <1>2, <1>3, <2>2 DEF Chain
  <2>3. QED
    BY <2>1, <2>2
<1>5. \A i \in 1..n : q[i].at <= t /\ q[i].opener <= o
  <2> TAKE i \in 1..n
  <2>1. q[i] = p[i] /\ p[i].at <= t /\ p[i].opener \in 1..n
    BY <1>1, <1>a, <1>3 DEF Chain
  <2>2. p[i].opener <= o
    BY <1>1, <1>3
  <2> QED
    BY <2>1, <2>2
<1>6. SUFFICES ASSUME NEW i \in 1..(n + 1), NEW j \in 1..(n + 1)
               PROVE  /\ q[i].at <= t
                      /\ q[i].opener \in 1..i /\ i - q[i].opener < MaxRequests
                      /\ i <= j => /\ q[i].at <= q[j].at
                                   /\ q[i].opener <= q[j].opener
                      /\ q[i].opener < q[j].opener =>
                           q[q[i].opener].at + Window < q[q[j].opener].at
  BY <1>1 DEF Chain
<1>7. CASE i \in 1..n /\ j \in 1..n
  BY <1>1, <1>2, <1>7 DEF Chain
<1>8. CASE i \in 1..n /\ j = n + 1
  BY <1>1, <1>2, <1>4, <1>5, <1>8 DEF Chain
<1>9. CASE i = n + 1 /\ j \in 1..n
  BY <1>1, <1>2, <1>5, <1>9 DEF Passed
<1>10. CASE i = n + 1 /\ j = n + 1
  BY <1>1, <1>10
<1>11. (i \in 1..n \/ i = n + 1) /\ (j \in 1..n \/ j = n + 1)
  BY <1>1
<1>12. QED
  BY <1>7, <1>8, <1>9, <1>10, <1>11, Zenon

\* The window of the last request that passed has a beginning.
LEMMA BeganNat ==
  ASSUME NEW p \in Seq(Passed), NEW t \in Nat, Chain(p, t), Len(p) > 0
  PROVE  /\ p[Len(p)].opener \in 1..Len(p)
         /\ Began(p) \in Nat
<1>1. Len(p) \in 1..Len(p)
  OBVIOUS
<1>2. p[Len(p)].opener \in 1..Len(p)
  BY <1>1 DEF Chain
<1>3. p[p[Len(p)].opener] \in Passed
  BY <1>2
<1>4. QED
  BY <1>2, <1>3 DEF Began, Passed

\* Time that passes disturbs neither.
LEMMA Later ==
  ASSUME NEW p \in Seq(Passed), NEW t \in Nat, NEW e \in [count : Nat,
         resetTime : Nat], Chain(p, t), Entry(e, p, t)
  PROVE  Chain(p, t + 1) /\ Entry(e, p, t + 1)
<1>1. \A i \in 1..Len(p) : p[i] \in Passed
  OBVIOUS
<1>2. \A i \in 1..Len(p) : p[i].at \in Nat /\ p[i].at <= t
  BY <1>1 DEF Passed, Chain
<1>3. Chain(p, t + 1)
  <2>1. \A i \in 1..Len(p) : p[i].at <= t + 1
    BY <1>2
  <2>2. QED
    BY <2>1 DEF Chain
<1>4. Entry(e, p, t + 1)
  BY BeganNat DEF Entry
<1>5. QED
  BY <1>3, <1>4

\* An entry whose window is over can go.
LEMMA Over ==
  ASSUME NEW p \in Seq(Passed), NEW t \in Nat, NEW e \in [count : Nat,
         resetTime : Nat], Chain(p, t), Entry(e, p, t),
         e.count = 0 \/ t > e.resetTime
  PROVE  /\ Len(p) > 0 => Began(p) + Window < t
         /\ Entry(NoEntry, p, t)
BY BeganNat DEF Entry, NoEntry

\* A request that opens a window.
LEMMA Opens ==
  ASSUME NEW p \in Seq(Passed), NEW t \in Nat, Chain(p, t),
         Len(p) > 0 => Began(p) + Window < t
  PROVE  LET q == Append(p, [at |-> t, opener |-> Len(p) + 1])
         IN  /\ q \in Seq(Passed) /\ Chain(q, t)
             /\ Entry([count |-> 1, resetTime |-> t + Window], q, t)
<1> DEFINE r == [at |-> t, opener |-> Len(p) + 1]
           q == Append(p, r)
<1>1. r \in Passed /\ q \in Seq(Passed) /\ Len(q) = Len(p) + 1
  BY DEF Passed
<1>2. Chain(q, t)
  BY ChainAppend
<1>3. q[Len(q)] = r /\ Began(q) = t
  BY <1>1 DEF Began
<1>4. Entry([count |-> 1, resetTime |-> t + Window], q, t)
  BY <1>1, <1>3 DEF Entry
<1>5. QED
  BY <1>1, <1>2, <1>4

\* A request of a running window, passed or refused.
LEMMA Counts ==
  ASSUME NEW p \in Seq(Passed), NEW t \in Nat, NEW e \in [count : Nat,
         resetTime : Nat], Chain(p, t), Entry(e, p, t), e.count > 0
  PROVE  LET f == [e EXCEPT !.count = @ + 1]
             q == Append(p, [at |-> t, opener |-> p[Len(p)].opener])
         IN  IF e.count + 1 > MaxRequests THEN Entry(f, p, t)
             ELSE q \in Seq(Passed) /\ Chain(q, t) /\ Entry(f, q, t)
<1> DEFINE o == p[Len(p)].opener
           f == [e EXCEPT !.count = @ + 1]
           r == [at |-> t, opener |-> o]
           q == Append(p, r)
<1>1. Len(p) > 0 /\ e.resetTime = Began(p) + Window
  BY DEF Entry
<1>2. o \in 1..Len(p) /\ Began(p) \in Nat
  BY <1>1, BeganNat
<1>3. f.count = e.count + 1 /\ f.resetTime = e.resetTime
  OBVIOUS
<1>4. CASE e.count + 1 > MaxRequests
  BY <1>1, <1>3, <1>4 DEF Entry
<1>5. CASE ~ (e.count + 1 > MaxRequests)
  <2>1. Len(p) + 1 - o = e.count
    BY <1>5 DEF Entry
  <2>2. r \in Passed /\ q \in Seq(Passed) /\ Len(q) = Len(p) + 1
    BY <1>2 DEF Passed
  <2>3. Chain(q, t)
    BY <1>1, <1>2, <1>5, <2>1, ChainAppend
  <2>4. q[Len(q)] = r /\ q[o] = p[o] /\ r.opener = o
    BY <1>2, <2>2
  <2>5. q[Len(q)].opener = o /\ Began(q) = Began(p)
    BY <2>4, Zenon DEF Began
  <2>6. Entry(f, q, t)
    <3>1. f.count \in 1..MaxRequests /\ Len(q) > 0
      BY <1>3, <1>5, <2>2
    <3>2. f.resetTime = Began(q) + Window
      BY <1>1, <1>3, <2>5
    <3>3. Len(q) + 1 - q[Len(q)].opener = f.count
      BY <1>2, <1>3, <2>1, <2>2, <2>5
    <3> HIDE DEF f, q
    <3>4. QED
      BY <3>1, <3>2, <3>3 DEF Entry
  <2>7. QED
    BY <1>5, <2>2, <2>3, <2>6
<1>6. QED
  BY <1>4, <1>5

-----------------------------------------------------------------------------
(* The sliding window *)

\* The first calls come no later than the last, none later than now, and a
\* call less than a Window old is still recorded.
Slide(a, rec, t) ==
  /\ rec \subseteq DOMAIN a
  /\ \A i, j \in DOMAIN a : a[i] <= t /\ (i <= j => a[i] <= a[j])
  /\ \A i \in DOMAIN a : t - a[i] < Window => i \in rec
  /\ \A i, j \in DOMAIN a : j = i + MaxCalls => a[j] - a[i] >= Window

\* The recorded calls that are less than a Window old.
Young(a, rec, t) == {i \in rec : t - a[i] < Window}

SlideInv == \A k \in Keys : Slide(admitted[k], recent[k], now)

\* Time that passes only makes calls older.
LEMMA SlideLater ==
  ASSUME NEW a \in Seq(Nat), NEW rec, NEW t \in Nat, Slide(a, rec, t)
  PROVE  Slide(a, rec, t + 1)
<1>1. \A i \in DOMAIN a : a[i] \in Nat
  OBVIOUS
<1>2. QED
  BY <1>1 DEF Slide

\* With a full Window of MaxCalls or more there is no place: the calls between
\* an old one and now that are young are fewer than MaxCalls.
LEMMA Crowd ==
  ASSUME NEW a \in Seq(Nat), NEW rec, NEW t \in Nat, Slide(a, rec, t),
         NEW i \in DOMAIN a, i = Len(a) + 1 - MaxCalls, t - a[i] < Window
  PROVE  Cardinality(Young(a, rec, t)) >= MaxCalls
<1>1. /\ Len(a) \in Nat /\ DOMAIN a = 1..Len(a)
      /\ \A j \in 1..Len(a) : a[j] \in Nat
  OBVIOUS
<1>2. ASSUME NEW j \in i..Len(a) PROVE j \in Young(a, rec, t)
  <2>1. i \in 1..Len(a) /\ j \in 1..Len(a) /\ i <= j
    BY <1>1
  <2>2. a[i] \in Nat /\ a[j] \in Nat /\ a[i] <= a[j]
    BY <1>1, <2>1 DEF Slide
  <2>3. t - a[j] < Window
    BY <2>2
  <2>4. QED
    BY <1>1, <2>1, <2>3 DEF Slide, Young
<1>3. IsFiniteSet(Young(a, rec, t))
  <2>1. IsFiniteSet(1..Len(a))
    BY <1>1, FS_Interval
  <2>2. Young(a, rec, t) \subseteq 1..Len(a)
    BY <1>1 DEF Young, Slide
  <2>3. QED
    BY <2>1, <2>2, FS_Subset
<1>4. Cardinality(i..Len(a)) = MaxCalls
  BY <1>1, FS_Interval
<1>5. Cardinality(i..Len(a)) <= Cardinality(Young(a, rec, t))
  BY <1>2, <1>3, FS_Subset
<1>6. Cardinality(Young(a, rec, t)) \in Nat
  BY <1>3, FS_CardinalityType
<1>7. QED
  BY <1>4, <1>5, <1>6

\* A call that finds fewer than MaxCalls young ones keeps the slide.
LEMMA SlideAppend ==
  ASSUME NEW a \in Seq(Nat), NEW rec, NEW t \in Nat, Slide(a, rec, t),
         Cardinality(Young(a, rec, t)) < MaxCalls
  PROVE  Slide(Append(a, t), Young(a, rec, t) \union {Len(a) + 1}, t)
<1> DEFINE n == Len(a)
           b == Append(a, t)
           s == Young(a, rec, t) \union {n + 1}
<1>1. /\ n \in Nat /\ DOMAIN a = 1..n /\ DOMAIN b = 1..(n + 1)
      /\ b[n + 1] = t /\ \A i \in 1..n : b[i] = a[i] /\ a[i] \in Nat
  OBVIOUS
<1>2. s \subseteq 1..(n + 1)
  BY <1>1 DEF Slide, Young
<1>3. ASSUME NEW i \in 1..(n + 1), t - b[i] < Window PROVE i \in s
  <2>1. CASE i \in 1..n
    <3>1. t - a[i] < Window /\ i \in rec
      BY <1>1, <1>3, <2>1 DEF Slide
    <3>2. QED
      BY <3>1 DEF Young
  <2>2. QED
    BY <1>1, <2>1
<1>4. \A i, j \in 1..(n + 1) : b[i] <= t /\ (i <= j => b[i] <= b[j])
  BY <1>1 DEF Slide
<1>5. ASSUME NEW i \in 1..(n + 1), NEW j \in 1..(n + 1), j = i + MaxCalls
      PROVE  b[j] - b[i] >= Window
  <2>1. i \in 1..n
    BY <1>1, <1>5
  <2>2. CASE j \in 1..n
    BY <1>1, <1>5, <2>1, <2>2 DEF Slide
  <2>3. CASE j = n + 1
    <3>1. i = n + 1 - MaxCalls
      BY <1>1, <1>5, <2>3
    <3>2. Cardinality(Young(a, rec, t)) \in Nat
      <4>1. Young(a, rec, t) \subseteq 1..n
        BY <1>1 DEF Young, Slide
      <4>2. QED
        <5>1. IsFiniteSet(1..n)
          BY <1>1, FS_Interval
        <5>2. IsFiniteSet(Young(a, rec, t))
          BY <4>1, <5>1, FS_Subset
        <5>3. QED
          BY <5>2, FS_CardinalityType
    <3>3. ~ (t - a[i] < Window)
      BY <1>1, <2>1, <3>1, <3>2, Crowd
    <3>4. QED
      BY <1>1, <2>1, <2>3, <3>3
  <2>4. QED
    BY <1>1, <2>2, <2>3
<1>6. QED
  <2> HIDE DEF b, s, n
  <2>1. Slide(b, s, t)
    BY <1>1, <1>2, <1>3, <1>4, <1>5 DEF Slide
  <2>2. QED
    BY <2>1 DEF b, s, n

\* When no further call is admitted, the last MaxCalls are young.
LEMMA FullForCause ==
  ASSUME NEW a \in Seq(Nat), NEW rec, NEW t \in Nat, Slide(a, rec, t),
         Cardinality(Young(a, rec, t)) >= MaxCalls
  PROVE  /\ Len(a) >= MaxCalls
         /\ t - a[Len(a) + 1 - MaxCalls] < Window
<1> DEFINE n == Len(a)
           i == n + 1 - MaxCalls
<1>1. n \in Nat /\ DOMAIN a = 1..n /\ \A j \in 1..n : a[j] \in Nat
  OBVIOUS
<1>2. IsFiniteSet(1..n) /\ Cardinality(1..n) = n
  <2>1. 1 \in Int /\ n \in Int
    BY <1>1
  <2>2. Cardinality(1..n) = IF 1 > n THEN 0 ELSE n - 1 + 1
    BY <2>1, FS_Interval
  <2>3. IsFiniteSet(1..n)
    BY <2>1, FS_Interval
  <2>4. QED
    BY <1>1, <2>2, <2>3
<1>3. Young(a, rec, t) \subseteq 1..n
  BY <1>1 DEF Young, Slide
<1>4. IsFiniteSet(Young(a, rec, t)) /\ Cardinality(Young(a, rec, t)) <= n
  BY <1>2, <1>3, FS_Subset
<1>5. Cardinality(Young(a, rec, t)) \in Nat
  BY <1>4, FS_CardinalityType
<1>6. n >= MaxCalls
  BY <1>1, <1>4, <1>5
<1>7. i \in 1..n
  BY <1>1, <1>6
<1>8. SUFFICES ASSUME ~ (t - a[i] < Window) PROVE FALSE
  BY <1>6
<1>9. ASSUME NEW j \in Young(a, rec, t) PROVE j \in (i + 1)..n
  <2>1. j \in 1..n /\ t - a[j] < Window
    BY <1>3 DEF Young
  <2>2. j <= i => a[j] <= a[i]
    BY <1>1, <1>7, <2>1 DEF Slide
  <2>3. a[i] \in Nat /\ a[j] \in Nat
    BY <1>1, <1>7, <2>1
  <2>4. ~ (j <= i)
    BY <1>8, <2>1, <2>2, <2>3
  <2>5. QED
    BY <1>1, <1>7, <2>1, <2>4
<1>10. IsFiniteSet((i + 1)..n) /\ Cardinality((i + 1)..n) = MaxCalls - 1
  <2>1. i + 1 \in Int /\ n \in Int
    BY <1>1, <1>7
  <2>2. /\ IsFiniteSet((i + 1)..n)
        /\ Cardinality((i + 1)..n)
             = IF i + 1 > n THEN 0 ELSE n - (i + 1) + 1
    BY <2>1, FS_Interval
  <2>3. (IF i + 1 > n THEN 0 ELSE n - (i + 1) + 1) = MaxCalls - 1
    BY <1>1, <1>6, LimitsAssumption
  <2>4. QED
    BY <2>2, <2>3
<1>11. Cardinality(Young(a, rec, t)) <= MaxCalls - 1
  BY <1>9, <1>10, FS_Subset
<1>12. QED
  BY <1>5, <1>11

-----------------------------------------------------------------------------
(* The invariant, action by action *)

Safe == TypeOK /\ FixedInv /\ SlideInv

LEMMA InitSafe == Init => Safe
BY DEF Init, Safe, TypeOK, FixedInv, SlideInv, Chain, Entry, Slide, NoEntry

\* What the lemmas above need of a state.
LEMMA SafeAt ==
  ASSUME Safe, NEW k \in Keys
  PROVE  /\ now \in Nat
         /\ store[k] \in [count : Nat, resetTime : Nat]
         /\ passed[k] \in Seq(Passed) /\ admitted[k] \in Seq(Nat)
         /\ Chain(passed[k], now) /\ Entry(store[k], passed[k], now)
         /\ Slide(admitted[k], recent[k], now)
BY DEF Safe, TypeOK, FixedInv, SlideInv, Passed

LEMMA TickSafe == Safe /\ Tick => Safe'
<1> SUFFICES ASSUME Safe, Tick PROVE Safe'
  OBVIOUS
<1>1. TypeOK'
  BY DEF Safe, Tick, TypeOK
<1>2. ASSUME NEW k \in Keys
      PROVE  /\ Chain(passed[k], now + 1) /\ Entry(store[k], passed[k], now + 1)
             /\ Slide(admitted[k], recent[k], now + 1)
  BY SafeAt, Later, SlideLater
<1>3. QED
  BY <1>1, <1>2 DEF Safe, FixedInv, SlideInv, Tick

LEMMA SweepSafe == Safe /\ Sweep => Safe'
<1> SUFFICES ASSUME Safe, Sweep PROVE Safe'
  OBVIOUS
<1>1. TypeOK'
  BY DEF Safe, Sweep, TypeOK, NoEntry
<1>2. ASSUME NEW k \in Keys
      PROVE  Chain(passed[k], now) /\ Entry(store'[k], passed[k], now)
  <2>1. CASE now > store[k].resetTime
    <3>1. store'[k] = NoEntry
      BY <2>1 DEF Sweep
    <3>2. QED
      BY <2>1, <3>1, SafeAt, Over
  <2>2. CASE ~ (now > store[k].resetTime)
    <3>1. store'[k] = store[k]
      BY <2>2 DEF Sweep
    <3>2. QED
      BY <3>1, SafeAt
  <2>3. QED
    BY <2>1, <2>2
<1>3. QED
  BY <1>1, <1>2 DEF Safe, FixedInv, SlideInv, Sweep

LEMMA RequestSafe == ASSUME Safe, NEW k \in Keys, Request(k) PROVE Safe'
<1> DEFINE e == store[k]   p == passed[k]
<1>1. /\ now \in Nat
      /\ e \in [count : Nat, resetTime : Nat] /\ p \in Seq(Passed)
      /\ Chain(p, now) /\ Entry(e, p, now)
  BY SafeAt
<1>2. /\ store'[k] \in [count : Nat, resetTime : Nat]
      /\ passed'[k] \in Seq(Passed)
      /\ Chain(passed'[k], now) /\ Entry(store'[k], passed'[k], now)
      /\ store' = [store EXCEPT ![k] = store'[k]]
      /\ passed' = [passed EXCEPT ![k] = passed'[k]]
  <2>0. /\ store \in [Keys -> [count : Nat, resetTime : Nat]]
        /\ passed \in [Keys -> Seq(Passed)]
    BY DEF Safe, TypeOK, Passed
  <2>1. CASE fresh(k)
    <3>1. Len(p) > 0 => Began(p) + Window < now
      BY <1>1, <2>1, Over DEF fresh
    <3>2. /\ store' = [store EXCEPT ![k] =
                         [count |-> 1, resetTime |-> now + Window]]
          /\ passed' = [passed EXCEPT ![k] =
                          Append(p, [at |-> now, opener |-> Len(p) + 1])]
      BY <2>1 DEF Request, pass
    <3>3. QED
      BY <1>1, <2>0, <3>1, <3>2, Opens
  <2>2. CASE ~ fresh(k)
    <3>1. e.count > 0
      BY <1>1, <2>2 DEF fresh
    <3>2. /\ store' = [store EXCEPT ![k] = [e EXCEPT !.count = @ + 1]]
          /\ IF e.count + 1 > MaxRequests THEN passed' = passed
             ELSE passed' = [passed EXCEPT ![k] =
                    Append(p, [at |-> now, opener |-> p[Len(p)].opener])]
      BY <2>2 DEF Request, pass
    <3>3. CASE e.count + 1 > MaxRequests
      <4>1. Entry([e EXCEPT !.count = @ + 1], p, now)
        BY <1>1, <3>1, <3>3, Counts
      <4>2. store'[k] = [e EXCEPT !.count = @ + 1] /\ passed' = passed
        BY <2>0, <3>2, <3>3
      <4>3. store' = [store EXCEPT ![k] = store'[k]]
        BY <3>2, <4>2
      <4>4. passed' = [passed EXCEPT ![k] = passed'[k]]
        BY <2>0, <4>2
      <4>5. store'[k] \in [count : Nat, resetTime : Nat]
        BY <1>1, <4>2
      <4>6. QED
        BY <1>1, <4>1, <4>2, <4>3, <4>4, <4>5
    <3>4. CASE ~ (e.count + 1 > MaxRequests)
      <4> DEFINE q == Append(p, [at |-> now, opener |-> p[Len(p)].opener])
      <4>1. /\ q \in Seq(Passed) /\ Chain(q, now)
            /\ Entry([e EXCEPT !.count = @ + 1], q, now)
        BY <1>1, <3>1, <3>4, Counts
      <4>2. store'[k] = [e EXCEPT !.count = @ + 1] /\ passed'[k] = q
        BY <2>0, <3>2, <3>4
      <4>3. /\ store' = [store EXCEPT ![k] = store'[k]]
            /\ passed' = [passed EXCEPT ![k] = passed'[k]]
        BY <3>2, <3>4, <4>2
      <4>4. store'[k] \in [count : Nat, resetTime : Nat]
        BY <1>1, <4>2
      <4> HIDE DEF q
      <4>5. QED
        BY <4>1, <4>2, <4>3, <4>4
    <3>5. QED
      BY <3>3, <3>4
  <2>3. QED
    BY <2>1, <2>2
<1>3. TypeOK'
  BY <1>2 DEF Safe, TypeOK, Request, Passed
<1>4. FixedInv'
  BY <1>2 DEF Safe, TypeOK, FixedInv, Request
<1>5. QED
  BY <1>3, <1>4 DEF Safe, SlideInv, Request

LEMMA AdmitSafe == ASSUME Safe, NEW k \in Keys, Admit(k) PROVE Safe'
<1> DEFINE a == admitted[k]
<1>1. now \in Nat /\ a \in Seq(Nat) /\ Slide(a, recent[k], now)
  BY SafeAt
<1>2. inWindow(k) = Young(a, recent[k], now)
  BY DEF inWindow, Young
<1>3. /\ admitted' = [admitted EXCEPT ![k] = Append(a, now)]
      /\ recent' = [recent EXCEPT ![k] =
                      Young(a, recent[k], now) \union {Len(a) + 1}]
      /\ UNCHANGED <<now, store, passed>>
  BY <1>2 DEF Admit
<1>4. Slide(admitted'[k], recent'[k], now)
  <2>1. /\ admitted'[k] = Append(a, now)
        /\ recent'[k] = Young(a, recent[k], now) \union {Len(a) + 1}
    BY <1>3 DEF Safe, TypeOK
  <2>2. Cardinality(Young(a, recent[k], now)) < MaxCalls
    BY <1>2 DEF Admit
  <2>3. Slide(Append(a, now), Young(a, recent[k], now) \union {Len(a) + 1}, now)
    BY <1>1, <2>2, SlideAppend
  <2>4. QED
    BY <2>1, <2>3
<1>5. TypeOK'
  <2>1. recent'[k] \subseteq DOMAIN admitted'[k] /\ admitted'[k] \in Seq(Nat)
    BY <1>1, <1>3, <1>4 DEF Slide, Safe, TypeOK
  <2>2. recent'[k] \subseteq Nat
    BY <2>1
  <2>3. QED
    BY <1>3, <2>1, <2>2 DEF Safe, TypeOK
<1>6. SlideInv'
  BY <1>3, <1>4 DEF Safe, TypeOK, SlideInv
<1>7. QED
  BY <1>3, <1>5, <1>6 DEF Safe, FixedInv

LEMMA StepSafe == Safe /\ [Next]_vars => Safe'
<1> SUFFICES ASSUME Safe, [Next]_vars PROVE Safe'
  OBVIOUS
<1>1. CASE Tick
  BY <1>1, TickSafe
<1>2. CASE Sweep
  BY <1>2, SweepSafe
<1>3. CASE \E k \in Keys : Request(k) \/ Admit(k)
  BY <1>3, RequestSafe, AdmitSafe
<1>4. CASE UNCHANGED vars
  BY <1>4 DEF vars, Safe, TypeOK, FixedInv, SlideInv
<1>5. QED
  BY <1>1, <1>2, <1>3, <1>4 DEF Next

\* Every reachable state of Spec is Safe.
THEOREM Safety == Spec => []Safe
BY InitSafe, StepSafe, PTL DEF Spec

-----------------------------------------------------------------------------
(* What follows from the invariant *)

\* The counters, the maps and their histories have their types.
THEOREM TypeCorrect == Spec => []TypeOK
BY Safety, PTL DEF Safe

LEMMA BurstFromSafe == Safe => FixedBurst
<1> SUFFICES ASSUME Safe, NEW k \in Keys,
                    NEW i \in DOMAIN passed[k], NEW j \in DOMAIN passed[k],
                    j = i + 2 * MaxRequests - 1
             PROVE  passed[k][j].at - passed[k][i].at > Window
  BY DEF FixedBurst
<1> DEFINE p == passed[k]
           o == p[j].opener
           m == o - 1
           b == p[m].opener
<1>1. p \in Seq(Passed) /\ Chain(p, now)
  BY SafeAt
<1> HIDE DEF p
<1>2. i \in 1..Len(p) /\ j \in 1..Len(p) /\ Len(p) \in Nat
  BY <1>1 DEF p
<1>3. o \in 1..j /\ j - o < MaxRequests
  BY <1>1, <1>2 DEF Chain
<1>4. /\ m \in i..Len(p) /\ m \in 1..Len(p) /\ o \in 1..Len(p)
      /\ m - i >= MaxRequests - 1
  BY <1>2, <1>3
<1>5. b \in 1..m /\ m - b < MaxRequests
  BY <1>1, <1>4 DEF Chain
<1>6. b >= i /\ b < o /\ b \in 1..Len(p)
  <2> HIDE DEF b
  <2>1. /\ b \in Int /\ o \in Int /\ i \in Int /\ m = o - 1
        /\ b >= 1 /\ b <= m /\ m <= Len(p) /\ MaxRequests \in Int
    BY <1>2, <1>4, <1>5, LimitsAssumption
  <2> HIDE DEF m
  <2>2. b >= i
    BY <1>4, <1>5, <2>1
  <2>3. b < o /\ b \in 1..Len(p)
    BY <1>2, <2>1
  <2>4. QED
    BY <2>2, <2>3
<1>7. p[b].at + Window < p[o].at
  BY <1>1, <1>2, <1>4, <1>6 DEF Chain
<1>8. p[i].at <= p[b].at /\ p[o].at <= p[j].at
  <2>1. o <= j /\ i <= b
    BY <1>2, <1>3, <1>6
  <2>2. p[i].at <= p[b].at
    BY <1>1, <1>2, <1>6, <2>1 DEF Chain
  <2>3. p[o].at <= p[j].at
    BY <1>1, <1>2, <1>4, <2>1 DEF Chain
  <2>4. QED
    BY <2>2, <2>3
<1>9. p[i] \in Passed /\ p[b] \in Passed /\ p[o] \in Passed /\ p[j] \in Passed
  <2>1. \A x \in 1..Len(p) : p[x] \in Passed
    BY <1>1
  <2> HIDE DEF b, m, o
  <2>2. QED
    BY <1>2, <1>4, <1>6, <2>1
<1>10. /\ p[i].at \in Nat /\ p[b].at \in Nat
       /\ p[o].at \in Nat /\ p[j].at \in Nat
  BY <1>9 DEF Passed
<1>11. p[j].at - p[i].at > Window
  BY <1>7, <1>8, <1>10, LimitsAssumption
<1>12. QED
  BY <1>11 DEF p

(***************************************************************************)
(* However the requests of a key fall around the windows' boundaries and   *)
(* the sweeps, 2 * MaxRequests of those that pass span more than a Window. *)
(***************************************************************************)
THEOREM BurstIsBounded == Spec => []FixedBurst
BY Safety, BurstFromSafe, PTL

LEMMA LimitFromSafe == Safe => SlidingLimit
BY SafeAt DEF SlidingLimit, Slide

\* Any MaxCalls + 1 consecutive calls that the executor admits span a Window.
THEOREM LimitIsKept == Spec => []SlidingLimit
BY Safety, LimitFromSafe, PTL

LEMMA CauseFromSafe == Safe => RefusedForCause
<1> SUFFICES ASSUME Safe, NEW k \in Keys
             PROVE  /\ FixedRefuses(k) =>
                         /\ Len(passed[k]) >= MaxRequests
                         /\ now - passed[k][Len(passed[k]) + 1 - MaxRequests].at
                              <= Window
                    /\ SlidingRefuses(k) =>
                         /\ Len(admitted[k]) >= MaxCalls
                         /\ now - admitted[k][Len(admitted[k]) + 1 - MaxCalls]
                              < Window
  BY DEF RefusedForCause
<1>1. ASSUME FixedRefuses(k)
      PROVE  /\ Len(passed[k]) >= MaxRequests
             /\ now - passed[k][Len(passed[k]) + 1 - MaxRequests].at <= Window
  <2> DEFINE p == passed[k]   e == store[k]
  <2>1. /\ now \in Nat /\ e \in [count : Nat, resetTime : Nat]
        /\ p \in Seq(Passed) /\ Chain(p, now) /\ Entry(e, p, now)
    BY SafeAt
  <2>2. e.count > 0 /\ e.count >= MaxRequests /\ now <= e.resetTime
    BY <1>1, <2>1 DEF FixedRefuses, fresh
  <2> HIDE DEF p, e
  <2>3. Len(p) > 0 /\ e.resetTime = Began(p) + Window
    BY <2>1, <2>2 DEF Entry
  <2>4. p[Len(p)].opener \in 1..Len(p) /\ Began(p) \in Nat
    BY <2>1, <2>3, BeganNat
  <2>5. Len(p) + 1 - p[Len(p)].opener = MaxRequests
    BY <2>1, <2>2 DEF Entry
  <2>6. p[Len(p)].opener = Len(p) + 1 - MaxRequests
    BY <2>1, <2>4, <2>5
  <2>7. Began(p) = p[Len(p) + 1 - MaxRequests].at
    BY <2>6 DEF Began
  <2>8. now <= Began(p) + Window
    BY <2>2, <2>3
  <2>9. QED
    BY <2>1, <2>4, <2>6, <2>7, <2>8 DEF p
<1>2. ASSUME SlidingRefuses(k)
      PROVE  /\ Len(admitted[k]) >= MaxCalls
             /\ now - admitted[k][Len(admitted[k]) + 1 - MaxCalls] < Window
  <2>1. Cardinality(Young(admitted[k], recent[k], now)) >= MaxCalls
    BY <1>2 DEF SlidingRefuses, inWindow, Young
  <2>2. QED
    BY <2>1, SafeAt, FullForCause
<1>3. QED
  BY <1>1, <1>2

\* A request or a call that is refused finds a full quota behind it.
THEOREM RefusalHasCause == Spec => []RefusedForCause
BY Safety, CauseFromSafe, PTL
=============================================================================
