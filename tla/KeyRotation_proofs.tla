------------------------- MODULE KeyRotation_proofs -------------------------
(***************************************************************************)
(* Proofs about KeyRotation, for any calls and any number of keys.         *)
(***************************************************************************)
EXTENDS KeyRotation, TLAPS

USE KeysAssumption DEF Keys

-----------------------------------------------------------------------------
(* Types *)

LEMMA RotateInKeys ==
  ASSUME TypeOK
  PROVE  /\ rotateKey = IF currentKeyIndex + 1 < NumKeys
                        THEN currentKeyIndex + 1 ELSE 0
         /\ rotateKey \in Keys
<1>1. currentKeyIndex \in 0 .. NumKeys - 1
  BY DEF TypeOK
<1>2. \A k \in 0 .. NumKeys - 1 :
        /\ k + 1 < NumKeys => (k + 1) % NumKeys = k + 1
        /\ k + 1 = NumKeys => (k + 1) % NumKeys = 0
  OBVIOUS
<1>3. QED
  BY <1>1, <1>2 DEF rotateKey

\* A request is sent again only if it was sent fewer than three times.
Backing == \A c \in Calls : pc[c] = "backoff" => sends[c] < MaxSends

TypeInv == TypeOK /\ Backing

LEMMA KeyTaken ==
  ASSUME TypeOK, Backing, NEW c \in Calls, NEW i \in Keys, NEW n \in Keys,
         getNextKey(c, i, n)
  PROVE  /\ pc' \in [Calls -> {"idle"} \union Running \union Settled]
         /\ key' \in [Calls -> Keys] /\ attempt' \in [Calls -> Keys]
         /\ sends' \in [Calls -> 0 .. MaxSends]
         /\ tried' \in [Calls -> Seq(Keys)]
         /\ Backing'
<1>1. /\ pc' \in [Calls -> {"idle"} \union Running \union Settled]
      /\ key' \in [Calls -> Keys] /\ attempt' \in [Calls -> Keys]
      /\ sends' \in [Calls -> 0 .. MaxSends]
  BY DEF TypeOK, getNextKey, Running, MaxSends
<1>2. tried' \in [Calls -> Seq(Keys)]
  <2>1. tried[c] \in Seq(Keys) /\ <<i>> \in Seq(Keys)
    BY DEF TypeOK
  <2> HIDE DEF Keys
  <2> DEFINE then == IF n = 0 THEN <<i>> ELSE Append(tried[c], i)
  <2>2. then \in Seq(Keys)
    BY <2>1
  <2>3. tried' = [tried EXCEPT ![c] = then]
    BY DEF getNextKey
  <2>4. tried \in [Calls -> Seq(Keys)]
    BY DEF TypeOK
  <2> HIDE DEF then
  <2>5. QED
    BY <2>2, <2>3, <2>4
<1>3. Backing'
  BY DEF TypeOK, Backing, getNextKey
<1>4. QED
  BY <1>1, <1>2, <1>3

LEMMA ThrowType ==
  ASSUME TypeOK, Backing, NEW c \in Calls, NEW i \in Keys,
         NEW error \in Settled,
         Throw(c, i, error)
  PROVE  /\ pc' \in [Calls -> {"idle"} \union Running \union Settled]
         /\ key' \in [Calls -> Keys] /\ attempt' \in [Calls -> Keys]
         /\ sends' \in [Calls -> 0 .. MaxSends]
         /\ tried' \in [Calls -> Seq(Keys)] /\ again' \in [Calls -> BOOLEAN]
         /\ Backing'
<1>1. CASE getNextKey(c, i, 0) /\ again' = [again EXCEPT ![c] = FALSE]
  <2>1. 0 \in Keys
    OBVIOUS
  <2>2. QED
    BY <1>1, <2>1, KeyTaken DEF TypeOK
<1>2. CASE pc' = [pc EXCEPT ![c] = error] /\ UNCHANGED loop
  BY <1>2 DEF TypeOK, Backing, loop, Settled
<1>3. QED
  BY <1>1, <1>2 DEF Throw

LEMMA InitType == Init => TypeInv
BY DEF Init, TypeInv, TypeOK, Backing, MaxSends

LEMMA BeginType ==
  ASSUME TypeOK, NEW c \in Calls, Begin(c)
  PROVE  lasting' \in [Calls -> SUBSET Keys] /\ alone' \in [Calls -> BOOLEAN]
BY DEF TypeOK, Begin

LEMMA StepType == TypeInv /\ [Next]_vars => TypeInv'
<1> SUFFICES ASSUME TypeOK, Backing, [Next]_vars PROVE TypeOK' /\ Backing'
  BY DEF TypeInv
<1>0. 0 \in Keys /\ currentKeyIndex \in Keys /\ rotateKey \in Keys
  BY RotateInKeys DEF TypeOK
<1>1. CASE UNCHANGED vars
  BY <1>1 DEF vars, TypeOK, Backing
<1>2. ASSUME NEW c \in Calls, StartComplete(c) PROVE TypeOK' /\ Backing'
  BY <1>0, <1>2, KeyTaken, BeginType DEF StartComplete, TypeOK
<1>3. ASSUME NEW c \in Calls, StartStream(c) PROVE TypeOK' /\ Backing'
  <2>1. TypeOK'
    BY <1>3, BeginType DEF StartStream, TypeOK, Running
  <2>2. Backing'
    BY <1>3 DEF StartStream, TypeOK, Backing
  <2>3. QED
    BY <2>1, <2>2
<1>4. ASSUME NEW c \in Calls, StreamFails(c) PROVE TypeOK' /\ Backing'
  BY <1>0, <1>4, KeyTaken DEF StreamFails, TypeOK, history
<1>5. ASSUME NEW c \in Calls, StreamAnswered(c) \/ Answered(c)
      PROVE  TypeOK' /\ Backing'
  BY <1>5 DEF StreamAnswered, Answered, TypeOK, Backing, loop, history, Settled
<1>6. ASSUME NEW c \in Calls, QuotaRefused(c) PROVE TypeOK' /\ Backing'
  <2>1. /\ currentKeyIndex' \in Keys
        /\ UNCHANGED <<spent, lasting, alone>>
    BY <1>0, <1>6 DEF QuotaRefused, history
  <2>2. CASE /\ attempt[c] + 1 < NumKeys
             /\ getNextKey(c, rotateKey, attempt[c] + 1)
             /\ UNCHANGED again
    <3>1. attempt[c] + 1 \in Keys
      BY <2>2 DEF TypeOK
    <3>2. QED
      BY <1>0, <2>1, <2>2, <3>1, KeyTaken DEF TypeOK
  <2>3. CASE Throw(c, rotateKey, "exhausted")
    BY <1>0, <2>1, <2>3, ThrowType DEF TypeOK, Settled
  <2>4. QED
    BY <1>6, <2>2, <2>3 DEF QuotaRefused
<1>7. ASSUME NEW c \in Calls, Overloaded(c) PROVE TypeOK' /\ Backing'
  BY <1>7 DEF Overloaded, TypeOK, Backing, loop, history, Running
<1>8. ASSUME NEW c \in Calls, Resend(c) PROVE TypeOK' /\ Backing'
  <2>1. sends[c] + 1 \in 0 .. MaxSends
    <3>1. sends[c] \in 0 .. 3 /\ sends[c] < 3
      BY <1>8 DEF Resend, TypeOK, Backing, MaxSends
    <3>2. QED
      BY <3>1 DEF MaxSends
  <2>2. TypeOK'
    BY <1>8, <2>1 DEF Resend, TypeOK, history, Running
  <2>3. Backing'
    BY <1>8 DEF Resend, TypeOK, Backing
  <2>4. QED
    BY <2>2, <2>3
<1>9. ASSUME NEW c \in Calls, Fails(c) PROVE TypeOK' /\ Backing'
  <2>1. "failed" \in Settled /\ UNCHANGED <<spent, lasting, alone>>
    BY <1>9 DEF Settled, Fails, history
  <2>2. QED
    BY <1>0, <1>9, <2>1, ThrowType DEF Fails, TypeOK
<1>10. ASSUME NEW k \in Keys, SpendQuota(k) \/ RestoreQuota(k)
       PROVE  TypeOK' /\ Backing'
  BY <1>10 DEF SpendQuota, RestoreQuota, TypeOK, Backing, loop, history
<1>11. QED
  BY <1>1, <1>2, <1>3, <1>4, <1>5, <1>6, <1>7, <1>8, <1>9, <1>10
     DEF Next, Reply

\* Every variable keeps its type: no request is sent more than three times,
\* and neither the index nor the count of attempts leaves the list of keys.
THEOREM TypeCorrect == Spec => []TypeOK
<1>1. TypeInv => TypeOK
  BY DEF TypeInv
<1>2. QED
  BY InitType, StepType, <1>1, PTL DEF Spec

-----------------------------------------------------------------------------
(* The keys of a call that meets no other *)

\* The keys come in turn, from the first one on, and none comes again.
InTurn(s) ==
  /\ Len(s) <= NumKeys
  /\ \A i \in 1 .. Len(s) :
       s[i] = IF s[1] + i - 1 < NumKeys THEN s[1] + i - 1
                                        ELSE s[1] + i - 1 - NumKeys

\* A call that met no other is the only one that runs.
Single == \A c, d \in Calls :
            alone[c] /\ pc[c] \in Running /\ d # c => pc[d] \notin Running

\* A key that lacks quota has not lasted.
Lacking ==
  \A c \in Calls : pc[c] \in Running => lasting[c] \intersect spent = {}

\* Nothing is tried before the first request.
Untried == \A c \in Calls : /\ pc[c] \in {"idle", "stream"} => tried[c] = <<>>
                            /\ pc[c] = "idle" => ~ alone[c]

AllInTurn == \A c \in Calls : alone[c] => InTurn(tried[c])

\* The request under way uses the last of the keys tried, where the index
\* is; the others have all lacked quota.
AtKey ==
  \A c \in Calls : alone[c] /\ pc[c] \in {"send", "backoff"} =>
    /\ Len(tried[c]) = attempt[c] + 1
    /\ key[c] = currentKeyIndex /\ tried[c][attempt[c] + 1] = key[c]
    /\ \A i \in 1 .. attempt[c] : tried[c][i] \notin lasting[c]

KeyInv == Single /\ Lacking /\ Untried /\ AllInTurn /\ AtKey
          /\ ExhaustedMeansAll

LEMMA InitKey == Init => KeyInv
BY DEF Init, KeyInv, Single, Lacking, Untried, AllInTurn, AtKey,
       ExhaustedMeansAll, Running

\* What the invariants say is what the run checks.
LEMMA KeyEnough == TypeOK /\ KeyInv => FindsAKey
<1> SUFFICES ASSUME TypeOK, KeyInv, NEW c \in Calls, alone[c]
             PROVE  IsInjective(tried[c])
  BY DEF KeyInv, FindsAKey, EachKeyOnceAlone
<1> DEFINE s == tried[c]
<1>1. InTurn(s) /\ s \in Seq(Keys)
  BY DEF KeyInv, AllInTurn, TypeOK
<1>2. DOMAIN s = 1 .. Len(s) /\ Len(s) \in Nat
  BY <1>1
<1>3. ASSUME NEW a \in 1 .. Len(s), NEW b \in 1 .. Len(s), s[a] = s[b]
      PROVE  a = b
  <2>1. s[1] \in 0 .. NumKeys - 1
    BY <1>1, <1>2, <1>3
  <2>2. /\ s[a] = IF s[1] + a - 1 < NumKeys THEN s[1] + a - 1
                                            ELSE s[1] + a - 1 - NumKeys
        /\ s[b] = IF s[1] + b - 1 < NumKeys THEN s[1] + b - 1
                                            ELSE s[1] + b - 1 - NumKeys
        /\ Len(s) <= NumKeys
    BY <1>1 DEF InTurn
  <2>3. ASSUME NEW x \in 0 .. NumKeys - 1,
               NEW i \in 1 .. NumKeys, NEW j \in 1 .. NumKeys,
               (IF x + i - 1 < NumKeys THEN x + i - 1 ELSE x + i - 1 - NumKeys)
               = (IF x + j - 1 < NumKeys THEN x + j - 1
                                         ELSE x + j - 1 - NumKeys)
        PROVE  i = j
    BY <2>3
  <2>4. a \in 1 .. NumKeys /\ b \in 1 .. NumKeys
    BY <1>2, <2>2
  <2> HIDE DEF s
  <2>5. QED
    BY <1>3, <2>1, <2>2, <2>3, <2>4
<1>4. QED
  BY <1>2, <1>3 DEF IsInjective

\* With as many keys tried in turn as there are, each was.
LEMMA AllTried ==
  ASSUME NEW s \in Seq(Keys), InTurn(s), Len(s) = NumKeys, NEW k \in Keys
  PROVE  \E i \in 1 .. NumKeys : s[i] = k
<1>1. s[1] \in 0 .. NumKeys - 1
  OBVIOUS
<1>2. CASE k >= s[1]
  <2>1. k - s[1] + 1 \in 1 .. NumKeys
    BY <1>1, <1>2
  <2>2. s[k - s[1] + 1] = k
    BY <1>1, <1>2, <2>1 DEF InTurn
  <2>3. QED
    BY <2>1, <2>2
<1>3. CASE k < s[1]
  <2>1. PICK i \in 1 .. NumKeys : i = k - s[1] + 1 + NumKeys
    BY <1>1, <1>3
  <2>2. s[1] + i - 1 = k + NumKeys
    BY <1>1, <2>1
  <2>3. s[i] = s[1] + i - 1 - NumKeys
    BY <1>1, <2>2 DEF InTurn
  <2>4. QED
    BY <1>1, <2>2, <2>3
<1>4. QED
  BY <1>1, <1>2, <1>3

LEMMA NextInTurn ==
  ASSUME NEW s \in Seq(Keys), InTurn(s), NEW n \in Nat, Len(s) = n + 1,
         n + 1 < NumKeys, NEW k \in Keys,
         k = IF s[n + 1] + 1 < NumKeys THEN s[n + 1] + 1 ELSE 0
  PROVE  /\ InTurn(Append(s, k)) /\ Len(Append(s, k)) = n + 2
         /\ Append(s, k)[n + 2] = k
         /\ \A i \in 1 .. n + 1 : Append(s, k)[i] = s[i]
<1> DEFINE t == Append(s, k)
<1>1. Len(t) = n + 2 /\ t[n + 2] = k /\ \A i \in 1 .. n + 1 : t[i] = s[i]
  <2> HIDE DEF Keys
  <2>1. QED
    OBVIOUS
<1>2. s[1] \in 0 .. NumKeys - 1 /\ s[n + 1] \in 0 .. NumKeys - 1
  OBVIOUS
<1>3. \A i \in 1 .. n + 1 :
        s[i] = IF s[1] + i - 1 < NumKeys THEN s[1] + i - 1
                                         ELSE s[1] + i - 1 - NumKeys
  BY DEF InTurn
<1>4. k = IF s[1] + n + 1 < NumKeys THEN s[1] + n + 1
                                    ELSE s[1] + n + 1 - NumKeys
  <2>1. s[n + 1] = IF s[1] + n < NumKeys THEN s[1] + n
                                         ELSE s[1] + n - NumKeys
    BY <1>2, <1>3
  <2>2. QED
    BY <1>2, <2>1
<1> HIDE DEF t
<1>5. ASSUME NEW i \in 1 .. n + 2
      PROVE  t[i] = IF t[1] + i - 1 < NumKeys THEN t[1] + i - 1
                                              ELSE t[1] + i - 1 - NumKeys
  <2>1. CASE i \in 1 .. n + 1
    BY <1>1, <1>3, <2>1
  <2>2. CASE i = n + 2
    BY <1>1, <1>2, <1>4, <2>2
  <2>3. QED
    BY <2>1, <2>2
<1>6. InTurn(t)
  BY <1>1, <1>5 DEF InTurn
<1>7. QED
  BY <1>1, <1>6 DEF t

\* A reply to call c: the others are as they were, and those that met no
\* other do not run.
LEMMA ReplyKey ==
  ASSUME TypeOK, KeyInv, NEW c \in Calls, pc[c] \in Running,
         UNCHANGED <<spent, lasting, alone>>,
         \A d \in Calls : d # c =>
           /\ pc'[d] = pc[d] /\ key'[d] = key[d]
           /\ attempt'[d] = attempt[d] /\ tried'[d] = tried[d],
         pc'[c] \notin {"idle", "stream"},
         alone[c] => InTurn(tried'[c]),
         alone[c] /\ pc'[c] \in {"send", "backoff"} =>
           /\ Len(tried'[c]) = attempt'[c] + 1
           /\ key'[c] = currentKeyIndex' /\ tried'[c][attempt'[c] + 1] = key'[c]
           /\ \A i \in 1 .. attempt'[c] : tried'[c][i] \notin lasting[c],
         alone[c] /\ pc'[c] = "exhausted" => lasting[c] = {}
  PROVE  KeyInv'
<1>1. \A d \in Calls : pc'[d] \in Running => pc[d] \in Running
  OBVIOUS
<1>2. \A d \in Calls : d # c /\ alone[d] => pc[d] \notin Running
  BY DEF KeyInv, Single
<1>3. Single' /\ Lacking'
  BY <1>1 DEF KeyInv, Single, Lacking
<1>4. Untried'
  BY DEF KeyInv, Untried
<1>5. AllInTurn'
  BY DEF KeyInv, AllInTurn, InTurn
<1>6. AtKey'
  BY <1>2 DEF AtKey, Running
<1>7. ExhaustedMeansAll'
  BY DEF KeyInv, ExhaustedMeansAll
<1>8. QED
  BY <1>3, <1>4, <1>5, <1>6, <1>7 DEF KeyInv

LEMMA OneInTurn == \A k \in Keys : InTurn(<<k>>)
BY DEF InTurn

\* complete() is called, for the first time or once more.
LEMMA AgainKey ==
  ASSUME TypeOK, KeyInv, NEW c \in Calls, pc[c] \in Running,
         NEW i \in Keys, getNextKey(c, i, 0), currentKeyIndex' = i,
         UNCHANGED <<spent, lasting, alone>>
  PROVE  KeyInv'
<1>1. \A d \in Calls : d # c =>
        /\ pc'[d] = pc[d] /\ key'[d] = key[d]
        /\ attempt'[d] = attempt[d] /\ tried'[d] = tried[d]
  BY DEF getNextKey, TypeOK
<1>2. /\ pc'[c] = "send" /\ key'[c] = i /\ attempt'[c] = 0
      /\ tried'[c] = <<i>>
  BY DEF getNextKey, TypeOK
<1>3. InTurn(tried'[c])
  BY <1>2, OneInTurn
<1>4. /\ Len(tried'[c]) = attempt'[c] + 1
      /\ tried'[c][attempt'[c] + 1] = key'[c]
      /\ \A j \in 1 .. attempt'[c] : tried'[c][j] \notin lasting[c]
  BY <1>2
<1>5. QED
  BY <1>1, <1>2, <1>3, <1>4, ReplyKey

\* A call settles.
LEMMA SettledKey ==
  ASSUME TypeOK, KeyInv, NEW c \in Calls, pc[c] \in Running,
         NEW x \in Settled, pc' = [pc EXCEPT ![c] = x], UNCHANGED loop,
         UNCHANGED <<spent, lasting, alone>>,
         alone[c] /\ x = "exhausted" => lasting[c] = {}
  PROVE  KeyInv'
<1>1. \A d \in Calls : d # c =>
        /\ pc'[d] = pc[d] /\ key'[d] = key[d]
        /\ attempt'[d] = attempt[d] /\ tried'[d] = tried[d]
  BY DEF loop, TypeOK
<1>2. /\ pc'[c] = x /\ tried'[c] = tried[c]
      /\ x \notin {"idle", "stream", "send", "backoff"}
  BY DEF loop, TypeOK, Settled
<1>3. alone[c] => InTurn(tried'[c])
  BY <1>2 DEF KeyInv, AllInTurn
<1>4. QED
  BY <1>1, <1>2, <1>3, ReplyKey

LEMMA ThrowKey ==
  ASSUME TypeOK, KeyInv, NEW c \in Calls, pc[c] \in Running,
         NEW i \in Keys, NEW error \in Settled, Throw(c, i, error),
         currentKeyIndex' = i, UNCHANGED <<spent, lasting, alone>>,
         alone[c] /\ error = "exhausted" => lasting[c] = {}
  PROVE  KeyInv'
BY AgainKey, SettledKey DEF Throw

\* A call begins: if another runs, neither is alone from then on.
LEMMA BeginKey ==
  ASSUME TypeOK, KeyInv, NEW c \in Calls, Begin(c),
         UNCHANGED <<spent, currentKeyIndex>>,
         \A d \in Calls : d # c =>
           /\ pc'[d] = pc[d] /\ key'[d] = key[d]
           /\ attempt'[d] = attempt[d] /\ tried'[d] = tried[d],
         \/ pc'[c] = "stream" /\ tried'[c] = tried[c]
         \/ /\ pc'[c] = "send" /\ key'[c] = currentKeyIndex
            /\ attempt'[c] = 0 /\ tried'[c] = <<currentKeyIndex>>
  PROVE  KeyInv'
<1>1. pc[c] = "idle" /\ tried[c] = <<>> /\ ~ alone[c]
  BY DEF Begin, KeyInv, Untried
<1>2. /\ alone'[c] = (\A e \in Calls : pc[e] \notin Running)
      /\ \A d \in Calls : d # c =>
           alone'[d] = (alone[d] /\ pc[d] \notin Running)
  BY DEF Begin
<1>3. /\ lasting'[c] = Keys \ spent
      /\ \A d \in Calls : d # c => lasting'[d] = lasting[d]
  BY DEF Begin, TypeOK
<1>4. Single'
  <2> SUFFICES ASSUME NEW d \in Calls, NEW e \in Calls, alone'[d],
                      pc'[d] \in Running, e # d
               PROVE  pc'[e] \notin Running
    BY DEF Single
  <2>1. CASE d = c
    BY <1>2, <2>1
  <2>2. CASE d # c
    BY <1>2, <2>2
  <2>3. QED
    BY <2>1, <2>2
<1>5. Lacking'
  BY <1>3 DEF KeyInv, Lacking
<1>6. Untried'
  BY <1>1, <1>2 DEF KeyInv, Untried
<1>7. AllInTurn'
  <2> SUFFICES ASSUME NEW d \in Calls, alone'[d] PROVE InTurn(tried'[d])
    BY DEF AllInTurn, InTurn
  <2>1. CASE d = c
    <3>1. InTurn(<<>>)
      BY DEF InTurn
    <3>2. InTurn(<<currentKeyIndex>>)
      BY OneInTurn DEF TypeOK
    <3>3. QED
      BY <1>1, <2>1, <3>1, <3>2
  <2>2. CASE d # c
    BY <1>2, <2>2 DEF KeyInv, AllInTurn
  <2>3. QED
    BY <2>1, <2>2
<1>8. AtKey'
  <2> SUFFICES ASSUME NEW d \in Calls, alone'[d],
                      pc'[d] \in {"send", "backoff"}
               PROVE  /\ Len(tried'[d]) = attempt'[d] + 1
                      /\ key'[d] = currentKeyIndex'
                      /\ tried'[d][attempt'[d] + 1] = key'[d]
                      /\ \A i \in 1 .. attempt'[d] :
                           tried'[d][i] \notin lasting'[d]
    BY DEF AtKey
  <2>1. d = c
    BY <1>2 DEF Running
  <2>2. /\ key'[c] = currentKeyIndex /\ attempt'[c] = 0
        /\ tried'[c] = <<currentKeyIndex>>
    BY <2>1
  <2>3. Len(<<currentKeyIndex>>) = 1 /\ <<currentKeyIndex>>[1] = currentKeyIndex
    OBVIOUS
  <2>4. 1 .. 0 = {}
    OBVIOUS
  <2>5. QED
    BY <2>1, <2>2, <2>3, <2>4
<1>9. ExhaustedMeansAll'
  BY <1>2, <1>3 DEF KeyInv, ExhaustedMeansAll
<1>10. QED
  BY <1>4, <1>5, <1>6, <1>7, <1>8, <1>9 DEF KeyInv

\* A key that is refused has no quota; the next in turn follows, or all were
\* tried and none has lasted.
LEMMA RefusedKey ==
  ASSUME TypeOK, KeyInv, NEW c \in Calls, QuotaRefused(c)
  PROVE  KeyInv'
<1>1. /\ pc[c] = "send" /\ key[c] \in spent /\ currentKeyIndex' = rotateKey
      /\ UNCHANGED <<spent, lasting, alone>>
  BY DEF QuotaRefused, history
<1>2. pc[c] \in Running /\ rotateKey \in Keys
  BY <1>1, RotateInKeys DEF Running
<1>3. key[c] \notin lasting[c]
  BY <1>1, <1>2 DEF KeyInv, Lacking
<1>4. ASSUME alone[c]
      PROVE  /\ tried[c] \in Seq(Keys) /\ InTurn(tried[c])
             /\ attempt[c] \in Nat /\ Len(tried[c]) = attempt[c] + 1
             /\ tried[c][attempt[c] + 1] = currentKeyIndex
             /\ \A i \in 1 .. attempt[c] + 1 : tried[c][i] \notin lasting[c]
  <2>1. /\ Len(tried[c]) = attempt[c] + 1 /\ key[c] = currentKeyIndex
        /\ tried[c][attempt[c] + 1] = key[c]
        /\ \A i \in 1 .. attempt[c] : tried[c][i] \notin lasting[c]
    BY <1>1, <1>4 DEF KeyInv, AtKey
  <2>2. attempt[c] \in Nat
    BY DEF TypeOK
  <2>3. QED
    BY <1>3, <1>4, <2>1, <2>2 DEF KeyInv, AllInTurn, TypeOK
<1>5. CASE /\ attempt[c] + 1 < NumKeys
           /\ getNextKey(c, rotateKey, attempt[c] + 1)
  <2>1. \A d \in Calls : d # c =>
          /\ pc'[d] = pc[d] /\ key'[d] = key[d]
          /\ attempt'[d] = attempt[d] /\ tried'[d] = tried[d]
    BY <1>5 DEF getNextKey, TypeOK
  <2>2. attempt[c] + 1 # 0 /\ attempt[c] \in Nat
    BY DEF TypeOK
  <2>3. /\ pc'[c] = "send" /\ key'[c] = rotateKey
        /\ attempt'[c] = attempt[c] + 1
        /\ tried'[c] = Append(tried[c], rotateKey)
    BY <1>5, <2>2 DEF getNextKey, TypeOK
  <2>4. ASSUME alone[c]
        PROVE  /\ InTurn(tried'[c]) /\ Len(tried'[c]) = attempt'[c] + 1
               /\ tried'[c][attempt'[c] + 1] = key'[c]
               /\ \A i \in 1 .. attempt'[c] : tried'[c][i] \notin lasting[c]
    <3>1. rotateKey = IF tried[c][attempt[c] + 1] + 1 < NumKeys
                      THEN tried[c][attempt[c] + 1] + 1 ELSE 0
      BY <1>4, <2>4, RotateInKeys
    <3>2. /\ InTurn(Append(tried[c], rotateKey))
          /\ Len(Append(tried[c], rotateKey)) = attempt[c] + 2
          /\ Append(tried[c], rotateKey)[attempt[c] + 2] = rotateKey
          /\ \A i \in 1 .. attempt[c] + 1 :
               Append(tried[c], rotateKey)[i] = tried[c][i]
      BY <1>2, <1>4, <1>5, <2>4, <3>1, NextInTurn
    <3>3. attempt[c] + 1 + 1 = attempt[c] + 2
      BY <2>2
    <3>4. QED
      BY <1>4, <2>3, <2>4, <3>2, <3>3
  <2>5. QED
    BY <1>1, <1>2, <2>1, <2>3, <2>4, ReplyKey
<1>6. CASE attempt[c] + 1 = NumKeys /\ Throw(c, rotateKey, "exhausted")
  <2>1. alone[c] => lasting[c] = {}
    <3> SUFFICES ASSUME alone[c], NEW k \in lasting[c] PROVE FALSE
      OBVIOUS
    <3>1. k \in Keys
      BY DEF TypeOK
    <3>2. \E i \in 1 .. NumKeys : tried[c][i] = k
      BY <1>4, <1>6, <3>1, AllTried
    <3>3. QED
      BY <1>4, <1>6, <3>2
  <2>2. "exhausted" \in Settled
    BY DEF Settled
  <2>3. QED
    BY <1>1, <1>2, <1>6, <2>1, <2>2, ThrowKey
<1>7. QED
  BY <1>5, <1>6 DEF QuotaRefused

LEMMA StepKey == TypeOK /\ KeyInv /\ [Next]_vars => KeyInv'
<1> SUFFICES ASSUME TypeOK, KeyInv, [Next]_vars PROVE KeyInv'
  OBVIOUS
<1>0. currentKeyIndex \in Keys
  BY DEF TypeOK
<1>1. CASE UNCHANGED vars
  BY <1>1 DEF vars, KeyInv, Single, Lacking, Untried, AllInTurn, InTurn, AtKey,
              ExhaustedMeansAll
<1>2. ASSUME NEW c \in Calls, StartComplete(c) PROVE KeyInv'
  <2>1. Begin(c) /\ UNCHANGED <<spent, currentKeyIndex>>
    BY <1>2 DEF StartComplete
  <2>2. \A d \in Calls : d # c =>
          /\ pc'[d] = pc[d] /\ key'[d] = key[d]
          /\ attempt'[d] = attempt[d] /\ tried'[d] = tried[d]
    BY <1>2 DEF StartComplete, getNextKey, TypeOK
  <2>3. /\ pc'[c] = "send" /\ key'[c] = currentKeyIndex
        /\ attempt'[c] = 0 /\ tried'[c] = <<currentKeyIndex>>
    BY <1>2 DEF StartComplete, getNextKey, TypeOK
  <2>4. QED
    BY <2>1, <2>2, <2>3, BeginKey
<1>3. ASSUME NEW c \in Calls, StartStream(c) PROVE KeyInv'
  <2>1. Begin(c) /\ UNCHANGED <<spent, currentKeyIndex, attempt, tried>>
    BY <1>3 DEF StartStream
  <2>2. /\ pc'[c] = "stream"
        /\ \A d \in Calls : d # c => pc'[d] = pc[d] /\ key'[d] = key[d]
    BY <1>3 DEF StartStream, TypeOK
  <2>3. QED
    BY <2>1, <2>2, BeginKey
<1>4. ASSUME NEW c \in Calls, StreamFails(c) PROVE KeyInv'
  BY <1>0, <1>4, AgainKey DEF StreamFails, Running, history
<1>5. ASSUME NEW c \in Calls, StreamAnswered(c) \/ Answered(c) PROVE KeyInv'
  <2>1. /\ "answered" \in Settled /\ pc[c] \in Running
        /\ pc' = [pc EXCEPT ![c] = "answered"] /\ UNCHANGED loop
        /\ UNCHANGED <<spent, lasting, alone>>
    BY <1>5 DEF StreamAnswered, Answered, Settled, Running, history
  <2>2. QED
    BY <2>1, SettledKey
<1>6. ASSUME NEW c \in Calls, QuotaRefused(c) PROVE KeyInv'
  BY <1>6, RefusedKey
<1>7. ASSUME NEW c \in Calls, Overloaded(c) \/ Resend(c) PROVE KeyInv'
  <2>1. /\ pc[c] \in {"send", "backoff"}
        /\ UNCHANGED <<currentKeyIndex, spent, key, attempt, tried>>
        /\ UNCHANGED <<lasting, alone>>
    BY <1>7 DEF Overloaded, Resend, loop, history
  <2>2. /\ pc'[c] \in {"send", "backoff"}
        /\ \A d \in Calls : d # c => pc'[d] = pc[d]
    BY <1>7 DEF Overloaded, Resend, TypeOK
  <2>3. pc[c] \in Running
    BY <2>1 DEF Running
  <2>4. alone[c] =>
          /\ Len(tried[c]) = attempt[c] + 1
          /\ key[c] = currentKeyIndex /\ tried[c][attempt[c] + 1] = key[c]
          /\ \A i \in 1 .. attempt[c] : tried[c][i] \notin lasting[c]
    BY <2>1 DEF KeyInv, AtKey
  <2>5. alone[c] => InTurn(tried[c])
    BY DEF KeyInv, AllInTurn
  <2>6. QED
    BY <2>1, <2>2, <2>3, <2>4, <2>5, ReplyKey
<1>8. ASSUME NEW c \in Calls, Fails(c) PROVE KeyInv'
  <2>1. /\ "failed" \in Settled /\ pc[c] \in Running
        /\ Throw(c, currentKeyIndex, "failed")
        /\ UNCHANGED <<currentKeyIndex, spent, lasting, alone>>
    BY <1>8 DEF Fails, Settled, Running, history
  <2>2. QED
    BY <1>0, <2>1, ThrowKey
<1>9. ASSUME NEW k \in Keys, SpendQuota(k) \/ RestoreQuota(k) PROVE KeyInv'
  <2>1. /\ UNCHANGED <<currentKeyIndex, pc, key, attempt, tried, alone>>
        /\ \A c \in Calls : lasting'[c] \subseteq lasting[c]
    BY <1>9 DEF SpendQuota, RestoreQuota, loop, history, TypeOK
  <2>2. Lacking'
    BY <1>9 DEF SpendQuota, RestoreQuota, history, KeyInv, Lacking, TypeOK
  <2>3. Single' /\ Untried' /\ AllInTurn'
    BY <2>1 DEF KeyInv, Single, Untried, AllInTurn, InTurn
  <2>4. AtKey'
    BY <2>1 DEF KeyInv, AtKey
  <2>5. ExhaustedMeansAll'
    BY <2>1 DEF KeyInv, ExhaustedMeansAll
  <2>6. QED
    BY <2>2, <2>3, <2>4, <2>5 DEF KeyInv
<1>10. QED
  BY <1>1, <1>2, <1>3, <1>4, <1>5, <1>6, <1>7, <1>8, <1>9 DEF Next, Reply

\* A call that meets no other tries every key once, from wherever earlier
\* calls left the index, and gives up only when none has kept its quota.
THEOREM AloneFindsAKey == Spec => []FindsAKey
<1>1. Init => TypeInv /\ KeyInv
  BY InitType, InitKey
<1>2. TypeInv /\ KeyInv /\ [Next]_vars => (TypeInv /\ KeyInv)'
  BY StepType, StepKey DEF TypeInv
<1>3. TypeInv /\ KeyInv => FindsAKey
  BY KeyEnough DEF TypeInv
<1>4. QED
  BY <1>1, <1>2, <1>3, PTL DEF Spec
=============================================================================
