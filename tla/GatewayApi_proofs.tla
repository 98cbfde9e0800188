------------------------- MODULE GatewayApi_proofs --------------------------
(***************************************************************************)
(* Proofs about GatewayApi, for any set of requests.                       *)
(***************************************************************************)
EXTENDS GatewayApi, TLAPS

-----------------------------------------------------------------------------
(* Types *)

LEMMA GotoType ==
  ASSUME TypeOK, NEW r \in Requests, NEW step \in Steps, goto(r, step)
  PROVE  /\ pc' \in [Requests -> Steps \union {"idle", "done"}]
         /\ pc' = [pc EXCEPT ![r] = step] /\ reply' = reply
         /\ reply' \in [Requests -> {0, 200, 201, 404, 500, 503}]
BY DEF TypeOK, goto

LEMMA AnswerType ==
  ASSUME TypeOK, NEW r \in Requests,
         NEW status \in {200, 201, 404, 500, 503}, answer(r, status)
  PROVE  /\ pc' \in [Requests -> Steps \union {"idle", "done"}]
         /\ pc' = [pc EXCEPT ![r] = "done"]
         /\ reply' = [reply EXCEPT ![r] = status]
         /\ reply' \in [Requests -> {0, 200, 201, 404, 500, 503}]
BY DEF TypeOK, answer

(***************************************************************************)
(* What a step of request r does to its own control: it goes on to another *)
(* call, or it is answered.  Of the other requests it changes nothing.     *)
(***************************************************************************)
Moved(r) ==
  /\ \A q \in Requests : q # r => pc'[q] = pc[q] /\ reply'[q] = reply[q]
  /\ \/ pc'[r] \in Steps /\ reply'[r] = reply[r]
     \/ pc'[r] = "done" /\ reply'[r] # 0

LEMMA GotoMoves ==
  ASSUME TypeOK, NEW r \in Requests, NEW step \in Steps, goto(r, step)
  PROVE  Moved(r) /\ pc'[r] = step /\ reply'[r] = reply[r]
BY DEF TypeOK, goto, Moved

LEMMA AnswerMoves ==
  ASSUME TypeOK, NEW r \in Requests,
         NEW status \in {200, 201, 404, 500, 503}, answer(r, status)
  PROVE  Moved(r) /\ pc'[r] = "done" /\ reply'[r] = status
BY DEF TypeOK, answer, Moved

LEMMA Names ==
  /\ {"store", "consent", "delete", "count", "put", "read", "write",
      "pals", "makePal", "talk", "audit"} = Steps
  /\ \A k \in Kinds : first(k) \subseteq Steps
  /\ \A o \in Outcomes : videoStatus(o) \in {503, 500}
  /\ \A o \in Outcomes : upserted(o) \in {201, 500}
  /\ \A k \in Kinds \union {"none"} : success(k) \in {200, 201}
BY DEF Steps, Kinds, first, videoStatus, upserted, success

LEMMA InitType == Init => TypeOK
BY DEF Init, TypeOK, Configs, NoConfig, Authors

LEMMA StepType == TypeOK /\ [Next]_vars => TypeOK'
<1> SUFFICES ASSUME TypeOK, [Next]_vars PROVE TypeOK'
  OBVIOUS
<1> USE Names DEF store, row
<1>1. CASE UNCHANGED vars
  BY <1>1 DEF vars, TypeOK
<1>2. ASSUME NEW r \in Requests, Arrive(r) PROVE TypeOK'
  <2>1. PICK k \in Kinds :
          /\ kind' = [kind EXCEPT ![r] = k]
          /\ \E step \in first(k) : goto(r, step)
          /\ \E given \in (IF k = "create" THEN BOOLEAN ELSE {FALSE}) :
               consented' = [consented EXCEPT ![r] = given]
    BY <1>2 DEF Arrive
  <2>2. PICK step \in first(k) : goto(r, step)
    BY <2>1
  <2>3. step \in Steps /\ step # "write"
    BY <2>2 DEF first, Kinds
  <2>4. /\ pc' \in [Requests -> Steps \union {"idle", "done"}]
        /\ pc' = [pc EXCEPT ![r] = step]
        /\ reply' \in [Requests -> {0, 200, 201, 404, 500, 503}]
    BY <2>2, <2>3, GotoType
  <2>5. kind' \in [Requests -> Kinds \union {"none"}]
    BY <2>1 DEF TypeOK
  <2>6. consented' \in [Requests -> BOOLEAN]
    <3>1. PICK given \in BOOLEAN : consented' = [consented EXCEPT ![r] = given]
      BY <2>1
    <3>2. QED
      BY <3>1 DEF TypeOK
  <2>7. met' \subseteq SUBSET Requests
    BY <1>2 DEF Arrive, TypeOK
  <2>8. \A q \in Requests : pc'[q] = "write" => snap'[q] \in Configs
    BY <1>2, <2>3, <2>4 DEF Arrive, TypeOK
  <2>9. QED
    BY <1>2, <2>4, <2>5, <2>6, <2>7, <2>8 DEF Arrive, TypeOK
<1>3. ASSUME NEW r \in Requests, Audit(r) PROVE TypeOK'
  BY <1>3, GotoType, AnswerType DEF Audit, continue, TypeOK
<1>4. ASSUME NEW r \in Requests, StoreSession(r) PROVE TypeOK'
  BY <1>4, GotoType, AnswerType DEF StoreSession, continue, TypeOK
<1>5. ASSUME NEW r \in Requests, RecordConsent(r) PROVE TypeOK'
  BY <1>5, GotoType, AnswerType DEF RecordConsent, continue, TypeOK
<1>6. ASSUME NEW r \in Requests, Erase(r) PROVE TypeOK'
  BY <1>6, GotoType, AnswerType DEF Erase, continue, TypeOK
<1>7. ASSUME NEW r \in Requests, Count(r) PROVE TypeOK'
  BY <1>7, GotoType, AnswerType DEF Count, continue, TypeOK
<1>8. ASSUME NEW r \in Requests, Upsert(r) PROVE TypeOK'
  <2>1. PICK o \in Outcomes, hook \in {r, None} :
          /\ config' = IF performed(o)
                         THEN [settings |-> r, hook |-> hook] ELSE config
          /\ writer' = IF performed(o) THEN r ELSE writer
          /\ answer(r, upserted(o))
    BY <1>8 DEF Upsert
  <2>2. config' \in Configs \union {NoConfig} /\ writer' \in Authors
    BY <2>1 DEF TypeOK, Configs, Authors
  <2>3. /\ pc' \in [Requests -> Steps \union {"idle", "done"}]
        /\ pc' = [pc EXCEPT ![r] = "done"]
        /\ reply' \in [Requests -> {0, 200, 201, 404, 500, 503}]
    BY <2>1, AnswerType DEF upserted
  <2>4. QED
    BY <1>8, <2>2, <2>3 DEF Upsert, TypeOK
<1>9. ASSUME NEW r \in Requests, ReadConfig(r) PROVE TypeOK'
  BY <1>9, GotoType, AnswerType DEF ReadConfig, continue, TypeOK
<1>10. ASSUME NEW r \in Requests, WriteConfig(r) PROVE TypeOK'
  <2>1. PICK o \in Outcomes :
          /\ config' = IF performed(o) THEN [snap[r] EXCEPT !.hook = r]
                       ELSE config
          /\ writer' = IF performed(o) THEN r ELSE writer
          /\ IF answered(o) THEN goto(r, "audit") ELSE answer(r, 500)
    BY <1>10 DEF WriteConfig
  <2>2. snap[r] \in Configs
    BY <1>10 DEF WriteConfig, TypeOK
  <2>3. config' \in Configs \union {NoConfig} /\ writer' \in Authors
    BY <2>1, <2>2 DEF TypeOK, Configs, Authors
  <2>4. /\ pc' \in [Requests -> Steps \union {"idle", "done"}]
        /\ \A q \in Requests : pc'[q] = "write" => pc[q] = "write"
        /\ reply' \in [Requests -> {0, 200, 201, 404, 500, 503}]
    BY <2>1, GotoType, AnswerType DEF TypeOK
  <2>5. QED
    BY <1>10, <2>3, <2>4 DEF WriteConfig, TypeOK
<1>11. ASSUME NEW r \in Requests, ListPals(r) PROVE TypeOK'
  BY <1>11, GotoType, AnswerType DEF ListPals, continue, TypeOK
<1>12. ASSUME NEW r \in Requests, MakePal(r) PROVE TypeOK'
  BY <1>12, GotoType, AnswerType DEF MakePal, continue, TypeOK
<1>13. ASSUME NEW r \in Requests, Talk(r) PROVE TypeOK'
  BY <1>13, GotoType, AnswerType DEF Talk, continue, TypeOK
<1>14. QED
  BY <1>1, <1>2, <1>3, <1>4, <1>5, <1>6, <1>7, <1>8, <1>9, <1>10, <1>11,
     <1>12, <1>13
     DEF Next

\* Every variable keeps its type, and a subscription that writes has read a
\* configuration that exists.
THEOREM TypeCorrect == Spec => []TypeOK
BY InitType, StepType, PTL DEF Spec

-----------------------------------------------------------------------------
(* Requests that overlap *)

\* The steps of a handler after the request has come.
Work(r) ==
  \/ Audit(r)
  \/ StoreSession(r) \/ RecordConsent(r) \/ Erase(r) \/ Count(r)
  \/ Upsert(r) \/ ReadConfig(r) \/ WriteConfig(r)
  \/ ListPals(r) \/ MakePal(r) \/ Talk(r)

\* Such a step moves its own request only, and to which call it depends.
LEMMA WorkMoves ==
  ASSUME TypeOK, NEW r \in Requests, Work(r)
  PROVE  /\ Moved(r) /\ inFlight(r)
         /\ UNCHANGED <<kind, consented, met>>
         /\ pc'[r] \notin {"idle", "store", "pals", "delete", "put", "read"}
         /\ pc'[r] = "consent" => pc[r] = "store" /\ consented[r]
         /\ pc'[r] = "write" => pc[r] = "read"
         /\ pc'[r] = "makePal" => pc[r] = "pals" /\ pals = {}
<1> USE Names DEF inFlight
<1>1. CASE Audit(r)
  BY <1>1, AnswerMoves DEF Audit, TypeOK
<1>2. CASE StoreSession(r)
  BY <1>2, GotoMoves, AnswerMoves DEF StoreSession, continue
<1>3. CASE RecordConsent(r)
  BY <1>3, GotoMoves, AnswerMoves DEF RecordConsent, continue
<1>4. CASE Erase(r)
  BY <1>4, GotoMoves, AnswerMoves DEF Erase, continue
<1>5. CASE Count(r)
  BY <1>5, GotoMoves, AnswerMoves DEF Count, continue
<1>6. CASE Upsert(r)
  BY <1>6, AnswerMoves DEF Upsert
<1>7. CASE ReadConfig(r)
  BY <1>7, GotoMoves, AnswerMoves DEF ReadConfig
<1>8. CASE WriteConfig(r)
  BY <1>8, GotoMoves, AnswerMoves DEF WriteConfig
<1>9. CASE ListPals(r)
  BY <1>9, GotoMoves, AnswerMoves DEF ListPals
<1>10. CASE MakePal(r)
  BY <1>10, GotoMoves, AnswerMoves DEF MakePal
<1>11. CASE Talk(r)
  BY <1>11, GotoMoves, AnswerMoves DEF Talk
<1>12. QED
  BY <1>1, <1>2, <1>3, <1>4, <1>5, <1>6, <1>7, <1>8, <1>9, <1>10, <1>11
     DEF Work

LEMMA ArriveMoves ==
  ASSUME TypeOK, NEW r \in Requests, Arrive(r)
  PROVE  /\ Moved(r) /\ pc[r] = "idle" /\ reply' = reply
         /\ pc'[r] \in first(kind'[r]) /\ kind'[r] \in Kinds
         /\ \A q \in Requests :
              q # r => kind'[q] = kind[q] /\ consented'[q] = consented[q]
         /\ met \subseteq met'
         /\ \A q \in Requests : inFlight(q) => {r, q} \in met'
         /\ UNCHANGED <<snap, store, row, pals>>
<1>1. PICK k \in Kinds :
        /\ kind' = [kind EXCEPT ![r] = k]
        /\ \E step \in first(k) : goto(r, step)
        /\ \E given \in (IF k = "create" THEN BOOLEAN ELSE {FALSE}) :
             consented' = [consented EXCEPT ![r] = given]
  BY DEF Arrive
<1>2. PICK step \in first(k) : goto(r, step)
  BY <1>1
<1>3. Moved(r) /\ pc'[r] = step /\ reply' = reply
  BY <1>2, Names, GotoMoves DEF goto
<1>4. PICK given : consented' = [consented EXCEPT ![r] = given]
  BY <1>1
<1>5. QED
  BY <1>1, <1>3, <1>4 DEF Arrive, TypeOK

LEMMA NextSplits ==
  ASSUME [Next]_vars
  PROVE  (\E r \in Requests : Arrive(r) \/ Work(r)) \/ UNCHANGED vars
BY DEF Next, Work

\* Any two requests in flight overlap.
MetInv ==
  \A p, q \in Requests : inFlight(p) /\ inFlight(q) /\ p # q => {p, q} \in met

LEMMA MetInvariant == Spec => []MetInv
<1>1. Init => MetInv
  BY DEF Init, MetInv, inFlight
<1>2. TypeOK /\ MetInv /\ [Next]_vars => MetInv'
  <2> SUFFICES ASSUME TypeOK, MetInv, [Next]_vars PROVE MetInv'
    OBVIOUS
  <2>1. CASE UNCHANGED vars
    BY <2>1 DEF vars, MetInv, inFlight
  <2>2. ASSUME NEW r \in Requests, Arrive(r) PROVE MetInv'
    <3>1. \A q \in Requests : q # r => (inFlight(q)' <=> inFlight(q))
      BY <2>2, ArriveMoves DEF Moved, inFlight
    <3>2. /\ met \subseteq met'
          /\ \A q \in Requests : inFlight(q) => {r, q} \in met'
      BY <2>2, ArriveMoves
    <3>3. \A p, q : {p, q} = {q, p}
      OBVIOUS
    <3>4. QED
      BY <3>1, <3>2, <3>3 DEF MetInv
  <2>3. ASSUME NEW r \in Requests, Work(r) PROVE MetInv'
    <3>1. met' = met /\ \A q \in Requests : inFlight(q)' => inFlight(q)
      BY <2>3, WorkMoves DEF Moved, inFlight
    <3>2. QED
      BY <3>1 DEF MetInv
  <2>4. QED
    BY <2>1, <2>2, <2>3, NextSplits
<1>3. QED
  BY <1>1, <1>2, TypeCorrect, PTL DEF Spec

-----------------------------------------------------------------------------
(* The configuration *)

(***************************************************************************)
(* What a subscription is about to write back has the current settings, or *)
(* whoever wrote the row since has overlapped it.                          *)
(***************************************************************************)
Fresh(r) == snap[r].settings = config.settings \/ {r, writer} \in met

ConfigInv == \A r \in Requests : pc[r] = "write" => Fresh(r)

\* A writing request r leaves every other subscription fresh, as it overlaps
\* them.
LEMMA WriterOverlaps ==
  ASSUME TypeOK, MetInv, ConfigInv, NEW r \in Requests, Work(r),
         pc'[r] # "write", snap' = snap,
         writer' = r \/ UNCHANGED row
  PROVE  ConfigInv'
<1>1. SUFFICES ASSUME NEW q \in Requests, pc'[q] = "write" PROVE Fresh(q)'
  BY DEF ConfigInv
<1>2. q # r /\ pc[q] = "write" /\ met' = met /\ inFlight(r) /\ inFlight(q)
  BY <1>1, WorkMoves DEF Moved, inFlight
<1>3. {q, r} \in met
  BY <1>2 DEF MetInv
<1>4. CASE writer' = r
  BY <1>2, <1>3, <1>4 DEF Fresh
<1>5. CASE UNCHANGED row
  BY <1>2, <1>5 DEF Fresh, ConfigInv, row
<1>6. QED
  BY <1>4, <1>5

LEMMA ConfigInvariant == Spec => []ConfigInv
<1>1. Init => ConfigInv
  BY DEF Init, ConfigInv
<1>2. TypeOK /\ MetInv /\ ConfigInv /\ [Next]_vars => ConfigInv'
  <2> SUFFICES ASSUME TypeOK, MetInv, ConfigInv, [Next]_vars PROVE ConfigInv'
    OBVIOUS
  <2>1. CASE UNCHANGED vars
    BY <2>1 DEF vars, row, ConfigInv, Fresh
  <2>2. ASSUME NEW r \in Requests, Arrive(r) PROVE ConfigInv'
    <3>1. pc'[r] # "write"
      BY <2>2, ArriveMoves DEF first, Kinds
    <3>2. QED
      BY <2>2, <3>1, ArriveMoves DEF Moved, ConfigInv, Fresh, row
  <2>3. ASSUME NEW r \in Requests, Work(r) PROVE ConfigInv'
    <3>1. CASE pc'[r] # "write"
      <4>1. CASE Upsert(r)
        BY <2>3, <3>1, <4>1, WriterOverlaps DEF Upsert, row
      <4>2. CASE WriteConfig(r)
        BY <2>3, <3>1, <4>2, WriterOverlaps DEF WriteConfig, row
      <4>3. CASE ReadConfig(r)
        BY <2>3, <3>1, <4>3, GotoMoves, Names, WriterOverlaps
           DEF ReadConfig, row
      <4>4. CASE ~ (Upsert(r) \/ WriteConfig(r) \/ ReadConfig(r))
        <5>1. snap' = snap /\ UNCHANGED row
          BY <2>3, <4>4
             DEF Work, Audit, StoreSession, RecordConsent, Erase, Count,
                 ListPals, MakePal, Talk
        <5>2. QED
          BY <2>3, <3>1, <5>1, WriterOverlaps
      <4>5. QED
        BY <4>1, <4>2, <4>3, <4>4
    <3>2. CASE pc'[r] = "write"
      <4>1. ReadConfig(r)
        BY <2>3, <3>2, WorkMoves
           DEF Work, Audit, StoreSession, RecordConsent, Erase, Count, Upsert,
               WriteConfig, ListPals, MakePal, Talk
      <4>2. snap' = [snap EXCEPT ![r] = config] /\ UNCHANGED row
        BY <3>2, <4>1, AnswerMoves DEF ReadConfig
      <4>3. \A q \in Requests :
              q # r => pc'[q] = pc[q] /\ snap'[q] = snap[q]
        BY <2>3, <4>2, WorkMoves DEF Moved, TypeOK
      <4>4. snap'[r] = config' /\ met' = met
        BY <2>3, <4>2, WorkMoves DEF TypeOK, row
      <4>5. QED
        BY <4>2, <4>3, <4>4 DEF ConfigInv, Fresh, row
    <3>3. QED
      BY <3>1, <3>2
  <2>4. QED
    BY <2>1, <2>2, <2>3, NextSplits
<1>3. QED
  BY <1>1, <1>2, TypeCorrect, MetInvariant, PTL DEF Spec

\* A subscription undoes only settings that were written, or written back,
\* by a request that overlapped it.
THEOREM UpdatesAreKept == Spec => NoUpdateLost
<1>1. TypeOK /\ ConfigInv /\ [Next]_vars =>
        [\A r \in Requests :
           pc[r] = "write" /\ pc'[r] # "write" =>
             \/ config'.settings = config.settings
             \/ {r, writer} \in met]_vars
  <2> SUFFICES ASSUME TypeOK, ConfigInv, [Next]_vars,
                      NEW r \in Requests, pc[r] = "write", pc'[r] # "write"
               PROVE  \/ config'.settings = config.settings
                      \/ {r, writer} \in met
    OBVIOUS
  <2>1. PICK q \in Requests : Arrive(q) \/ Work(q)
    BY NextSplits DEF vars
  <2>2. q = r
    BY <2>1, ArriveMoves, WorkMoves DEF Moved
  <2>3. Work(r)
    BY <2>1, <2>2, ArriveMoves
  <2>4. WriteConfig(r)
    BY <2>3
       DEF Work, Audit, StoreSession, RecordConsent, Erase, Count, Upsert,
           ReadConfig, ListPals, MakePal, Talk
  <2>5. config' = config \/ config' = [snap[r] EXCEPT !.hook = r]
    BY <2>4 DEF WriteConfig
  <2>6. snap[r] \in Configs
    BY DEF TypeOK
  <2>7. config' = config \/ config'.settings = snap[r].settings
    BY <2>5, <2>6 DEF Configs
  <2>8. QED
    BY <2>7 DEF ConfigInv, Fresh
<1>2. QED
  BY <1>1, TypeCorrect, ConfigInvariant, PTL DEF Spec, NoUpdateLost

-----------------------------------------------------------------------------
(* The echo pal *)

\* Whoever is about to create a pal has overlapped every creator of one.
PalInv ==
  /\ \A p \in pals : pc[p] \notin {"idle", "pals", "makePal"}
  /\ \A q \in Requests, p \in pals : pc[q] = "makePal" => {p, q} \in met
  /\ OneEchoPal

LEMMA PalInvariant == Spec => []PalInv
<1>1. Init => PalInv
  BY DEF Init, PalInv, OneEchoPal
<1>2. TypeOK /\ MetInv /\ PalInv /\ [Next]_vars => PalInv'
  <2> SUFFICES ASSUME TypeOK, MetInv, PalInv, [Next]_vars PROVE PalInv'
    OBVIOUS
  <2>0. pals \subseteq Requests
    BY DEF TypeOK
  <2>1. CASE UNCHANGED vars
    BY <2>1 DEF vars, PalInv, OneEchoPal
  <2>2. ASSUME NEW r \in Requests, Arrive(r) PROVE PalInv'
    <3>1. pc'[r] # "makePal" /\ r \notin pals
      BY <2>2, ArriveMoves DEF first, Kinds, PalInv
    <3>2. QED
      BY <2>0, <2>2, <3>1, ArriveMoves DEF Moved, PalInv, OneEchoPal
  <2>3. ASSUME NEW r \in Requests, Work(r) PROVE PalInv'
    <3>0. /\ met' = met /\ inFlight(r)
          /\ \A q \in Requests : q # r => pc'[q] = pc[q]
          /\ pc'[r] \notin {"idle", "pals"}
          /\ pc'[r] = "makePal" => pc[r] = "pals" /\ pals = {}
      BY <2>3, WorkMoves DEF Moved
    <3>1. CASE MakePal(r)
      <4>1. pals' \subseteq pals \union {r} /\ pc[r] = "makePal"
        BY <3>1 DEF MakePal
      <4>2. pc'[r] # "makePal"
        BY <3>0, <4>1
      <4>3. \A q \in Requests : pc[q] = "makePal" /\ q # r => {r, q} \in met
        BY <3>0 DEF MetInv, inFlight
      <4>4. \A p \in pals : {p, r} \in met
        BY <4>1 DEF PalInv
      <4>5. \A p, q : {p, q} = {q, p}
        OBVIOUS
      <4>6. ASSUME NEW p \in pals', NEW q \in pals'
            PROVE  p = q \/ {p, q} \in met'
        <5>1. CASE p \in pals /\ q \in pals
          BY <3>0, <5>1 DEF PalInv, OneEchoPal
        <5>2. CASE p = r /\ q \in pals
          BY <3>0, <4>4, <4>5, <5>2
        <5>3. CASE p \in pals /\ q = r
          BY <3>0, <4>4, <5>3
        <5>4. QED
          BY <4>1, <5>1, <5>2, <5>3
      <4>7. \A q \in Requests, p \in pals' :
              pc'[q] = "makePal" => {p, q} \in met'
        BY <3>0, <4>1, <4>2, <4>3 DEF PalInv
      <4>8. \A p \in pals' : pc'[p] \notin {"idle", "pals", "makePal"}
        BY <2>0, <3>0, <4>1, <4>2 DEF PalInv
      <4>9. QED
        BY <4>6, <4>7, <4>8 DEF PalInv, OneEchoPal
    <3>2. CASE ~ MakePal(r)
      <4>1. pals' = pals
        BY <2>3, <3>2
           DEF Work, Audit, StoreSession, RecordConsent, Erase, Count, Upsert,
               ReadConfig, WriteConfig, ListPals, Talk
      <4>2. QED
        BY <2>0, <3>0, <4>1 DEF PalInv, OneEchoPal
    <3>3. QED
      BY <3>1, <3>2
  <2>4. QED
    BY <2>1, <2>2, <2>3, NextSplits
<1>3. QED
  BY <1>1, <1>2, TypeCorrect, MetInvariant, PTL DEF Spec

\* Two pals are made only by requests that overlap, for any number of them.
THEOREM PalsNeedOverlap == Spec => []OneEchoPal
BY PalInvariant, PTL DEF PalInv

-----------------------------------------------------------------------------
(* Sessions and consent *)

OnRecord(r) ==
  \/ r \in gone
  \/ r \in sessions /\ (r \in consents <=> consented[r])

\* Where the control of request r can be, by what it asks.
KindInv(r) ==
  /\ kind[r] = "create" => pc[r] \in {"store", "consent", "audit", "done"}
  /\ pc[r] \in {"store", "consent"} => kind[r] = "create"
  /\ reply[r] # 0 => pc[r] = "done"

\* What a creation has done at each of its steps.
CreateInv(r) ==
  /\ pc[r] = "consent" => consented[r] /\ r \in sessions \union gone
  /\ kind[r] = "create" /\ (pc[r] = "audit" \/ reply[r] = 201) => OnRecord(r)
  /\ r \in sessions \union gone =>
       pc[r] \in {"consent", "audit", "done"} /\ kind[r] = "create"
  /\ r \in consents => consented[r]

RecordInv ==
  /\ \A r \in Requests : KindInv(r) /\ CreateInv(r)
  /\ consents \subseteq sessions /\ sessions \cap gone = {}

LEMMA InitRecord == Init => RecordInv
BY DEF Init, RecordInv, KindInv, CreateInv

\* A request that comes concerns no session yet.
LEMMA ArriveRecord ==
  ASSUME TypeOK, RecordInv, NEW r \in Requests, Arrive(r)
  PROVE  RecordInv'
<1>1. /\ UNCHANGED store
      /\ \A q \in Requests : q # r =>
           /\ pc'[q] = pc[q] /\ reply'[q] = reply[q]
           /\ kind'[q] = kind[q] /\ consented'[q] = consented[q]
      /\ pc[r] = "idle" /\ reply'[r] = reply[r]
      /\ pc'[r] \in first(kind'[r]) /\ kind'[r] \in Kinds
  BY ArriveMoves DEF Moved
<1>2. reply[r] = 0 /\ r \notin sessions \union gone /\ r \notin consents
  BY <1>1 DEF RecordInv, KindInv, CreateInv
<1>3. KindInv(r)' /\ CreateInv(r)'
  BY <1>1, <1>2 DEF KindInv, CreateInv, store, first, Kinds
<1>4. ASSUME NEW q \in Requests, q # r PROVE KindInv(q)' /\ CreateInv(q)'
  BY <1>1, <1>4 DEF RecordInv, KindInv, CreateInv, OnRecord, store
<1>5. QED
  BY <1>1, <1>3, <1>4 DEF RecordInv, store

(***************************************************************************)
(* A step of r that leaves the sessions alone needs a look only at r       *)
(* itself.                                                                 *)
(***************************************************************************)
LEMMA QuietRecord ==
  ASSUME TypeOK, RecordInv, NEW r \in Requests, Work(r), UNCHANGED store,
         KindInv(r)', CreateInv(r)'
  PROVE  RecordInv'
<1>1. /\ \A q \in Requests :
           q # r => pc'[q] = pc[q] /\ reply'[q] = reply[q]
      /\ UNCHANGED <<kind, consented>>
  BY WorkMoves DEF Moved
<1>2. ASSUME NEW q \in Requests, q # r PROVE KindInv(q)' /\ CreateInv(q)'
  BY <1>1, <1>2 DEF RecordInv, KindInv, CreateInv, OnRecord, store
<1>3. QED
  BY <1>1, <1>2 DEF RecordInv, store

\* A step of a request that creates nothing.
LEMMA OtherRecord ==
  ASSUME TypeOK, RecordInv, NEW r \in Requests, Work(r), UNCHANGED store,
         pc[r] \notin {"store", "consent", "audit", "done"}
  PROVE  RecordInv'
<1>1. kind[r] # "create" /\ kind'[r] = kind[r] /\ consented'[r] = consented[r]
  BY WorkMoves DEF RecordInv, KindInv
<1>2. r \notin sessions \union gone
  BY <1>1 DEF RecordInv, CreateInv
<1>3. pc'[r] \notin {"store", "consent"} /\ (reply'[r] # 0 => pc'[r] = "done")
  BY WorkMoves DEF Moved, RecordInv, KindInv, inFlight
<1>4. r \in consents => consented[r]
  BY DEF RecordInv, CreateInv
<1>5. KindInv(r)' /\ CreateInv(r)'
  BY <1>1, <1>2, <1>3, <1>4 DEF KindInv, CreateInv, store
<1>6. QED
  BY <1>5, QuietRecord

LEMMA StoreRecord ==
  ASSUME TypeOK, RecordInv, NEW r \in Requests, StoreSession(r)
  PROVE  RecordInv'
<1> USE Names DEF performed
<1>1. PICK o \in Outcomes :
        /\ sessions' = IF performed(o) THEN sessions \union {r} ELSE sessions
        /\ continue(r, o, IF consented[r] THEN "consent" ELSE "audit")
  BY DEF StoreSession
<1>2. /\ \A q \in Requests :
           q # r => pc'[q] = pc[q] /\ reply'[q] = reply[q]
      /\ UNCHANGED <<kind, consented, consents, gone>>
  BY WorkMoves DEF Moved, Work, StoreSession
<1>3. /\ pc[r] = "store" /\ kind[r] = "create" /\ reply[r] = 0
      /\ r \notin sessions \union gone /\ r \notin consents
  BY DEF StoreSession, RecordInv, KindInv, CreateInv
<1>4. \/ /\ o = "done" /\ reply'[r] = 0
         /\ pc'[r] = IF consented[r] THEN "consent" ELSE "audit"
      \/ o # "done" /\ pc'[r] = "done" /\ reply'[r] = 500
  BY <1>1, <1>3, GotoMoves, AnswerMoves DEF continue
<1>5. KindInv(r)' /\ CreateInv(r)'
  BY <1>1, <1>2, <1>3, <1>4 DEF KindInv, CreateInv, OnRecord
<1>6. ASSUME NEW q \in Requests, q # r PROVE KindInv(q)' /\ CreateInv(q)'
  BY <1>1, <1>2, <1>6 DEF RecordInv, KindInv, CreateInv, OnRecord
<1>7. QED
  BY <1>1, <1>2, <1>3, <1>5, <1>6 DEF RecordInv

LEMMA ConsentRecord ==
  ASSUME TypeOK, RecordInv, NEW r \in Requests, RecordConsent(r)
  PROVE  RecordInv'
<1> USE Names DEF performed, recordable
<1>1. PICK o \in Outcomes :
        /\ performed(o) => recordable(r)
        /\ consents' = IF performed(o) THEN consents \union {r} ELSE consents
        /\ continue(r, o, "audit")
  BY DEF RecordConsent
<1>2. /\ \A q \in Requests :
           q # r => pc'[q] = pc[q] /\ reply'[q] = reply[q]
      /\ UNCHANGED <<kind, consented, sessions, gone>>
  BY WorkMoves DEF Moved, Work, RecordConsent
<1>3. /\ pc[r] = "consent" /\ kind[r] = "create" /\ reply[r] = 0
      /\ r \in sessions \union gone /\ consented[r]
  BY DEF RecordConsent, RecordInv, KindInv, CreateInv
<1>4. \/ o = "done" /\ reply'[r] = 0 /\ pc'[r] = "audit"
      \/ o # "done" /\ pc'[r] = "done" /\ reply'[r] = 500
  BY <1>1, <1>3, GotoMoves, AnswerMoves DEF continue
<1>5. KindInv(r)' /\ CreateInv(r)'
  BY <1>1, <1>2, <1>3, <1>4 DEF KindInv, CreateInv, OnRecord
<1>6. ASSUME NEW q \in Requests, q # r PROVE KindInv(q)' /\ CreateInv(q)'
  BY <1>1, <1>2, <1>6 DEF RecordInv, KindInv, CreateInv, OnRecord
<1>7. QED
  BY <1>1, <1>2, <1>5, <1>6 DEF RecordInv

LEMMA EraseRecord ==
  ASSUME TypeOK, RecordInv, NEW r \in Requests, Erase(r)
  PROVE  RecordInv'
<1>1. Work(r) /\ pc[r] = "delete"
  BY DEF Work, Erase
<1>2. CASE UNCHANGED store
  BY <1>1, <1>2, OtherRecord
<1>3. CASE gone' = gone \union sessions /\ sessions' = {} /\ consents' = {}
  <2>1. /\ \A q \in Requests :
             q # r => pc'[q] = pc[q] /\ reply'[q] = reply[q]
        /\ UNCHANGED <<kind, consented>>
        /\ pc'[r] \notin {"store", "consent"}
        /\ reply'[r] # 0 => pc'[r] = "done"
    BY <1>1, WorkMoves DEF Moved, RecordInv, KindInv
  <2>2. kind[r] # "create" /\ r \notin sessions \union gone
    BY <1>1 DEF RecordInv, KindInv, CreateInv
  <2>3. KindInv(r)' /\ CreateInv(r)'
    BY <1>3, <2>1, <2>2 DEF KindInv, CreateInv
  <2>4. ASSUME NEW q \in Requests, q # r PROVE KindInv(q)' /\ CreateInv(q)'
    BY <1>3, <2>1, <2>4 DEF RecordInv, KindInv, CreateInv, OnRecord
  <2>5. QED
    BY <1>3, <2>3, <2>4 DEF RecordInv
<1>4. QED
  BY <1>2, <1>3 DEF Erase

LEMMA AuditRecord ==
  ASSUME TypeOK, RecordInv, NEW r \in Requests, Audit(r)
  PROVE  RecordInv'
<1>1. Work(r) /\ UNCHANGED store /\ pc[r] = "audit"
  BY DEF Work, Audit, store
<1>2. pc'[r] = "done" /\ UNCHANGED <<kind, consented>>
  BY Names, AnswerMoves DEF Audit, TypeOK
<1>3. KindInv(r)' /\ CreateInv(r)'
  BY <1>1, <1>2 DEF RecordInv, KindInv, CreateInv, OnRecord, store
<1>4. QED
  BY <1>1, <1>3, QuietRecord

LEMMA RecordInvariant == Spec => []RecordInv
<1>1. TypeOK /\ RecordInv /\ [Next]_vars => RecordInv'
  <2> SUFFICES ASSUME TypeOK, RecordInv, [Next]_vars PROVE RecordInv'
    OBVIOUS
  <2>1. CASE UNCHANGED vars
    BY <2>1 DEF vars, store, RecordInv, KindInv, CreateInv, OnRecord
  <2>2. ASSUME NEW r \in Requests, Arrive(r) PROVE RecordInv'
    BY <2>2, ArriveRecord
  <2>3. ASSUME NEW r \in Requests, Work(r) PROVE RecordInv'
    <3>1. CASE ~ (\/ Audit(r) \/ StoreSession(r) \/ RecordConsent(r)
                  \/ Erase(r))
      <4>1. /\ UNCHANGED store
            /\ pc[r] \in {"count", "put", "read", "write", "pals", "makePal",
                          "talk"}
        BY <2>3, <3>1
           DEF Work, Count, Upsert, ReadConfig, WriteConfig, ListPals,
               MakePal, Talk, store
      <4>2. QED
        BY <2>3, <4>1, OtherRecord
    <3>2. QED
      BY <3>1, AuditRecord, StoreRecord, ConsentRecord, EraseRecord
  <2>4. QED
    BY <2>1, <2>2, <2>3, NextSplits
<1>2. QED
  BY <1>1, InitRecord, TypeCorrect, PTL DEF Spec

\* A creation that was answered 201 has its session and its consent on
\* record until an erasure, for any number of requests, erasures and failures.
THEOREM AnsweredIsRecorded == Spec => []CreatedIsOnRecord
<1>1. RecordInv => CreatedIsOnRecord
  BY DEF RecordInv, CreatedIsOnRecord, CreateInv, OnRecord
<1>2. QED
  BY <1>1, RecordInvariant, PTL
=============================================================================
