----------------------- MODULE SessionLifecycle_proofs ----------------------
(***************************************************************************)
(* Proofs about SessionLifecycle: for any number of connections and        *)
(* messages, with or without faults and erasure.                           *)
(***************************************************************************)
EXTENDS SessionLifecycle, TLAPS

USE SessionAssumption DEF Messages

\* The columns and the callback's variables the helpers write.
LEMMA WritePhaseType ==
  ASSUME TypeOK, NEW p \in {"active", "escalated", "ended"}, NEW b \in BOOLEAN,
         WritePhase(p, b)
  PROVE  phase' \in Phases
BY DEF TypeOK, WritePhase, written, Phases

LEMMA HoldIndexType ==
  ASSUME TypeOK, NEW m \in Messages, NEW k \in Connections, holdIndex(m, k)
  PROVE  /\ index' \in [Messages -> Nat]
         /\ orderly' \in [Connections -> BOOLEAN]
BY DEF TypeOK, holdIndex

LEMMA ReceivedInMessages ==
  ASSUME TypeOK
  PROVE  /\ DOMAIN received \subseteq Messages
         /\ \A m \in DOMAIN received :
              on(m) \in Connections /\ received[m].kind \in MessageKinds
<1>1. /\ Len(received) \in Nat /\ DOMAIN received = 1 .. Len(received)
      /\ Len(received) <= MaxMessages
      /\ \A m \in 1 .. Len(received) : received[m] \in Note
  BY DEF TypeOK
<1>2. DOMAIN received \subseteq Messages
  BY <1>1
<1>3. QED
  BY <1>1, <1>2 DEF on, Note

LEMMA ProcessType ==
  ASSUME TypeOK, NEW m \in Messages, NEW k \in Connections,
         NEW kind \in MessageKinds, Process(m, k, kind)
  PROVE  /\ pc' \in [Messages -> Points]
         /\ audioBuffer' \in [Connections -> Seq(Messages)]
         /\ audio' \in [Messages -> Seq(Messages)]
         /\ index' \in [Messages -> Nat]
         /\ orderly' \in [Connections -> BOOLEAN]
<1> DEFINE buffered == Append(audioBuffer[k], m)
<1>1. buffered \in Seq(Messages) /\ <<>> \in Seq(Messages)
  BY DEF TypeOK
<1>2. CASE kind = "chunk"
  BY <1>1, <1>2 DEF TypeOK, Process, at, Points
<1>3. CASE kind = "final"
  <2>1. Final(m, k, buffered) /\ UNCHANGED <<index, orderly>>
    BY <1>3 DEF Process
  <2> HIDE DEF buffered
  <2>2. pc' \in [Messages -> Points]
    BY <2>1 DEF TypeOK, Final, at, Points
  <2>3. /\ audioBuffer' \in [Connections -> Seq(Messages)]
        /\ audio' \in [Messages -> Seq(Messages)]
    BY <1>1, <2>1 DEF TypeOK, Final
  <2>4. QED
    BY <2>1, <2>2, <2>3 DEF TypeOK
<1>4. CASE kind = "text"
  BY <1>4, HoldIndexType DEF TypeOK, Process, at, Points, InTurn
<1>5. CASE kind = "end"
  BY <1>5 DEF TypeOK, Process, at, Points
<1>6. QED
  BY <1>2, <1>3, <1>4, <1>5 DEF MessageKinds

LEMMA ArrivesType ==
  ASSUME TypeOK, NEW m \in Messages, NEW k \in Connections,
         NEW kind \in Kinds, Arrives(m, k, kind)
  PROVE  /\ received' \in Seq(Note) /\ Len(received') <= MaxMessages
         /\ kind \in MessageKinds
         /\ UNCHANGED <<phase, turns, posted, socket, setup, sessionActive,
                        turnIndex, excused>>
<1>1. [on |-> k, kind |-> kind, early |-> setup[k] # "done"] \in Note
  BY DEF Note
<1>2. QED
  BY <1>1 DEF TypeOK, Arrives, store, link

LEMMA StartTurnType ==
  ASSUME TypeOK, NEW m \in Messages, NEW i \in Nat, StartTurn(m, i)
  PROVE  pc' \in [Messages -> Points] /\ posted' \subseteq Row
BY DEF TypeOK, StartTurn, at, row, Row, Points, InTurn

LEMMA TypeStep ==
  ASSUME TypeOK, [Next]_vars
  PROVE  TypeOK'
<1> USE DEF store, link, call, work
<1>1. CASE UNCHANGED vars
  BY <1>1 DEF TypeOK, vars
<1>2. ASSUME NEW k \in Connections, Connect(k)
      PROVE  TypeOK'
  BY <1>2 DEF TypeOK, Connect
<1>3. ASSUME NEW k \in Connections, Receive(k)
      PROVE  TypeOK'
  <2>1. PICK m \in Messages, kind \in Kinds :
          /\ Arrives(m, k, kind)
          /\ \/ Process(m, k, kind)
             \/ /\ at(m, "wait")
                /\ UNCHANGED <<audioBuffer, audio, index, orderly>>
    BY <1>3 DEF Receive
  <2>2. CASE Process(m, k, kind)
    BY <2>1, <2>2, ArrivesType, ProcessType DEF TypeOK
  <2>3. CASE at(m, "wait") /\ UNCHANGED <<audioBuffer, audio, index, orderly>>
    BY <2>1, <2>3, ArrivesType DEF TypeOK, at, Points
  <2>4. QED
    BY <2>1, <2>2, <2>3
<1>4. ASSUME NEW k \in Connections, Close(k) \/ VideoEnded(k)
      PROVE  TypeOK'
  BY <1>4 DEF TypeOK, Close, VideoEnded, endCall
<1>5. ASSUME NEW k \in Connections, SetupPhase(k)
      PROVE  TypeOK'
  BY <1>5, WritePhaseType DEF TypeOK, SetupPhase, WritePhase
<1>6. ASSUME NEW k \in Connections, SetupDone(k)
      PROVE  TypeOK'
  BY <1>6 DEF TypeOK, SetupDone
<1>7. ASSUME NEW k \in Connections, CloseAnswered(k)
      PROVE  TypeOK'
  BY <1>7, WritePhaseType DEF TypeOK, CloseAnswered, endSession, WritePhase
<1>8. ASSUME NEW m \in DOMAIN received, MessageStep(m)
      PROVE  TypeOK'
  <2>1. m \in Messages /\ on(m) \in Connections
        /\ received[m].kind \in MessageKinds
    BY ReceivedInMessages
  <2>2. CASE Wake(m)
    <3>1. CASE Process(m, on(m), received[m].kind)
      BY <2>1, <2>2, <3>1, ProcessType DEF TypeOK, Wake
    <3>2. CASE at(m, "done") /\ UNCHANGED <<audioBuffer, audio, index, orderly>>
      BY <2>1, <2>2, <3>2 DEF TypeOK, Wake, at, Points
    <3>3. QED
      BY <2>2, <3>1, <3>2 DEF Wake
  <2>3. CASE Transcribed(m)
    <3>1. CASE at(m, "done") /\ UNCHANGED <<posted, index, orderly>>
      BY <2>1, <2>3, <3>1 DEF TypeOK, Transcribed, at, Points
    <3>2. CASE holdIndex(m, on(m)) /\ StartTurn(m, turnIndex[on(m)])
      <4>1. turnIndex[on(m)] \in Nat
        BY <2>1 DEF TypeOK
      <4>2. QED
        BY <2>1, <2>3, <3>2, <4>1, HoldIndexType, StartTurnType
        DEF TypeOK, Transcribed
    <3>3. QED
      BY <2>3, <3>1, <3>2 DEF Transcribed
  <2>4. CASE Detected(m)
    <3>1. index[m] \in Nat
      BY <2>1 DEF TypeOK
    <3>2. CASE StartTurn(m, index[m])
      BY <2>1, <2>4, <3>1, <3>2, StartTurnType DEF TypeOK, Detected
    <3>3. CASE at(m, "done") /\ UNCHANGED posted
      BY <2>1, <2>4, <3>3 DEF TypeOK, Detected, at, Points
    <3>4. QED
      BY <2>4, <3>2, <3>3 DEF Detected
  <2>5. CASE FailTurn(m)
    BY <2>1, <2>5 DEF TypeOK, FailTurn, at, Points
  <2>6. CASE Escalate(m)
    BY <2>1, <2>6 DEF TypeOK, Escalate, at, Points, InTurn
  <2>7. CASE Escalated(m)
    BY <2>1, <2>7, WritePhaseType
    DEF TypeOK, Escalated, WritePhase, at, Points, InTurn
  <2>8. CASE FinishTurn(m)
    <3>1. index[m] + 1 \in Nat
      BY <2>1 DEF TypeOK
    <3>2. row(m, "ai", index[m] + 1) \in Row
      BY <2>1, <3>1 DEF row, Row
    <3>3. QED
      BY <2>1, <2>8, <3>2 DEF TypeOK, FinishTurn, at, Points
  <2>9. CASE EndAnswered(m)
    BY <2>1, <2>9, WritePhaseType
    DEF TypeOK, EndAnswered, endSession, WritePhase, at, Points
  <2>10. QED
    BY <1>8, <2>2, <2>3, <2>4, <2>5, <2>6, <2>7, <2>8, <2>9 DEF MessageStep
<1>9. ASSUME NEW r \in posted, TurnArrives(r)
      PROVE  TypeOK'
  BY <1>9 DEF TypeOK, TurnArrives, addTurn
<1>10. CASE Erase
  BY <1>10 DEF TypeOK, Erase, Phases
<1>11. QED
  BY <1>1, <1>2, <1>3, <1>4, <1>5, <1>6, <1>7, <1>8, <1>9, <1>10
  DEF Next, ConnectionStep

LEMMA TypeInit == Init => TypeOK
<1> SUFFICES ASSUME Init
             PROVE  TypeOK
  OBVIOUS
<1>1. <<>> \in Seq(Messages) /\ <<>> \in Seq(Note) /\ Len(<<>>) = 0
  OBVIOUS
<1>2. received \in Seq(Note) /\ Len(received) <= MaxMessages
  BY <1>1 DEF Init
<1>3. /\ audioBuffer \in [Connections -> Seq(Messages)]
      /\ audio \in [Messages -> Seq(Messages)]
  BY <1>1 DEF Init
<1>4. QED
  BY <1>2, <1>3 DEF Init, TypeOK, Phases, Points

(***************************************************************************)
(* TypeOK: every variable keeps its type; in particular sessions.phase is  *)
(* always a SessionPhase.                                                  *)
(***************************************************************************)
THEOREM TypeCorrect == Spec => []TypeOK
BY TypeInit, TypeStep, PTL DEF Spec

-----------------------------------------------------------------------------
(***************************************************************************)
(* ErasedStaysErased: no INSERT finds the row it refers to once the        *)
(* session is erased, and no UPDATE brings that row back.                  *)
(***************************************************************************)
THEOREM ErasureIsFinal == Spec => []ErasedStaysErased
<1>1. Init => ErasedStaysErased
  BY DEF Init, ErasedStaysErased
<1>2. ASSUME ErasedStaysErased, [Next]_vars
      PROVE  ErasedStaysErased'
  <2> USE DEF ErasedStaysErased, store, link, call, work
  <2>1. CASE UNCHANGED vars
    BY <1>2, <2>1 DEF vars
  <2>2. ASSUME NEW k \in Connections,
               \/ Connect(k) \/ Receive(k) \/ SetupDone(k)
               \/ Close(k) \/ VideoEnded(k)
        PROVE  ErasedStaysErased'
    BY <1>2, <2>2 DEF Connect, Receive, Arrives, SetupDone, Close, VideoEnded
  <2>3. ASSUME NEW k \in Connections, SetupPhase(k) \/ CloseAnswered(k)
        PROVE  ErasedStaysErased'
    BY <1>2, <2>3 DEF SetupPhase, CloseAnswered, endSession, WritePhase, written
  <2>4. ASSUME NEW m \in DOMAIN received, MessageStep(m)
        PROVE  ErasedStaysErased'
    <3>1. CASE Wake(m) \/ Transcribed(m) \/ Detected(m) \/ FailTurn(m)
                 \/ Escalate(m) \/ FinishTurn(m)
      BY <1>2, <3>1
      DEF Wake, Transcribed, Detected, FailTurn, Escalate, FinishTurn
    <3>2. CASE Escalated(m) \/ EndAnswered(m)
      BY <1>2, <3>2
      DEF Escalated, EndAnswered, endSession, WritePhase, written
    <3>3. QED
      BY <2>4, <3>1, <3>2 DEF MessageStep
  <2>5. ASSUME NEW r \in posted, TurnArrives(r)
        PROVE  ErasedStaysErased'
    BY <1>2, <2>5 DEF TurnArrives, addTurn
  <2>6. CASE Erase
    BY <2>6 DEF Erase
  <2>7. QED
    BY <1>2, <2>1, <2>2, <2>3, <2>4, <2>5, <2>6 DEF Next, ConnectionStep
<1>3. QED
  BY <1>1, <1>2, PTL DEF Spec

-----------------------------------------------------------------------------
(* Turn indices *)

Rows    == turns \union posted
Posting == {"turn", "escalate", "reply"}    \* the user's row is posted

\* A row belongs to a message that was received and got as far as posting.
OwnersPosted ==
  \A r \in Rows : /\ r \in Row
                  /\ r.by \in DOMAIN received
                  /\ pc[r.by] \in Posting \union {"done"}

\* On an orderly connection one message at most holds an index, the current one.
OneHolder ==
  \A m, n \in DOMAIN received :
    orderly[on(m)] /\ on(m) = on(n) /\ pc[m] \in InTurn /\ pc[n] \in InTurn
      => m = n /\ index[m] = turnIndex[on(m)]

\* Its rows lie below the current index, but for the user's row of the holder.
RowsBelow ==
  \A r \in Rows :
    orderly[on(r.by)] =>
      \/ r.index < turnIndex[on(r.by)]
      \/ /\ r.index = turnIndex[on(r.by)] /\ r.speaker = "user"
         /\ pc[r.by] \in Posting

\* The inductive invariant.
IndexInv == TypeOK /\ OwnersPosted /\ OneHolder /\ RowsBelow /\ OrderlyIndices

\* Messages already received keep their connection.
Extends ==
  /\ DOMAIN received \subseteq DOMAIN received'
  /\ \A n \in DOMAIN received : on(n)' = on(n)

(***************************************************************************)
(* A step that hands out no index and adds no row, and that advances only  *)
(* the messages of a connection it declares disorderly, or none in a turn. *)
(***************************************************************************)
LEMMA QuietIndex ==
  ASSUME IndexInv, TypeOK', Extends, UNCHANGED <<turnIndex, index>>,
         Rows' \subseteq Rows,
         \A k \in Connections : orderly'[k] => orderly[k],
         \A n \in DOMAIN received' \ DOMAIN received : pc'[n] \notin InTurn,
         \A n \in DOMAIN received :
           /\ pc[n] \in Posting \union {"done"}
                => pc'[n] \in Posting \union {"done"}
           /\ orderly'[on(n)] =>
                /\ pc'[n] \in InTurn => pc[n] \in InTurn
                /\ pc[n] \in Posting => pc'[n] \in Posting
  PROVE  IndexInv'
<1>1. \A m \in DOMAIN received : on(m) \in Connections
  BY ReceivedInMessages DEF IndexInv
<1>2. OwnersPosted'
  BY DEF IndexInv, OwnersPosted, Extends
<1>3. OneHolder'
  BY <1>1 DEF IndexInv, OneHolder, Extends
<1>4. RowsBelow' /\ OrderlyIndices'
  BY <1>1 DEF IndexInv, RowsBelow, OrderlyIndices, OwnersPosted, Extends, Rows
<1>5. QED
  BY <1>2, <1>3, <1>4 DEF IndexInv

(***************************************************************************)
(* Message m, new or past its transcription, takes the index of connection *)
(* k, and posts the user's row with it or not yet.                         *)
(***************************************************************************)
LEMMA HoldIndex ==
  ASSUME IndexInv, TypeOK', Extends, NEW m \in Messages, NEW k \in Connections,
         DOMAIN received' = DOMAIN received \union {m}, on(m)' = k,
         m \in DOMAIN received => pc[m] \in {"wait", "asr"},
         UNCHANGED turnIndex, holdIndex(m, k),
         NEW p \in {"detect", "turn"}, at(m, p),
         Rows' \subseteq Rows \union
           (IF p = "turn" THEN {row(m, "user", turnIndex[k])} ELSE {})
  PROVE  IndexInv'
<1> DEFINE new == row(m, "user", turnIndex[k])
<1>1. /\ \A n \in DOMAIN received : n \in Messages /\ on(n) \in Connections
      /\ \A n \in DOMAIN received : n # m => pc'[n] = pc[n]
      /\ \A n \in DOMAIN received : n # m => index'[n] = index[n]
      /\ pc'[m] = p /\ index'[m] = turnIndex[k]
  BY ReceivedInMessages DEF IndexInv, TypeOK, at, holdIndex
<1>2. /\ \A c \in Connections : orderly'[c] => orderly[c]
      /\ orderly'[k] =>
           \A n \in DOMAIN received : on(n) = k => pc[n] \notin InTurn
  BY DEF IndexInv, TypeOK, holdIndex
<1>3. \A r \in Rows : r.by # m
  BY DEF IndexInv, OwnersPosted, Posting
<1>4. /\ new \in Row /\ new.by = m
      /\ new.speaker = "user" /\ new.index = turnIndex[k]
  BY DEF IndexInv, TypeOK, row, Row
<1>5. \A r \in Rows' : r \in Rows \/ (r = new /\ p = "turn")
  OBVIOUS
<1> HIDE DEF new
<1>6. OwnersPosted'
  BY <1>1, <1>3, <1>4, <1>5 DEF IndexInv, OwnersPosted, Extends, Posting
<1>7. OneHolder'
  <2> SUFFICES ASSUME NEW a \in DOMAIN received', NEW b \in DOMAIN received',
                      orderly'[on(a)'], on(a)' = on(b)',
                      pc'[a] \in InTurn, pc'[b] \in InTurn
               PROVE  a = b /\ index'[a] = turnIndex[on(a)']
    BY DEF OneHolder
  <2>1. CASE a = m \/ b = m
    BY <1>1, <1>2, <2>1 DEF Extends
  <2>2. CASE a # m /\ b # m
    BY <1>1, <1>2, <2>2 DEF IndexInv, OneHolder, Extends
  <2>3. QED
    BY <2>1, <2>2
<1>8. \A r \in Rows : orderly'[k] /\ on(r.by) = k => r.index < turnIndex[k]
  BY <1>2 DEF IndexInv, RowsBelow, OwnersPosted, Posting, InTurn
<1>9. RowsBelow'
  <2> SUFFICES ASSUME NEW r \in Rows', orderly'[on(r.by)']
               PROVE  \/ r.index < turnIndex[on(r.by)']
                      \/ /\ r.index = turnIndex[on(r.by)']
                         /\ r.speaker = "user" /\ pc'[r.by] \in Posting
    BY DEF RowsBelow
  <2>1. CASE r \in Rows
    BY <1>1, <1>2, <1>3, <2>1
    DEF IndexInv, RowsBelow, OwnersPosted, Extends
  <2>2. CASE r = new /\ p = "turn"
    BY <1>1, <1>4, <2>2 DEF Posting
  <2>3. QED
    BY <1>5, <2>1, <2>2
<1>10. OrderlyIndices'
  <2> SUFFICES ASSUME NEW r \in Rows', NEW s \in Rows', on(r.by)' = on(s.by)',
                      orderly'[on(r.by)'], r.index = s.index
               PROVE  r = s
    BY DEF OrderlyIndices, Rows
  <2>1. CASE r \in Rows /\ s \in Rows
    BY <1>1, <1>2, <2>1
    DEF IndexInv, OrderlyIndices, OwnersPosted, Extends, Rows
  <2>2. CASE r = new /\ s \in Rows
    <3>1. on(r.by)' = k
      BY <1>4, <2>2
    <3>2. s.by \in DOMAIN received /\ on(s.by) = k
      BY <2>2, <3>1 DEF IndexInv, OwnersPosted, Extends
    <3>3. s.index < turnIndex[k] /\ s.index \in Nat
      BY <1>8, <2>2, <3>1, <3>2 DEF IndexInv, OwnersPosted, Row
    <3>4. turnIndex[k] \in Nat
      BY DEF IndexInv, TypeOK
    <3>5. QED
      BY <1>4, <2>2, <3>3, <3>4
  <2>3. CASE r \in Rows /\ s = new
    <3>1. on(s.by)' = k
      BY <1>4, <2>3
    <3>2. r.by \in DOMAIN received /\ on(r.by) = k
      BY <2>3, <3>1 DEF IndexInv, OwnersPosted, Extends
    <3>3. r.index < turnIndex[k] /\ r.index \in Nat
      BY <1>8, <2>3, <3>1, <3>2 DEF IndexInv, OwnersPosted, Row
    <3>4. turnIndex[k] \in Nat
      BY DEF IndexInv, TypeOK
    <3>5. QED
      BY <1>4, <2>3, <3>3, <3>4
  <2>4. QED
    BY <1>5, <2>1, <2>2, <2>3
<1>11. QED
  BY <1>6, <1>7, <1>9, <1>10 DEF IndexInv

\* Processing a message that was just received, or slept so far.
LEMMA ProcessIndex ==
  ASSUME IndexInv, TypeOK', Extends, NEW m \in Messages, NEW k \in Connections,
         NEW kind \in MessageKinds, Process(m, k, kind),
         DOMAIN received' = DOMAIN received \union {m}, on(m)' = k,
         m \in DOMAIN received => pc[m] = "wait",
         UNCHANGED <<turns, posted, turnIndex>>
  PROVE  IndexInv'
<1>1. CASE at(m, "detect") /\ holdIndex(m, k)
  BY <1>1, HoldIndex DEF Rows
<1>2. CASE /\ \E p \in {"done", "asr", "end"} : at(m, p)
           /\ UNCHANGED <<index, orderly>>
  <2>1. /\ \A n \in DOMAIN received : n \in Messages
        /\ \A n \in DOMAIN received : n # m => pc'[n] = pc[n]
        /\ pc'[m] \in {"done", "asr", "end"}
    BY <1>2, ReceivedInMessages DEF IndexInv, TypeOK, at
  <2>2. QED
    BY <1>2, <2>1, QuietIndex DEF Rows, Posting, InTurn
<1>3. QED
  BY <1>1, <1>2 DEF Process, Final, MessageKinds

\* The user's row is posted under the index its message holds.
LEMMA DetectedIndex ==
  ASSUME IndexInv, TypeOK', NEW m \in DOMAIN received, Detected(m)
  PROVE  IndexInv'
<1> DEFINE new == row(m, "user", index[m])
<1>1. /\ pc[m] = "detect" /\ m \in Messages /\ on(m) \in Connections
      /\ DOMAIN received \subseteq Messages
      /\ \A n \in DOMAIN received : on(n) \in Connections
      /\ UNCHANGED <<turnIndex, index, orderly, received>>
      /\ \A n \in DOMAIN received : on(n)' = on(n)
  BY ReceivedInMessages DEF IndexInv, Detected, call, on
<1>2. CASE at(m, "done") /\ UNCHANGED posted
  BY <1>1, <1>2, QuietIndex
  DEF Detected, at, Extends, Rows, Posting, InTurn, IndexInv, TypeOK
<1>3. CASE StartTurn(m, index[m])
  <2>1. /\ \A n \in DOMAIN received : n # m => pc'[n] = pc[n]
        /\ pc'[m] = "turn"
    BY <1>1, <1>3 DEF StartTurn, at, IndexInv, TypeOK
  <2>2. Rows' = Rows \union {new}
    BY <1>3 DEF Detected, StartTurn, Rows
  <2>3. new \in Row /\ new.by = m /\ new.speaker = "user"
        /\ new.index = index[m] /\ index[m] \in Nat
    BY <1>1 DEF IndexInv, TypeOK, row, Row
  <2> HIDE DEF new
  <2>4. \A r \in Rows : r.by # m
    BY <1>1 DEF IndexInv, OwnersPosted, Posting
  <2>5. orderly[on(m)] => index[m] = turnIndex[on(m)]
    BY <1>1 DEF IndexInv, OneHolder, InTurn
  <2>6. OwnersPosted'
    BY <1>1, <2>1, <2>2, <2>3, <2>4 DEF IndexInv, OwnersPosted, Posting
  <2>7. OneHolder'
    BY <1>1, <2>1 DEF IndexInv, OneHolder, InTurn
  <2>8. RowsBelow'
    BY <1>1, <2>1, <2>2, <2>3, <2>4, <2>5
    DEF IndexInv, RowsBelow, OwnersPosted, Posting
  <2>9. \A r \in Rows : orderly[on(m)] /\ on(r.by) = on(m)
                          => r.index < turnIndex[on(m)] /\ r.index \in Nat
    BY <1>1, <2>4 DEF IndexInv, OneHolder, RowsBelow, OwnersPosted, Posting,
                      InTurn, Row
  <2>10. OrderlyIndices'
    <3> SUFFICES ASSUME NEW r \in Rows', NEW s \in Rows', on(r.by)' = on(s.by)',
                        orderly'[on(r.by)'], r.index = s.index
                 PROVE  r = s
      BY DEF OrderlyIndices, Rows
    <3>1. /\ r.by \in DOMAIN received /\ s.by \in DOMAIN received
          /\ on(r.by) = on(s.by) /\ orderly[on(r.by)]
      BY <1>1, <2>2, <2>3 DEF IndexInv, OwnersPosted
    <3>2. turnIndex[on(m)] \in Nat
      BY <1>1 DEF IndexInv, TypeOK
    <3>3. CASE r \in Rows /\ s \in Rows
      BY <3>1, <3>3 DEF IndexInv, OrderlyIndices, Rows
    <3>4. CASE r = new /\ s \in Rows
      BY <2>3, <2>5, <2>9, <3>1, <3>2, <3>4
    <3>5. CASE r \in Rows /\ s = new
      BY <2>3, <2>5, <2>9, <3>1, <3>2, <3>5
    <3>6. QED
      BY <2>2, <3>3, <3>4, <3>5
  <2>11. QED
    BY <2>6, <2>7, <2>8, <2>10 DEF IndexInv
<1>4. QED
  BY <1>2, <1>3 DEF Detected

\* The turn ends normally: a row above the others, and past both the index.
LEMMA FinishIndex ==
  ASSUME IndexInv, TypeOK', NEW m \in DOMAIN received, FinishTurn(m)
  PROVE  IndexInv'
<1> DEFINE k == on(m)
           new == row(m, "ai", index[m] + 1)
<1>1. /\ pc[m] \in {"turn", "reply"} /\ m \in Messages /\ k \in Connections
      /\ UNCHANGED <<index, orderly, received>>
      /\ \A n \in DOMAIN received : on(n)' = on(n) /\ on(n) \in Connections
  BY ReceivedInMessages DEF IndexInv, FinishTurn, on
<1>2. /\ \A n \in DOMAIN received : n # m => pc'[n] = pc[n]
      /\ pc'[m] = "done"
  BY <1>1, ReceivedInMessages DEF FinishTurn, at, IndexInv, TypeOK
<1>3. /\ turnIndex'[k] = turnIndex[k] + 2
      /\ \A c \in Connections : c # k => turnIndex'[c] = turnIndex[c]
      /\ \A c \in Connections : turnIndex[c] \in Nat /\ turnIndex'[c] \in Nat
  BY <1>1 DEF FinishTurn, IndexInv, TypeOK
<1>4. \A r \in Rows' : r \in Rows \/ r = new
  BY DEF FinishTurn, Rows
<1>5. new \in Row /\ new.by = m /\ new.index = index[m] + 1 /\ index[m] \in Nat
  BY <1>1 DEF IndexInv, TypeOK, row, Row
<1>6. orderly[k] => index[m] = turnIndex[k]
  BY <1>1 DEF IndexInv, OneHolder, InTurn
<1>7. \A r \in Rows : r.index \in Nat /\ r.by \in DOMAIN received
  BY DEF IndexInv, OwnersPosted, Row
<1> HIDE DEF new, k
<1>8. \A r \in Rows : orderly[k] /\ on(r.by) = k => r.index <= turnIndex[k]
  BY <1>1, <1>3, <1>7 DEF IndexInv, RowsBelow
<1>9. OwnersPosted'
  BY <1>1, <1>2, <1>4, <1>5 DEF IndexInv, OwnersPosted
<1>10. OneHolder'
  <2> SUFFICES ASSUME NEW a \in DOMAIN received, NEW b \in DOMAIN received,
                      orderly[on(a)], on(a) = on(b),
                      pc'[a] \in InTurn, pc'[b] \in InTurn
               PROVE  a = b /\ index[a] = turnIndex'[on(a)]
    BY <1>1 DEF OneHolder
  <2>1. a # m /\ b # m /\ pc[a] \in InTurn /\ pc[b] \in InTurn
    BY <1>2 DEF InTurn
  <2>2. a = b /\ index[a] = turnIndex[on(a)]
    BY <2>1 DEF IndexInv, OneHolder
  <2>3. on(a) # k
    BY <1>1, <2>1 DEF IndexInv, OneHolder, InTurn, k
  <2>4. QED
    BY <1>1, <1>3, <2>2, <2>3
<1>11. RowsBelow'
  <2> SUFFICES ASSUME NEW r \in Rows', orderly[on(r.by)]
               PROVE  \/ r.index < turnIndex'[on(r.by)]
                      \/ /\ r.index = turnIndex'[on(r.by)]
                         /\ r.speaker = "user" /\ pc'[r.by] \in Posting
    BY <1>1, <1>4, <1>5, <1>7 DEF RowsBelow
  <2>1. CASE r = new
    BY <1>3, <1>5, <1>6, <2>1 DEF k
  <2>2. CASE r \in Rows /\ on(r.by) = k
    BY <1>1, <1>3, <1>7, <1>8, <2>2
  <2>3. CASE r \in Rows /\ on(r.by) # k
    BY <1>1, <1>2, <1>3, <1>7, <2>3 DEF IndexInv, RowsBelow, k
  <2>4. QED
    BY <1>4, <2>1, <2>2, <2>3
<1>12. OrderlyIndices'
  <2> SUFFICES ASSUME NEW r \in Rows', NEW s \in Rows', on(r.by) = on(s.by),
                      orderly[on(r.by)], r.index = s.index
               PROVE  r = s
    BY <1>1, <1>4, <1>5, <1>7 DEF OrderlyIndices, Rows
  <2>1. CASE r \in Rows /\ s \in Rows
    BY <2>1 DEF IndexInv, OrderlyIndices, Rows
  <2>2. CASE r = new /\ s \in Rows
    BY <1>1, <1>3, <1>5, <1>6, <1>7, <1>8, <2>2 DEF k
  <2>3. CASE r \in Rows /\ s = new
    BY <1>1, <1>3, <1>5, <1>6, <1>7, <1>8, <2>3 DEF k
  <2>4. QED
    BY <1>4, <2>1, <2>2, <2>3
<1>13. QED
  BY <1>9, <1>10, <1>11, <1>12 DEF IndexInv

LEMMA IndexStep ==
  ASSUME IndexInv, [Next]_vars
  PROVE  IndexInv'
<1> USE DEF store, link, call, work
<1>1. TypeOK' /\ DOMAIN received \subseteq Messages
  BY TypeStep, ReceivedInMessages DEF IndexInv
<1>2. CASE UNCHANGED <<received, pc, index, turnIndex, orderly>>
           /\ Rows' \subseteq Rows
  BY <1>1, <1>2, QuietIndex DEF Extends, on
<1>3. CASE UNCHANGED vars
  BY <1>2, <1>3 DEF vars, Rows
<1>4. ASSUME NEW k \in Connections,
             Connect(k) \/ Close(k) \/ ConnectionStep(k)
      PROVE  IndexInv'
  BY <1>2, <1>4 DEF Connect, Close, ConnectionStep, SetupPhase, SetupDone,
                    VideoEnded, CloseAnswered, endSession, WritePhase, Rows
<1>5. ASSUME NEW k \in Connections, Receive(k)
      PROVE  IndexInv'
  <2>1. PICK m \in Messages, kind \in Kinds :
          /\ Arrives(m, k, kind)
          /\ \/ Process(m, k, kind)
             \/ /\ at(m, "wait")
                /\ UNCHANGED <<audioBuffer, audio, index, orderly>>
    BY <1>5 DEF Receive
  <2>2. /\ DOMAIN received' = DOMAIN received \union {m}
        /\ m \notin DOMAIN received /\ on(m)' = k /\ Extends
        /\ UNCHANGED <<turns, posted, turnIndex>>
        /\ kind \in MessageKinds
    <3> DEFINE note == [on |-> k, kind |-> kind, early |-> setup[k] # "done"]
    <3>1. note \in Note /\ kind \in MessageKinds
      BY DEF Note
    <3>2. received \in Seq(Note) /\ Len(received) \in Nat
      BY DEF IndexInv, TypeOK
    <3>3. received' = Append(received, note) /\ m = Len(received) + 1
          /\ UNCHANGED <<turns, posted, turnIndex>>
      BY <2>1 DEF Arrives
    <3>4. note.on = k
      OBVIOUS
    <3> HIDE DEF note
    <3>5. /\ DOMAIN received = 1 .. Len(received)
          /\ DOMAIN received' = 1 .. m
          /\ received'[m] = note
          /\ \A n \in 1 .. Len(received) : received'[n] = received[n]
      BY <3>1, <3>2, <3>3
    <3>6. QED
      BY <3>1, <3>2, <3>3, <3>4, <3>5 DEF Extends, on
  <2>3. CASE Process(m, k, kind)
    BY <1>1, <2>2, <2>3, ProcessIndex
  <2>4. CASE at(m, "wait") /\ UNCHANGED <<audioBuffer, audio, index, orderly>>
    <3>1. /\ \A n \in DOMAIN received : pc'[n] = pc[n]
          /\ pc'[m] = "wait"
      BY <1>1, <2>2, <2>4 DEF at, IndexInv, TypeOK
    <3>2. QED
      BY <1>1, <2>2, <2>4, <3>1, QuietIndex DEF Rows, InTurn
  <2>5. QED
    BY <2>1, <2>3, <2>4
<1>6. ASSUME NEW m \in DOMAIN received, MessageStep(m)
      PROVE  IndexInv'
  <2>1. m \in Messages /\ on(m) \in Connections
        /\ received[m].kind \in MessageKinds
    BY ReceivedInMessages DEF IndexInv
  <2>2. UNCHANGED received => Extends /\ on(m)' = on(m)
    BY DEF Extends, on
  <2>3. ASSUME NEW p \in Points, at(m, p)
        PROVE  /\ \A n \in DOMAIN received : n # m => pc'[n] = pc[n]
               /\ pc'[m] = p
    BY <1>1, <2>1, <2>3 DEF at, IndexInv, TypeOK
  <2>4. CASE Wake(m)
    <3>1. CASE Process(m, on(m), received[m].kind)
      BY <1>1, <2>1, <2>2, <2>4, <3>1, ProcessIndex DEF Wake
    <3>2. CASE at(m, "done") /\ UNCHANGED <<audioBuffer, audio, index, orderly>>
      BY <1>1, <2>2, <2>3, <2>4, <3>2, QuietIndex
      DEF Wake, Rows, Posting, InTurn, Points
    <3>3. QED
      BY <2>4, <3>1, <3>2 DEF Wake
  <2>5. CASE Transcribed(m)
    <3>1. CASE holdIndex(m, on(m)) /\ StartTurn(m, turnIndex[on(m)])
      BY <1>1, <2>1, <2>2, <2>5, <3>1, HoldIndex
      DEF Transcribed, StartTurn, Rows
    <3>2. CASE at(m, "done") /\ UNCHANGED <<posted, index, orderly>>
      BY <1>1, <2>2, <2>3, <2>5, <3>2, QuietIndex
      DEF Transcribed, Rows, Posting, InTurn, Points
    <3>3. QED
      BY <2>5, <3>1, <3>2 DEF Transcribed
  <2>6. CASE Detected(m)
    BY <1>1, <2>6, DetectedIndex
  <2>7. ASSUME orderly' = [orderly EXCEPT ![on(m)] = FALSE], at(m, "done"),
               pc[m] \in InTurn, UNCHANGED <<turns, posted, turnIndex, index,
                                             received>>
        PROVE  IndexInv'
    <3>1. /\ ~ orderly'[on(m)]
          /\ \A c \in Connections : orderly'[c] => orderly[c]
      BY <2>1, <2>7 DEF IndexInv, TypeOK
    <3>2. QED
      BY <1>1, <2>2, <2>3, <2>7, <3>1, QuietIndex DEF Rows, Posting, Points
  <2>8. CASE FailTurn(m)
    BY <2>7, <2>8 DEF FailTurn, InTurn
  <2>9. CASE Escalate(m)
    BY <1>1, <2>2, <2>3, <2>9, QuietIndex
    DEF Escalate, Rows, Posting, InTurn, Points
  <2>10. CASE Escalated(m)
    <3>1. CASE at(m, "reply") /\ UNCHANGED orderly
      BY <1>1, <2>2, <2>3, <2>10, <3>1, QuietIndex
      DEF Escalated, WritePhase, Rows, Posting, InTurn, Points
    <3>2. CASE at(m, "done") /\ orderly' = [orderly EXCEPT ![on(m)] = FALSE]
      BY <2>7, <2>10, <3>2 DEF Escalated, WritePhase, InTurn
    <3>3. QED
      BY <2>10, <3>1, <3>2 DEF Escalated
  <2>11. CASE FinishTurn(m)
    BY <1>1, <2>11, FinishIndex
  <2>12. CASE EndAnswered(m)
    BY <1>1, <2>2, <2>3, <2>12, QuietIndex
    DEF EndAnswered, endSession, WritePhase, Rows, Posting, InTurn, Points
  <2>13. QED
    BY <1>6, <2>4, <2>5, <2>6, <2>8, <2>9, <2>10, <2>11, <2>12 DEF MessageStep
<1>7. ASSUME NEW r \in posted, TurnArrives(r)
      PROVE  IndexInv'
  BY <1>2, <1>7 DEF TurnArrives, addTurn, Rows
<1>8. CASE Erase
  BY <1>2, <1>8 DEF Erase, Rows
<1>9. QED
  BY <1>3, <1>4, <1>5, <1>6, <1>7, <1>8 DEF Next

(***************************************************************************)
(* OrderlyIndices: for any number of messages and connections, the rows of *)
(* turns that neither overlap nor fail have distinct indices.              *)
(***************************************************************************)
THEOREM IndicesAreDistinct == Spec => []OrderlyIndices
<1>1. Init => IndexInv
  BY TypeInit DEF Init, IndexInv, OwnersPosted, OneHolder, RowsBelow,
                  OrderlyIndices, Rows
<1>2. IndexInv => OrderlyIndices
  BY DEF IndexInv
<1>3. QED
  BY <1>1, <1>2, IndexStep, PTL DEF Spec

-----------------------------------------------------------------------------
(***************************************************************************)
(* The end of the session.  Setups, ends, escalations and erasures of all  *)
(* connections write the same phase, none of them looking at it.  What     *)
(* holds them together: as long as a connection accepts messages, its end  *)
(* is still to come; when none does, the last write that was answered and  *)
(* is not excused left a phase that is over.                               *)
(***************************************************************************)
OverInv ==
  /\ \A k \in Connections :
       sessionActive[k] => socket[k] \in {"open", "video", "closing"}
  /\ ~ excused => \/ phase \in Over
                  \/ \E k \in Connections : sessionActive[k]
                  \/ \A k \in Connections : socket[k] = "none"

LEMMA EndIsOver ==
  ASSUME TypeOK, OverInv, NEW k \in Connections, endSession(k),
         \A c \in Connections : c # k => socket'[c] = socket[c]
  PROVE  OverInv'
<1>1. ~ excused' => phase' \in Over
  BY DEF endSession, Over
<1>2. \A c \in Connections :
        sessionActive'[c] => c # k /\ sessionActive[c]
  BY DEF endSession, TypeOK
<1>3. QED
  BY <1>1, <1>2 DEF OverInv

LEMMA OverStep ==
  ASSUME TypeOK, OverInv, [Next]_vars
  PROVE  OverInv'
<1> USE DEF store, link, call, work
<1>1. CASE UNCHANGED <<phase, socket, sessionActive, excused>>
  BY <1>1 DEF OverInv
<1>2. CASE UNCHANGED vars
  BY <1>1, <1>2 DEF vars
<1>3. ASSUME NEW k \in Connections, Connect(k)
      PROVE  OverInv'
  BY <1>3 DEF Connect, OverInv, TypeOK
<1>4. ASSUME NEW k \in Connections, Receive(k) \/ SetupDone(k)
      PROVE  OverInv'
  BY <1>1, <1>4 DEF Receive, Arrives, SetupDone
<1>5. ASSUME NEW k \in Connections, Close(k) \/ VideoEnded(k)
      PROVE  OverInv'
  <2>1. /\ socket[k] # "none" /\ UNCHANGED <<phase, sessionActive, excused>>
        /\ \A c \in Connections : c # k => socket'[c] = socket[c]
        /\ sessionActive[k] => socket'[k] \in {"video", "closing"}
    BY <1>5 DEF Close, VideoEnded, endCall, TypeOK
  <2>2. QED
    BY <2>1 DEF OverInv
<1>6. ASSUME NEW k \in Connections, SetupPhase(k)
      PROVE  OverInv'
  <2>1. UNCHANGED <<socket, sessionActive>>
        /\ excused' = (excused \/ ~ sessionActive[k])
    BY <1>6 DEF SetupPhase
  <2>2. QED
    BY <2>1 DEF OverInv
<1>7. ASSUME NEW k \in Connections, CloseAnswered(k)
      PROVE  OverInv'
  <2>1. endSession(k) /\ \A c \in Connections : c # k => socket'[c] = socket[c]
    BY <1>7 DEF CloseAnswered, TypeOK
  <2>2. QED
    BY <2>1, EndIsOver
<1>8. ASSUME NEW m \in DOMAIN received, MessageStep(m)
      PROVE  OverInv'
  <2>1. CASE Wake(m) \/ Transcribed(m) \/ Detected(m) \/ FailTurn(m)
               \/ Escalate(m) \/ FinishTurn(m)
    BY <1>1, <2>1
    DEF Wake, Transcribed, Detected, FailTurn, Escalate, FinishTurn
  <2>2. CASE Escalated(m)
    <3>1. /\ phase' \in {phase, "escalated", "erased"}
          /\ UNCHANGED <<socket, sessionActive, excused>>
      BY <2>2 DEF Escalated, WritePhase, written
    <3>2. QED
      BY <3>1 DEF OverInv, Over
  <2>3. CASE EndAnswered(m)
    <3>1. on(m) \in Connections
      BY ReceivedInMessages
    <3>2. endSession(on(m)) /\ UNCHANGED socket
      BY <2>3 DEF EndAnswered
    <3>3. QED
      BY <3>1, <3>2, EndIsOver
  <2>4. QED
    BY <1>8, <2>1, <2>2, <2>3 DEF MessageStep
<1>9. ASSUME NEW r \in posted, TurnArrives(r)
      PROVE  OverInv'
  BY <1>1, <1>9 DEF TurnArrives
<1>10. CASE Erase
  BY <1>10 DEF Erase, OverInv, Over
<1>11. QED
  BY <1>2, <1>3, <1>4, <1>5, <1>6, <1>7, <1>8, <1>9, <1>10
  DEF Next, ConnectionStep

(***************************************************************************)
(* ClosedSessionIsOver: for any number of connections and messages, when   *)
(* all is at rest after a connection was closed, the session is over,      *)
(* unless its end was not written or written over.                         *)
(***************************************************************************)
THEOREM SessionEnds == Spec => []ClosedSessionIsOver
<1>1. Init => OverInv
  BY DEF Init, OverInv
<1>2. OverInv => ClosedSessionIsOver
  BY DEF OverInv, ClosedSessionIsOver, AtRest
<1>3. QED
  BY <1>1, <1>2, OverStep, TypeCorrect, PTL DEF Spec

-----------------------------------------------------------------------------
(***************************************************************************)
(* The audio.  A chunk is put into the buffer of its connection in the     *)
(* step that processes its message, and a message is processed once; from  *)
(* there the whole buffer moves to one transcription.                      *)
(***************************************************************************)
Has(b, n)   == \E i \in DOMAIN b : b[i] = n
NoRepeat(b) == \A i, j \in DOMAIN b : b[i] = b[j] => i = j

InOrder(b) ==
  \A i, j \in DOMAIN b : i < j /\ b[i] > b[j] => received[b[j]].early

\* Its chunks were received, and sleep no more.
Heard(b) ==
  \A n \in Messages : Has(b, n) => n \in DOMAIN received /\ pc[n] # "wait"

Good(b) == NoRepeat(b) /\ InOrder(b) /\ Heard(b)

OwnChunks ==
  \A k \in Connections, n \in Messages :
    Has(audioBuffer[k], n)
      => on(n) = k /\ \A m \in Messages : ~ Has(audio[m], n)

OneTranscription ==
  \A l, m, n \in Messages : Has(audio[l], n) /\ Has(audio[m], n) => l = m

\* The inductive invariant.
AudioInv ==
  /\ \A k \in Connections : Good(audioBuffer[k])
  /\ \A m \in Messages : Good(audio[m])
  /\ OwnChunks /\ OneTranscription
  /\ \A m \in DOMAIN received : pc[m] = "wait" => received[m].early

\* What a step does to the messages that were received before.
Onward ==
  /\ DOMAIN received \subseteq DOMAIN received'
  /\ \A n \in DOMAIN received : /\ received'[n] = received[n]
                                /\ pc'[n] = "wait" => pc[n] = "wait"
  /\ \A n \in DOMAIN received' \ DOMAIN received :
       pc'[n] = "wait" => received'[n].early

LEMMA StillGood ==
  ASSUME Onward, DOMAIN received \subseteq Messages,
         NEW b \in Seq(Messages), Good(b)
  PROVE  Good(b)'
<1>1. \A i \in DOMAIN b : b[i] \in Messages /\ b[i] \in DOMAIN received
  BY DEF Good, Heard, Has
<1>2. InOrder(b)'
  BY <1>1 DEF Onward, Good, InOrder
<1>3. Heard(b)'
  BY DEF Onward, Good, Heard
<1>4. QED
  BY <1>2, <1>3 DEF Good, NoRepeat

\* A step that does nothing with audio.
LEMMA QuietAudio ==
  ASSUME TypeOK, AudioInv, Onward, UNCHANGED <<audioBuffer, audio>>
  PROVE  AudioInv'
<1>1. DOMAIN received \subseteq Messages
  BY ReceivedInMessages
<1>2. /\ \A k \in Connections : Good(audioBuffer[k])'
      /\ \A m \in Messages : Good(audio[m])'
  <2>1. ASSUME NEW k \in Connections
        PROVE  Good(audioBuffer[k])'
    <3>1. PICK b \in Seq(Messages) : b = audioBuffer[k]
      BY DEF TypeOK
    <3>2. Good(b)'
      BY <1>1, <3>1, StillGood DEF AudioInv
    <3>3. b = audioBuffer'[k]
      BY <3>1
    <3>4. QED
      BY <3>2, <3>3 DEF Good, NoRepeat, InOrder, Heard, Has
  <2>2. ASSUME NEW m \in Messages
        PROVE  Good(audio[m])'
    <3>1. PICK b \in Seq(Messages) : b = audio[m]
      BY DEF TypeOK
    <3>2. Good(b)'
      BY <1>1, <3>1, StillGood DEF AudioInv
    <3>3. b = audio'[m]
      BY <3>1
    <3>4. QED
      BY <3>2, <3>3 DEF Good, NoRepeat, InOrder, Heard, Has
  <2>3. QED
    BY <2>1, <2>2
<1>3. OwnChunks'
  <2>1. \A k \in Connections, n \in Messages :
          Has(audioBuffer[k], n) => n \in DOMAIN received
    BY DEF AudioInv, Good, Heard
  <2>2. \A n \in DOMAIN received : on(n)' = on(n)
    BY DEF Onward, on
  <2>3. QED
    BY <2>1, <2>2 DEF AudioInv, OwnChunks
<1>4. OneTranscription'
  BY DEF AudioInv, OneTranscription
<1>5. \A m \in DOMAIN received' : pc'[m] = "wait" => received'[m].early
  BY DEF AudioInv, Onward
<1>6. QED
  BY <1>2, <1>3, <1>4, <1>5 DEF AudioInv

\* A message that comes after every message of the buffer, or was early.
LEMMA Appended ==
  ASSUME NEW b \in Seq(Messages), NEW m \in Messages, Good(b)', ~ Has(b, m),
         m \in DOMAIN received', pc'[m] # "wait",
         \A n \in DOMAIN received' : n > m => received'[m].early
  PROVE  /\ Append(b, m) \in Seq(Messages)
         /\ Good(Append(b, m))'
         /\ \A n \in Messages : Has(Append(b, m), n) <=> Has(b, n) \/ n = m
<1> DEFINE c == Append(b, m)
<1>1. /\ c \in Seq(Messages) /\ Len(b) \in Nat
      /\ DOMAIN b = 1 .. Len(b) /\ DOMAIN c = 1 .. (Len(b) + 1)
      /\ c[Len(b) + 1] = m
      /\ \A i \in 1 .. Len(b) : c[i] = b[i] /\ b[i] \in Messages
  OBVIOUS
<1> HIDE DEF c
<1>2. \A i \in DOMAIN c : i = Len(b) + 1 \/ i \in DOMAIN b
  BY <1>1
<1>3. \A n \in Messages : Has(c, n) <=> Has(b, n) \/ n = m
  BY <1>1, <1>2 DEF Has
<1>4. \A i \in DOMAIN b : b[i] # m
  BY DEF Has
<1>5. NoRepeat(c)
  BY <1>1, <1>2, <1>4 DEF Good, NoRepeat
<1>6. InOrder(c)'
  <2> SUFFICES ASSUME NEW i \in DOMAIN c, NEW j \in DOMAIN c,
                      i < j, c[i] > c[j]
               PROVE  received'[c[j]].early
    BY DEF InOrder
  <2>1. i \in DOMAIN b
    BY <1>1, <1>2
  <2>2. b[i] \in DOMAIN received'
    BY <1>1, <2>1 DEF Good, Heard, Has
  <2>3. CASE j = Len(b) + 1
    BY <1>1, <2>1, <2>2, <2>3
  <2>4. CASE j \in DOMAIN b
    BY <1>1, <2>1, <2>4 DEF Good, InOrder
  <2>5. QED
    BY <1>2, <2>3, <2>4
<1>7. Heard(c)'
  BY <1>3 DEF Good, Heard
<1>8. Good(c)'
  BY <1>5, <1>6, <1>7 DEF Good, NoRepeat
<1>9. QED
  BY <1>1, <1>3, <1>8 DEF c

\* The invariant after a step, from the buffers B and the audio A it leaves.
LEMMA Placed ==
  ASSUME NEW B \in [Connections -> Seq(Messages)],
         NEW A \in [Messages -> Seq(Messages)],
         audioBuffer' = B, audio' = A,
         \A k \in Connections : Good(B[k])', \A m \in Messages : Good(A[m])',
         \A k \in Connections, n \in Messages :
           Has(B[k], n) => on(n)' = k /\ \A m \in Messages : ~ Has(A[m], n),
         \A l, m, n \in Messages : Has(A[l], n) /\ Has(A[m], n) => l = m,
         \A n \in DOMAIN received' : pc'[n] = "wait" => received'[n].early
  PROVE  AudioInv'
<1>1. ASSUME NEW k \in Connections
      PROVE  Good(audioBuffer[k])'
  <2>1. PICK b : b = B[k]
    OBVIOUS
  <2>2. Good(b)' /\ b = audioBuffer'[k]
    BY <2>1
  <2>3. QED
    BY <2>2 DEF Good, NoRepeat, InOrder, Heard, Has
<1>2. ASSUME NEW m \in Messages
      PROVE  Good(audio[m])'
  <2>1. PICK b : b = A[m]
    OBVIOUS
  <2>2. Good(b)' /\ b = audio'[m]
    BY <2>1
  <2>3. QED
    BY <2>2 DEF Good, NoRepeat, InOrder, Heard, Has
<1>3. OwnChunks' /\ OneTranscription'
  BY DEF OwnChunks, OneTranscription, Has
<1>4. QED
  BY <1>1, <1>2, <1>3 DEF AudioInv

LEMMA ProcessAudio ==
  ASSUME TypeOK, TypeOK', AudioInv, Onward,
         NEW m \in Messages, NEW k \in Connections, NEW kind \in MessageKinds,
         Process(m, k, kind), on(m)' = k,
         DOMAIN received' = DOMAIN received \union {m},
         m \in DOMAIN received => pc[m] = "wait",
         \A n \in DOMAIN received' : n > m => received'[m].early
  PROVE  AudioInv'
<1>1. CASE UNCHANGED <<audioBuffer, audio>>
  BY <1>1, QuietAudio
<1>2. CASE kind \in {"chunk", "final"}
  <2>1. DOMAIN received \subseteq Messages
    BY ReceivedInMessages
  <2>2. PICK B \in [Connections -> Seq(Messages)],
             A \in [Messages -> Seq(Messages)] :
               B = audioBuffer /\ A = audio
    BY DEF TypeOK
  <2>3. /\ \A c \in Connections : Good(B[c])
        /\ \A n \in Messages : Good(A[n])
        /\ \A c \in Connections, n \in Messages :
             Has(B[c], n) => on(n) = c /\ \A l \in Messages : ~ Has(A[l], n)
        /\ \A j, l, n \in Messages : Has(A[j], n) /\ Has(A[l], n) => j = l
    BY <2>2 DEF AudioInv, OwnChunks, OneTranscription
  <2>4. /\ \A c \in Connections : ~ Has(B[c], m)
        /\ \A n \in Messages : ~ Has(A[n], m)
    BY <2>3 DEF Good, Heard
  <2>5. ASSUME NEW b \in Seq(Messages), Good(b)
        PROVE  Good(b)'
    BY <2>1, <2>5, StillGood
  <2>6. /\ \A c \in Connections : Good(B[c])'
        /\ \A n \in Messages : Good(A[n])'
    BY <2>3, <2>5
  <2>7. PICK new \in Seq(Messages) :
          /\ new = Append(B[k], m) /\ Good(new)'
          /\ \A n \in Messages : Has(new, n) <=> Has(B[k], n) \/ n = m
    <3>1. pc'[m] # "wait"
      BY <1>2 DEF Process, Final, at, TypeOK
    <3>2. B[k] \in Seq(Messages) /\ Good(B[k])' /\ ~ Has(B[k], m)
      BY <2>4, <2>6
    <3>3. m \in DOMAIN received'
      OBVIOUS
    <3>4. /\ Append(B[k], m) \in Seq(Messages)
          /\ Good(Append(B[k], m))'
          /\ \A n \in Messages :
               Has(Append(B[k], m), n) <=> Has(B[k], n) \/ n = m
      BY <3>1, <3>2, <3>3, Appended
    <3>5. QED
      BY <3>4
  <2>8. <<>> \in Seq(Messages) /\ Good(<<>>)' /\ \A n : ~ Has(<<>>, n)
    BY DEF Good, NoRepeat, InOrder, Heard, Has
  <2>9. /\ \A c \in Connections, n \in Messages : Has(B[c], n) => on(n)' = c
        /\ \A n \in Messages : Has(new, n) => on(n)' = k
    <3>1. \A c \in Connections, n \in Messages :
            Has(B[c], n) => n \in DOMAIN received /\ on(n) = c
      BY <2>3 DEF Good, Heard
    <3>2. \A n \in DOMAIN received : on(n)' = on(n)
      BY DEF Onward, on
    <3>3. QED
      BY <2>7, <3>1, <3>2
  <2>10. \A n \in DOMAIN received' : pc'[n] = "wait" => received'[n].early
    BY DEF Onward, AudioInv
  <2>11. CASE audioBuffer' = [audioBuffer EXCEPT ![k] = new] /\ UNCHANGED audio
    <3>1. PICK C \in [Connections -> Seq(Messages)] :
            /\ audioBuffer' = C /\ C[k] = new
            /\ \A c \in Connections : c # k => C[c] = B[c]
      BY <2>2, <2>11
    <3>2. \A c \in Connections : Good(C[c])'
      BY <2>6, <2>7, <3>1
    <3>3. \A c \in Connections, n \in Messages :
            Has(C[c], n) => on(n)' = c /\ \A l \in Messages : ~ Has(A[l], n)
      <4>1. \A n, l \in Messages : Has(new, n) => ~ Has(A[l], n)
        BY <2>3, <2>4, <2>7
      <4>2. QED
        BY <2>3, <2>9, <3>1, <4>1
    <3>4. audio' = A
      BY <2>2, <2>11
    <3>5. QED
      BY <2>3, <2>6, <2>10, <3>1, <3>2, <3>3, <3>4, Placed
  <2>12. CASE audioBuffer' = [audioBuffer EXCEPT ![k] = <<>>]
    <3>1. PICK C \in [Connections -> Seq(Messages)] :
            /\ audioBuffer' = C /\ C[k] = <<>>
            /\ \A c \in Connections : c # k => C[c] = B[c]
      BY <2>2, <2>8, <2>12
    <3>2. \A c \in Connections : Good(C[c])'
      BY <2>6, <2>8, <3>1
    <3>3. \A c \in Connections, n \in Messages :
            Has(C[c], n) => Has(B[c], n) /\ c # k
      BY <2>8, <3>1
    <3>4. CASE UNCHANGED audio
      <4>1. audio' = A
        BY <2>2, <3>4
      <4>2. \A c \in Connections, n \in Messages :
              Has(C[c], n) => on(n)' = c /\ \A l \in Messages : ~ Has(A[l], n)
        BY <2>3, <2>9, <3>3
      <4>3. QED
        BY <2>3, <2>6, <2>10, <3>1, <3>2, <4>1, <4>2, Placed
    <3>5. CASE audio' = [audio EXCEPT ![m] = new]
      <4>1. PICK D \in [Messages -> Seq(Messages)] :
              /\ audio' = D /\ D[m] = new
              /\ \A n \in Messages : n # m => D[n] = A[n]
        BY <2>2, <3>5
      <4>2. \A n \in Messages : Good(D[n])'
        BY <2>6, <2>7, <4>1
      <4>3. \A c \in Connections, n \in Messages :
              Has(C[c], n) => on(n)' = c /\ \A l \in Messages : ~ Has(D[l], n)
        <5> SUFFICES ASSUME NEW c \in Connections, NEW n \in Messages,
                            Has(C[c], n)
                     PROVE  on(n)' = c /\ \A l \in Messages : ~ Has(D[l], n)
          OBVIOUS
        <5>1. Has(B[c], n) /\ c # k /\ on(n)' = c
          BY <2>9, <3>3
        <5>2. ~ Has(new, n)
          BY <2>9, <5>1
        <5>3. QED
          BY <2>3, <4>1, <5>1, <5>2
      <4>4. \A j, l, n \in Messages : Has(D[j], n) /\ Has(D[l], n) => j = l
        <5>1. \A n, l \in Messages : Has(new, n) => ~ Has(A[l], n)
          BY <2>3, <2>4, <2>7
        <5>2. QED
          BY <2>3, <4>1, <5>1
      <4>5. QED
        BY <2>10, <3>1, <3>2, <4>1, <4>2, <4>3, <4>4, Placed
    <3>6. QED
      BY <1>1, <1>2, <2>2, <2>7, <3>4, <3>5 DEF Process, Final
  <2>13. QED
    BY <1>2, <2>2, <2>7, <2>11, <2>12 DEF Process, Final
<1>3. QED
  BY <1>1, <1>2 DEF Process, MessageKinds

\* The message that arrives is the last one.
LEMMA Arrived ==
  ASSUME TypeOK, NEW m \in Messages, NEW k \in Connections,
         NEW kind \in MessageKinds, Arrives(m, k, kind)
  PROVE  /\ DOMAIN received' = DOMAIN received \union {m}
         /\ m \notin DOMAIN received
         /\ \A n \in DOMAIN received' : n <= m
         /\ \A n \in DOMAIN received : received'[n] = received[n]
         /\ on(m)' = k /\ received'[m].early = (setup[k] # "done")
<1> DEFINE note == [on |-> k, kind |-> kind, early |-> setup[k] # "done"]
<1>1. note \in Note /\ note.on = k /\ note.early = (setup[k] # "done")
  BY DEF Note
<1>2. received \in Seq(Note) /\ Len(received) \in Nat
  BY DEF TypeOK
<1>3. received' = Append(received, note) /\ m = Len(received) + 1
  BY DEF Arrives
<1> HIDE DEF note
<1>4. /\ DOMAIN received = 1 .. Len(received) /\ DOMAIN received' = 1 .. m
      /\ received'[m] = note
      /\ \A n \in 1 .. Len(received) : received'[n] = received[n]
  BY <1>1, <1>2, <1>3
<1>5. QED
  BY <1>1, <1>2, <1>3, <1>4 DEF on

LEMMA AudioStep ==
  ASSUME TypeOK, AudioInv, [Next]_vars
  PROVE  AudioInv'
<1> USE DEF store, link, call, work
<1>1. TypeOK' /\ DOMAIN received \subseteq Messages
  BY TypeStep, ReceivedInMessages
<1>2. ASSUME UNCHANGED received,
             \A n \in DOMAIN received : pc'[n] = "wait" => pc[n] = "wait"
      PROVE  Onward
  BY <1>2 DEF Onward
<1>3. CASE UNCHANGED <<received, pc, audioBuffer, audio>>
  BY <1>2, <1>3, QuietAudio
<1>4. CASE UNCHANGED vars
  BY <1>3, <1>4 DEF vars
<1>5. ASSUME NEW k \in Connections, Connect(k) \/ Close(k) \/ ConnectionStep(k)
      PROVE  AudioInv'
  BY <1>3, <1>5 DEF Connect, Close, ConnectionStep, SetupPhase, SetupDone,
                    VideoEnded, CloseAnswered, endSession
<1>6. ASSUME NEW k \in Connections, Receive(k)
      PROVE  AudioInv'
  <2>1. PICK m \in Messages, kind \in Kinds :
          /\ Arrives(m, k, kind)
          /\ IF setup[k] = "done" THEN Process(m, k, kind)
             ELSE /\ at(m, "wait")
                  /\ UNCHANGED <<audioBuffer, audio, index, orderly>>
    BY <1>6 DEF Receive
  <2>2. kind \in MessageKinds
    OBVIOUS
  <2>3. /\ DOMAIN received' = DOMAIN received \union {m}
        /\ m \notin DOMAIN received
        /\ \A n \in DOMAIN received' : n <= m
        /\ \A n \in DOMAIN received : received'[n] = received[n]
        /\ on(m)' = k /\ received'[m].early = (setup[k] # "done")
    BY <2>1, <2>2, Arrived
  <2>4. \A n \in DOMAIN received' : ~ (n > m)
    BY <1>1, <2>3
  <2>5. CASE setup[k] = "done"
    <3>1. Process(m, k, kind)
      BY <2>1, <2>5
    <3>2. pc'[m] # "wait" /\ \A n \in DOMAIN received : pc'[n] = pc[n]
      BY <1>1, <2>3, <3>1 DEF Process, Final, at, TypeOK
    <3>3. Onward
      BY <2>3, <3>2 DEF Onward
    <3>4. QED
      BY <1>1, <2>2, <2>3, <2>4, <3>1, <3>3, ProcessAudio
  <2>6. CASE setup[k] # "done"
    <3>1. \A n \in DOMAIN received : pc'[n] = pc[n]
      BY <1>1, <2>1, <2>3, <2>6 DEF at, TypeOK
    <3>2. Onward
      BY <2>3, <2>6, <3>1 DEF Onward
    <3>3. QED
      BY <2>1, <2>6, <3>2, QuietAudio
  <2>7. QED
    BY <2>5, <2>6
<1>7. ASSUME NEW m \in DOMAIN received, MessageStep(m)
      PROVE  AudioInv'
  <2>1. m \in Messages /\ on(m) \in Connections
        /\ received[m].kind \in MessageKinds
    BY ReceivedInMessages
  <2>2. ASSUME UNCHANGED <<received, audioBuffer, audio>>,
               NEW p \in Points \ {"wait"}, at(m, p)
        PROVE  AudioInv'
    <3>1. \A n \in DOMAIN received : pc'[n] = "wait" => pc[n] = "wait"
      BY <1>1, <2>1, <2>2 DEF at, TypeOK
    <3>2. QED
      BY <1>2, <2>2, <3>1, QuietAudio
  <2>3. CASE Wake(m)
    <3>1. pc[m] = "wait" /\ UNCHANGED received
      BY <2>3 DEF Wake
    <3>2. CASE at(m, "done") /\ UNCHANGED <<audioBuffer, audio, index, orderly>>
      BY <2>2, <3>1, <3>2 DEF Points
    <3>3. CASE Process(m, on(m), received[m].kind)
      <4>1. \A n \in DOMAIN received : pc'[n] = "wait" => pc[n] = "wait"
        BY <1>1, <2>1, <3>3 DEF Process, Final, at, TypeOK
      <4>2. Onward
        BY <1>2, <3>1, <4>1
      <4>3. received'[m].early
        BY <3>1 DEF AudioInv
      <4>4. on(m)' = on(m) /\ DOMAIN received' = DOMAIN received \union {m}
        BY <3>1 DEF on
      <4>5. QED
        BY <1>1, <2>1, <3>1, <3>3, <4>2, <4>3, <4>4, ProcessAudio
    <3>4. QED
      BY <2>3, <3>2, <3>3 DEF Wake
  <2>4. CASE Transcribed(m) \/ Detected(m)
    BY <2>2, <2>4 DEF Transcribed, Detected, StartTurn, Points, InTurn
  <2>5. CASE FailTurn(m) \/ Escalate(m) \/ Escalated(m)
    BY <2>2, <2>5 DEF FailTurn, Escalate, Escalated, Points, InTurn
  <2>6. CASE FinishTurn(m) \/ EndAnswered(m)
    BY <2>2, <2>6 DEF FinishTurn, EndAnswered, endSession, Points
  <2>7. QED
    BY <1>7, <2>3, <2>4, <2>5, <2>6 DEF MessageStep
<1>8. ASSUME NEW r \in posted, TurnArrives(r)
      PROVE  AudioInv'
  BY <1>3, <1>8 DEF TurnArrives
<1>9. CASE Erase
  BY <1>3, <1>9 DEF Erase
<1>10. QED
  BY <1>4, <1>5, <1>6, <1>7, <1>8, <1>9 DEF Next

(***************************************************************************)
(* AudioIsKept: for any number of connections and messages, no chunk of    *)
(* audio is buffered or transcribed twice, and none out of the order of    *)
(* arrival but one that slept through the setup.                           *)
(***************************************************************************)
THEOREM AudioArrivesWhole == Spec => []AudioIsKept
<1>1. Init => AudioInv
  BY DEF Init, AudioInv, Good, NoRepeat, InOrder, Heard, Has, OwnChunks,
         OneTranscription
<1>2. TypeOK /\ AudioInv => AudioIsKept
  <2> SUFFICES ASSUME TypeOK, AudioInv
               PROVE  AudioIsKept
    OBVIOUS
  <2>1. \A m \in DOMAIN received : m \in Messages
    BY ReceivedInMessages
  <2>2. \A b \in Buffers : Good(b)
    BY <2>1 DEF Buffers, AudioInv
  <2>3. /\ \A k \in Connections : \A j \in DOMAIN audioBuffer[k] :
             audioBuffer[k][j] \in Messages
        /\ \A m \in Messages : \A j \in DOMAIN audio[m] :
             audio[m][j] \in Messages
    <3>1. \A b \in Seq(Messages) : \A j \in DOMAIN b : b[j] \in Messages
      OBVIOUS
    <3>2. QED
      BY <3>1 DEF TypeOK
  <2>4. ChunksOnce
    <3>1. \A b \in Buffers : \A i, j \in DOMAIN b : b[i] = b[j] => i = j
      BY <2>2 DEF Good, NoRepeat
    <3>2. ASSUME NEW m \in Messages, NEW i \in DOMAIN audio[m]
          PROVE  /\ \A n \in Messages : \A j \in DOMAIN audio[n] :
                      audio[m][i] = audio[n][j] => m = n
                 /\ \A k \in Connections : \A j \in DOMAIN audioBuffer[k] :
                      audioBuffer[k][j] # audio[m][i]
      <4>1. audio[m][i] \in Messages /\ Has(audio[m], audio[m][i])
        BY <2>3 DEF Has
      <4>2. QED
        BY <4>1 DEF AudioInv, OwnChunks, OneTranscription, Has
    <3>3. QED
      BY <2>1, <3>1, <3>2 DEF ChunksOnce
  <2>5. AudioInOrder
    BY <2>2 DEF AudioInOrder, Good, InOrder
  <2>6. QED
    BY <2>4, <2>5 DEF AudioIsKept
<1>3. QED
  BY <1>1, <1>2, AudioStep, TypeCorrect, PTL DEF Spec
=============================================================================
