------------------------- MODULE LiveClient_proofs --------------------------
(***************************************************************************)
(* Proofs about LiveClient, for any number of utterances, calls and events *)
(* under way.                                                              *)
(***************************************************************************)
EXTENDS LiveClient, TLAPS

USE ClientAssumption

-----------------------------------------------------------------------------
(* Types *)

\* TypeOK in two parts.
Flags == /\ connected \in BOOLEAN /\ timer \in BOOLEAN /\ vad \in BOOLEAN
         /\ vadIsSpeaking \in BOOLEAN /\ transcribing \in BOOLEAN
         /\ aiSpeaking \in BOOLEAN /\ ignored \in BOOLEAN
         /\ intruded \in BOOLEAN /\ late \in BOOLEAN
Fields == /\ sock \in {"none", "starting", "connecting", "open", "closing"}
          /\ calls \in 0 .. MaxCalls /\ prompts \in 0 .. MaxPrompts
          /\ recorder \in {"off", "on", "stopping"}
          /\ quiets \in 0 .. MaxQuiets
          /\ greeting \in {"none", "setup", "due", "said"}
          /\ stage \in [Utterances -> Stages]
          /\ recorder # "off" => \E u \in Utterances : stage[u] = "recorded"

LEMMA Parts == Flags /\ Fields <=> TypeOK
BY DEF Flags, Fields, TypeOK

\* What starting a recording leaves.
LEMMA StartRecType ==
  ASSUME TypeOK, startVadRec
  PROVE  /\ recorder' = "on" /\ stage' \in [Utterances -> Stages]
         /\ \E u \in Utterances : stage'[u] = "recorded"
<1>1. CASE recorder = "on" /\ UNCHANGED <<recorder, stage>>
  BY <1>1 DEF TypeOK
<1>2. CASE /\ recorder' = "on"
           /\ \E u \in Utterances : stage' = [stage EXCEPT ![u] = "recorded"]
  BY <1>2 DEF TypeOK, Stages
<1>3. QED
  BY <1>1, <1>2 DEF startVadRec

\* Steps that keep what is recorded.
KeepsRecorded ==
  \A u \in Utterances : stage[u] = "recorded" => stage'[u] = "recorded"

LEMMA StillRecorded ==
  ASSUME TypeOK, KeepsRecorded, recorder' # "off" => recorder # "off"
  PROVE  recorder' # "off" => \E u \in Utterances : stage'[u] = "recorded"
BY DEF TypeOK, KeepsRecorded

LEMMA StopRecType ==
  ASSUME TypeOK, stopVadRec, KeepsRecorded
  PROVE  /\ recorder' \in {"off", "stopping"}
         /\ recorder' # "off" => \E u \in Utterances : stage'[u] = "recorded"
<1>1. recorder' \in {"off", "stopping"}
  BY DEF TypeOK, stopVadRec
<1>2. recorder' # "off" => recorder # "off"
  BY DEF TypeOK, stopVadRec
<1>3. QED
  BY <1>1, <1>2, StillRecorded

LEMMA StopMicType ==
  ASSUME TypeOK, stopOpenMic
  PROVE  vad' = FALSE /\ vadIsSpeaking' = FALSE /\ quiets' \in 0 .. MaxQuiets
BY DEF TypeOK, stopOpenMic

LEMMA PromptType ==
  ASSUME TypeOK, startOpenMic PROVE prompts' \in 0 .. MaxPrompts
BY DEF TypeOK, startOpenMic, MaxPrompts

LEMMA SpeakType ==
  ASSUME TypeOK, speak PROVE aiSpeaking' = TRUE /\ quiets' \in 0 .. MaxQuiets
BY DEF TypeOK, speak

\* What a message about an utterance leaves, and leaves alone.
Heard == /\ stage' \in [Utterances -> Stages]
         /\ recorder' # "off" => \E v \in Utterances : stage'[v] = "recorded"
         /\ UNCHANGED <<sock, connected, calls, timer, prompts, vad>>
         /\ UNCHANGED <<vadIsSpeaking, recorder, greeting, intruded, late>>

\* A message about an utterance that is not being recorded.
LEMMA HearsType ==
  ASSUME TypeOK, NEW u \in Utterances,
         NEW from \in {"sent", "asr", "asked"},
         NEW to \in {"asr", "asked", "over"},
         hears(u, from, to)
  PROVE  Heard
<1>1. /\ stage[u] = from /\ stage' = [stage EXCEPT ![u] = to]
      /\ UNCHANGED <<sock, connected, calls, timer, prompts, vad>>
      /\ UNCHANGED <<vadIsSpeaking, recorder, greeting, intruded, late>>
  BY DEF hears, page, mic, ears
<1>2. stage' \in [Utterances -> Stages]
  BY <1>1 DEF TypeOK, Stages
<1>3. KeepsRecorded
  BY <1>1 DEF KeepsRecorded, TypeOK
<1>4. QED
  BY <1>1, <1>2, <1>3, StillRecorded DEF Heard

LEMMA InitType == Init => TypeOK
<1> SUFFICES ASSUME Init PROVE TypeOK
  OBVIOUS
<1>1. Flags
  BY DEF Init, Flags
<1>2. Fields
  BY DEF Init, Fields, MaxPrompts, Stages
<1>3. QED
  BY <1>1, <1>2, Parts

LEMMA StepType == TypeOK /\ [Next]_vars => TypeOK'
<1> SUFFICES ASSUME TypeOK, [Next]_vars PROVE TypeOK'
  OBVIOUS
<1> USE DEF page, mic, ears, gates, remote, past
<1>1. CASE UNCHANGED vars
  BY <1>1 DEF vars, TypeOK
<1>2. CASE SpeechBegins
  BY <1>2, StartRecType DEF SpeechBegins, TypeOK
<1>3. CASE SpeechEnds
  <2>1. KeepsRecorded
    BY <1>3 DEF SpeechEnds, KeepsRecorded
  <2>2. QED
    BY <1>3, <2>1, StopRecType DEF SpeechEnds, TypeOK
<1>4. CASE TickTranscribing
  BY <1>4 DEF TickTranscribing, TypeOK
<1>5. CASE BargeIn
  BY <1>5, StartRecType DEF BargeIn, TypeOK
<1>6. CASE BlobRead
  <2>1. Flags'
    BY <1>6 DEF BlobRead, Stages, TypeOK, Flags
  <2>2. Fields'
    BY <1>6 DEF BlobRead, Stages, TypeOK, Fields
  <2>3. QED
    BY <2>1, <2>2 DEF Flags, Fields, TypeOK
<1>7. CASE MicDue
  <2>1. Flags'
    BY <1>7, PromptType DEF MicDue, TypeOK, Flags
  <2>2. Fields'
    BY <1>7, PromptType DEF MicDue, TypeOK, Fields
  <2>3. QED
    BY <2>1, <2>2 DEF Flags, Fields, TypeOK
<1>8. CASE Prompted
  <2>1. prompts' \in 0 .. MaxPrompts
    BY <1>8 DEF Prompted, TypeOK, MaxPrompts
  <2>2. Flags'
    BY <1>8, <2>1 DEF Prompted, TypeOK, Flags
  <2>3. Fields'
    BY <1>8, <2>1 DEF Prompted, TypeOK, Fields
  <2>4. QED
    BY <2>2, <2>3 DEF Flags, Fields, TypeOK
<1>9. CASE toggleMic
  <2>1. CASE vad /\ stopVadRec /\ stopOpenMic /\ UNCHANGED prompts
    <3>1. KeepsRecorded
      BY <1>9 DEF toggleMic, KeepsRecorded
    <3>2. QED
      BY <1>9, <2>1, <3>1, StopRecType, StopMicType DEF toggleMic, TypeOK
  <2>2. CASE ~ vad /\ startOpenMic /\ UNCHANGED <<vad, ears, quiets>>
    BY <1>9, <2>2, PromptType DEF toggleMic, TypeOK
  <2>3. QED
    BY <1>9, <2>1, <2>2 DEF toggleMic
<1>10. CASE StartCall
  <2>1. Flags'
    BY <1>10 DEF StartCall, TypeOK, Flags
  <2>2. Fields'
    BY <1>10 DEF StartCall, TypeOK, Fields
  <2>3. QED
    BY <2>1, <2>2 DEF Flags, Fields, TypeOK
<1>11. CASE Started
  BY <1>11 DEF Started, TypeOK
<1>12. CASE Opened
  BY <1>12 DEF Opened, TypeOK
<1>13. CASE Closed
  <2>1. stage' \in [Utterances -> Stages]
    BY <1>13 DEF Closed, TypeOK, Stages
  <2>2. KeepsRecorded
    BY <1>13 DEF Closed, TypeOK, underWay, KeepsRecorded
  <2>3. QED
    BY <1>13, <2>1, <2>2, StopRecType, StopMicType DEF Closed, TypeOK
<1>14. CASE endCall
  <2>1. KeepsRecorded
    BY <1>14 DEF endCall, KeepsRecorded
  <2>2. QED
    BY <1>14, <2>1, StopRecType, StopMicType DEF endCall, TypeOK
<1>15. CASE Greet
  BY <1>15 DEF Greet, TypeOK
<1>16. CASE Greeted
  <2>1. aiSpeaking' \in BOOLEAN /\ quiets' \in 0 .. MaxQuiets
    BY <1>16, SpeakType DEF Greeted, TypeOK
  <2>2. QED
    BY <1>16, <2>1 DEF Greeted, turnComplete, TypeOK
<1>17. CASE Quiet
  <2>1. quiets' \in 0 .. MaxQuiets
    BY <1>17 DEF Quiet, TypeOK
  <2>2. Flags'
    BY <1>17, <2>1 DEF Quiet, TypeOK, Flags
  <2>3. Fields'
    BY <1>17, <2>1 DEF Quiet, TypeOK, Fields
  <2>4. QED
    BY <2>2, <2>3 DEF Flags, Fields, TypeOK
<1>18. ASSUME NEW u \in Utterances, Transcribing(u) PROVE TypeOK'
  BY <1>18, HearsType DEF Transcribing, Heard, TypeOK
<1>19. ASSUME NEW u \in Utterances, Ignore(u) PROVE TypeOK'
  <2>1. PICK from \in {"sent", "asr", "asked"} : hears(u, from, "over")
    BY <1>19 DEF Ignore
  <2>2. QED
    BY <1>19, <2>1, HearsType DEF Ignore, Heard, TypeOK
<1>20. ASSUME NEW u \in Utterances, UserTranscript(u) PROVE TypeOK'
  <2>1. Heard
    BY <1>20, HearsType DEF UserTranscript
  <2>2. quiets' \in 0 .. MaxQuiets
    BY <1>20 DEF UserTranscript, TypeOK
  <2>3. Flags'
    BY <1>20, <2>2, <2>1 DEF UserTranscript, Heard, TypeOK, Flags
  <2>4. Fields'
    BY <1>20, <2>2, <2>1 DEF UserTranscript, Heard, TypeOK, Fields
  <2>5. QED
    BY <2>3, <2>4 DEF Flags, Fields, TypeOK
<1>21. ASSUME NEW u \in Utterances, Complete(u) PROVE TypeOK'
  <2>1. Heard
    BY <1>21, HearsType DEF Complete
  <2>2. Flags'
    BY <1>21, <2>1 DEF Complete, turnComplete, Heard, TypeOK, Flags
  <2>3. Fields'
    BY <1>21, <2>1 DEF Complete, turnComplete, Heard, TypeOK, Fields
  <2>4. QED
    BY <2>2, <2>3 DEF Flags, Fields, TypeOK
<1>22. ASSUME NEW u \in Utterances, Speak(u) PROVE TypeOK'
  <2>1. Heard
    BY <1>22, HearsType DEF Speak
  <2>2. aiSpeaking' = TRUE /\ quiets' \in 0 .. MaxQuiets
    BY <1>22, SpeakType DEF Speak
  <2>3. Flags'
    BY <1>22, <2>1, <2>2 DEF Speak, Heard, TypeOK, Flags
  <2>4. Fields'
    BY <1>22, <2>1, <2>2 DEF Speak, Heard, TypeOK, Fields
  <2>5. QED
    BY <2>3, <2>4 DEF Flags, Fields, TypeOK
<1>23. QED
  BY <1>1, <1>2, <1>3, <1>4, <1>5, <1>6, <1>7, <1>8, <1>9, <1>10, <1>11,
     <1>12, <1>13, <1>14, <1>15, <1>16, <1>17, <1>18, <1>19, <1>20, <1>21,
     <1>22 DEF Next, Turn

\* Every variable keeps its type, and a recorder that is not off always has
\* an utterance to deliver.
THEOREM TypeCorrect == Spec => []TypeOK
BY InitType, StepType, PTL DEF Spec
-----------------------------------------------------------------------------
(* The turns of a call, and its recordings *)

\* A connected page has a call, greeted by the gateway; what is under way
\* belongs to it, and so does a recording.
Connection ==
  /\ connected <=> sock \in {"open", "closing"}
  /\ ~ connected => \A u \in Utterances : ~ underWay(u)
  /\ sock = "open" => greeting # "none"
  /\ recorder = "on" => connected /\ vad

\* Unless the caller spoke into a turn: what is recorded is recorded while
\* nothing is under way, and what is under way holds the gate closed.
Gate ==
  ~ intruded /\ sock = "open" =>
    /\ recorder # "off" =>
         greeting = "said" /\ \A u \in Utterances : ~ underWay(u)
    /\ \A u \in Utterances :
         underWay(u) => greeting = "said" /\ transcribing

\* The gate is not closed on a recording.
Unheard == recorder = "on" /\ transcribing => intruded

CallInv == Connection /\ TurnsAreSerial /\ Gate /\ Unheard /\ RecordingIsEnded

\* Steps that put no utterance under way.
NoneNew == \A u \in Utterances : underWay(u)' => underWay(u)

LEMMA RecordNoneNew ==
  ASSUME TypeOK, startVadRec PROVE NoneNew
<1>1. CASE UNCHANGED stage
  BY <1>1 DEF NoneNew, underWay
<1>2. CASE \E u \in Utterances : stage' = [stage EXCEPT ![u] = "recorded"]
  BY <1>2 DEF NoneNew, underWay, TypeOK
<1>3. QED
  BY <1>1, <1>2 DEF startVadRec

LEMMA StillSerial ==
  ASSUME TurnsAreSerial, NoneNew, intruded => intruded' PROVE TurnsAreSerial'
BY DEF TurnsAreSerial, NoneNew

\* Steps that touch none of this.
Calm == /\ UNCHANGED <<sock, connected, vad, vadIsSpeaking, recorder>>
        /\ UNCHANGED <<transcribing, greeting, stage, intruded, late>>

LEMMA CalmCall == CallInv /\ Calm => CallInv'
BY DEF Calm, CallInv, Connection, TurnsAreSerial, Gate, Unheard,
       RecordingIsEnded, underWay

LEMMA InitCall == Init => CallInv
BY DEF Init, CallInv, Connection, TurnsAreSerial, Gate, Unheard,
       RecordingIsEnded, underWay

\* A message about an utterance that is under way.
LEMMA HearsFrame ==
  ASSUME TypeOK, NEW u \in Utterances,
         NEW from \in {"sent", "asr", "asked"},
         NEW to \in {"asr", "asked", "over"},
         hears(u, from, to)
  PROVE  /\ sock = "open" /\ underWay(u) /\ NoneNew
         /\ to = "over" => ~ underWay(u)'
         /\ \A v \in Utterances : v # u => stage'[v] = stage[v]
         /\ UNCHANGED <<sock, connected, vad, vadIsSpeaking, recorder>>
         /\ UNCHANGED <<greeting, intruded, late>>
BY DEF hears, underWay, NoneNew, page, mic, ears, TypeOK

LEMMA StepCall == TypeOK /\ CallInv /\ [Next]_vars => CallInv'
<1> SUFFICES ASSUME TypeOK, CallInv, [Next]_vars PROVE CallInv'
  OBVIOUS
<1> USE DEF page, mic, ears, gates, remote, past
<1>0. /\ Connection /\ TurnsAreSerial /\ Gate /\ Unheard
      /\ RecordingIsEnded
  BY DEF CallInv
<1>1. CASE UNCHANGED vars
  BY <1>1, CalmCall DEF vars, Calm
<1>2. CASE SpeechBegins
  <2>1. NoneNew
    BY <1>2, RecordNoneNew DEF SpeechBegins
  <2>2. Connection'
    BY <1>0, <1>2 DEF SpeechBegins, Connection
  <2>3. TurnsAreSerial'
    BY <1>0, <1>2, <2>1, StillSerial DEF SpeechBegins
  <2>4. Gate'
    BY <1>0, <1>2, <2>1 DEF SpeechBegins, NoneNew, Gate, Connection, TypeOK
  <2>5. Unheard'
    BY <1>2 DEF SpeechBegins, Unheard
  <2>6. RecordingIsEnded'
    BY <1>2 DEF SpeechBegins, RecordingIsEnded
  <2>7. QED
    BY <2>2, <2>3, <2>4, <2>5, <2>6 DEF CallInv
<1>3. CASE SpeechEnds
  <2>1. NoneNew
    BY <1>3 DEF SpeechEnds, NoneNew, underWay
  <2>2. Connection'
    BY <1>0, <1>3 DEF SpeechEnds, Connection
  <2>3. TurnsAreSerial'
    BY <1>0, <1>3, <2>1, StillSerial DEF SpeechEnds
  <2>4. Gate'
    BY <1>0, <1>3, <2>1 DEF SpeechEnds, stopVadRec, NoneNew, Gate
  <2>5. Unheard'
    BY <1>3 DEF SpeechEnds, Unheard
  <2>6. RecordingIsEnded'
    BY <1>3 DEF SpeechEnds, stopVadRec, RecordingIsEnded
  <2>7. QED
    BY <2>2, <2>3, <2>4, <2>5, <2>6 DEF CallInv
<1>4. CASE TickTranscribing
  <2>1. NoneNew
    BY <1>4 DEF TickTranscribing, NoneNew, underWay
  <2>2. Connection'
    BY <1>0, <1>4 DEF TickTranscribing, Connection
  <2>3. TurnsAreSerial'
    BY <1>0, <1>4, <2>1, StillSerial DEF TickTranscribing
  <2>4. Gate'
    BY <1>0, <1>4, <2>1 DEF TickTranscribing, NoneNew, Gate
  <2>5. Unheard'
    BY <1>0, <1>4 DEF TickTranscribing, Unheard
  <2>6. RecordingIsEnded'
    BY <1>0, <1>4 DEF TickTranscribing, Unheard, RecordingIsEnded
  <2>7. QED
    BY <2>2, <2>3, <2>4, <2>5, <2>6 DEF CallInv
<1>5. CASE BargeIn
  <2>1. NoneNew
    BY <1>5, RecordNoneNew DEF BargeIn
  <2>2. Connection'
    BY <1>0, <1>5 DEF BargeIn, Connection
  <2>3. TurnsAreSerial'
    BY <1>0, <1>5, <2>1, StillSerial DEF BargeIn
  <2>4. Gate'
    BY <1>0, <1>5, <2>1 DEF BargeIn, busy, NoneNew, Gate, Connection, TypeOK
  <2>5. Unheard'
    BY <1>5 DEF BargeIn, busy, Unheard
  <2>6. RecordingIsEnded'
    BY <1>0, <1>5 DEF BargeIn, startVadRec, RecordingIsEnded
  <2>7. QED
    BY <2>2, <2>3, <2>4, <2>5, <2>6 DEF CallInv
<1>6. CASE BlobRead
  <2>0. PICK u \in Utterances :
          /\ stage[u] = "recorded"
          /\ \/ /\ stage' = [stage EXCEPT ![u] = "over"]
                /\ UNCHANGED transcribing
             \/ /\ stage' = [stage EXCEPT ![u] = IF sock = "open" THEN "sent"
                                                 ELSE "over"]
                /\ transcribing' = TRUE
    BY <1>6 DEF BlobRead
  <2>1. /\ \A v \in Utterances : v # u => stage'[v] = stage[v]
        /\ ~ underWay(u)
        /\ stage'[u] \in {"sent", "over"}
        /\ stage'[u] = "sent" => sock = "open" /\ transcribing'
        /\ transcribing => transcribing'
        /\ recorder = "stopping" /\ recorder' = "off"
        /\ UNCHANGED <<sock, connected, vad, vadIsSpeaking, intruded, late>>
        /\ UNCHANGED greeting
    BY <1>6, <2>0 DEF BlobRead, underWay, TypeOK
  <2>2. Connection'
    BY <1>0, <2>1 DEF Connection, underWay
  <2>3. TurnsAreSerial'
    BY <1>0, <2>1 DEF Gate, TurnsAreSerial, underWay
  <2>4. Gate'
    BY <1>0, <2>1 DEF Gate, underWay
  <2>5. Unheard'
    BY <2>1 DEF Unheard
  <2>6. RecordingIsEnded'
    BY <2>1 DEF RecordingIsEnded
  <2>7. QED
    BY <2>2, <2>3, <2>4, <2>5, <2>6 DEF CallInv
<1>7. CASE MicDue
  BY <1>7, CalmCall DEF MicDue, Calm
<1>8. CASE Prompted
  <2>1. NoneNew
    BY <1>8 DEF Prompted, NoneNew, underWay
  <2>2. Connection'
    BY <1>0, <1>8, <2>1 DEF Prompted, NoneNew, Connection
  <2>3. TurnsAreSerial'
    BY <1>0, <1>8, <2>1, StillSerial DEF Prompted
  <2>4. Gate'
    BY <1>0, <1>8, <2>1 DEF Prompted, NoneNew, Gate
  <2>5. Unheard'
    BY <1>0, <1>8 DEF Prompted, Unheard
  <2>6. RecordingIsEnded'
    <3>1. UNCHANGED <<recorder, intruded>>
      BY <1>8 DEF Prompted
    <3>2. CASE vad' = TRUE /\ late' = (late \/ recorder = "on")
      BY <3>1, <3>2 DEF RecordingIsEnded
    <3>3. CASE UNCHANGED <<vad, vadIsSpeaking, late>>
      BY <1>0, <3>1, <3>3 DEF RecordingIsEnded
    <3>4. QED
      BY <1>8, <3>2, <3>3 DEF Prompted
  <2>7. QED
    BY <2>2, <2>3, <2>4, <2>5, <2>6 DEF CallInv
<1>9. CASE toggleMic
  <2>1. NoneNew
    BY <1>9 DEF toggleMic, NoneNew, underWay
  <2>2. Connection'
    BY <1>0, <1>9 DEF toggleMic, stopVadRec, Connection
  <2>3. TurnsAreSerial'
    BY <1>0, <1>9, <2>1, StillSerial DEF toggleMic
  <2>4. Gate'
    BY <1>0, <1>9, <2>1 DEF toggleMic, stopVadRec, NoneNew, Gate
  <2>5. Unheard'
    BY <1>0, <1>9 DEF toggleMic, stopVadRec, Unheard
  <2>6. RecordingIsEnded'
    BY <1>0, <1>9 DEF toggleMic, stopVadRec, RecordingIsEnded
  <2>7. QED
    BY <2>2, <2>3, <2>4, <2>5, <2>6 DEF CallInv
<1>10. CASE StartCall
  <2>1. NoneNew
    BY <1>10 DEF StartCall, NoneNew, underWay
  <2>2. Connection'
    BY <1>0, <1>10, <2>1 DEF StartCall, NoneNew, Connection
  <2>3. TurnsAreSerial'
    BY <1>0, <1>10, <2>1 DEF StartCall, NoneNew, TurnsAreSerial, Connection
  <2>4. Gate'
    BY <1>10 DEF StartCall, Gate
  <2>5. Unheard'
    BY <1>0, <1>10 DEF StartCall, Unheard, Connection
  <2>6. RecordingIsEnded'
    BY <1>0, <1>10 DEF StartCall, RecordingIsEnded, Connection
  <2>7. QED
    BY <2>2, <2>3, <2>4, <2>5, <2>6 DEF CallInv
<1>11. CASE Started
  <2>1. NoneNew
    BY <1>11 DEF Started, NoneNew, underWay
  <2>2. Connection'
    BY <1>0, <1>11, <2>1 DEF Started, NoneNew, Connection
  <2>3. TurnsAreSerial'
    BY <1>0, <1>11, <2>1, StillSerial DEF Started
  <2>4. Gate'
    BY <1>11 DEF Started, Gate
  <2>5. Unheard'
    BY <1>0, <1>11 DEF Started, Unheard
  <2>6. RecordingIsEnded'
    BY <1>0, <1>11 DEF Started, RecordingIsEnded
  <2>7. QED
    BY <2>2, <2>3, <2>4, <2>5, <2>6 DEF CallInv
<1>12. CASE Opened
  <2>1. NoneNew
    BY <1>12 DEF Opened, NoneNew, underWay
  <2>2. Connection'
    BY <1>0, <1>12 DEF Opened, Connection
  <2>3. TurnsAreSerial'
    BY <1>0, <1>12, <2>1, StillSerial DEF Opened
  <2>4. Gate'
    BY <1>0, <1>12, <2>1 DEF Opened, NoneNew, Gate, Connection, TypeOK
  <2>5. Unheard'
    BY <1>0, <1>12 DEF Opened, Unheard
  <2>6. RecordingIsEnded'
    BY <1>0, <1>12 DEF Opened, RecordingIsEnded
  <2>7. QED
    BY <2>2, <2>3, <2>4, <2>5, <2>6 DEF CallInv
<1>13. CASE Closed
  <2>1. NoneNew
    BY <1>13 DEF Closed, NoneNew, underWay
  <2>2. Connection'
    <3>1. \A u \in Utterances : ~ underWay(u)'
      BY <1>13 DEF Closed, underWay
    <3>2. connected' = FALSE /\ sock' = "none" /\ recorder' # "on"
      BY <1>13 DEF Closed, stopVadRec
    <3>3. QED
      BY <3>1, <3>2 DEF Connection
  <2>3. TurnsAreSerial'
    BY <1>0, <1>13, <2>1, StillSerial DEF Closed
  <2>4. Gate'
    BY <1>13 DEF Closed, Gate
  <2>5. Unheard'
    BY <1>13 DEF Closed, Unheard
  <2>6. RecordingIsEnded'
    BY <1>13 DEF Closed, stopVadRec, RecordingIsEnded
  <2>7. QED
    BY <2>2, <2>3, <2>4, <2>5, <2>6 DEF CallInv
<1>14. CASE endCall
  <2>1. NoneNew
    BY <1>14 DEF endCall, NoneNew, underWay
  <2>2. Connection'
    BY <1>0, <1>14 DEF endCall, stopVadRec, Connection
  <2>3. TurnsAreSerial'
    BY <1>0, <1>14, <2>1, StillSerial DEF endCall
  <2>4. Gate'
    BY <1>14 DEF endCall, Gate
  <2>5. Unheard'
    BY <1>14 DEF endCall, stopVadRec, Unheard
  <2>6. RecordingIsEnded'
    BY <1>14 DEF endCall, stopVadRec, RecordingIsEnded
  <2>7. QED
    BY <2>2, <2>3, <2>4, <2>5, <2>6 DEF CallInv
<1>15. CASE Greet
  <2>1. NoneNew
    BY <1>15 DEF Greet, NoneNew, underWay
  <2>2. Connection'
    BY <1>0, <1>15 DEF Greet, Connection
  <2>3. TurnsAreSerial'
    BY <1>0, <1>15, <2>1, StillSerial DEF Greet
  <2>4. Gate'
    BY <1>0, <1>15, <2>1 DEF Greet, NoneNew, Gate
  <2>5. Unheard'
    BY <1>0, <1>15 DEF Greet, Unheard
  <2>6. RecordingIsEnded'
    BY <1>0, <1>15 DEF Greet, RecordingIsEnded
  <2>7. QED
    BY <2>2, <2>3, <2>4, <2>5, <2>6 DEF CallInv
<1>16. CASE Greeted
  <2>1. NoneNew
    BY <1>16 DEF Greeted, NoneNew, underWay
  <2>2. Connection'
    BY <1>0, <1>16 DEF Greeted, Connection
  <2>3. TurnsAreSerial'
    BY <1>0, <1>16, <2>1, StillSerial DEF Greeted
  <2>4. Gate'
    BY <1>0, <1>16, <2>1 DEF Greeted, NoneNew, Gate
  <2>5. Unheard'
    BY <1>16 DEF Greeted, turnComplete, Unheard
  <2>6. RecordingIsEnded'
    BY <1>0, <1>16 DEF Greeted, RecordingIsEnded
  <2>7. QED
    BY <2>2, <2>3, <2>4, <2>5, <2>6 DEF CallInv
<1>17. CASE Quiet
  BY <1>17, CalmCall DEF Quiet, Calm
<1>18. ASSUME NEW u \in Utterances, Transcribing(u) PROVE CallInv'
  <2>1. /\ sock = "open" /\ underWay(u) /\ NoneNew
        /\ \A v \in Utterances : v # u => stage'[v] = stage[v]
        /\ UNCHANGED <<sock, connected, vad, vadIsSpeaking, recorder>>
        /\ UNCHANGED <<greeting, intruded, late>>
    BY <1>18, HearsFrame DEF Transcribing
  <2>2. Connection'
    BY <1>0, <2>1 DEF Connection
  <2>3. TurnsAreSerial'
    BY <1>0, <2>1, StillSerial
  <2>4. Gate'
    BY <1>0, <1>18, <2>1 DEF Transcribing, Gate
  <2>5. Unheard'
    BY <1>0, <2>1 DEF Gate, Unheard
  <2>6. RecordingIsEnded'
    BY <1>0, <2>1 DEF RecordingIsEnded
  <2>7. QED
    BY <2>2, <2>3, <2>4, <2>5, <2>6 DEF CallInv
<1>19. ASSUME NEW u \in Utterances, Ignore(u) PROVE CallInv'
  <2>1. /\ sock = "open" /\ underWay(u) /\ NoneNew
        /\ \A v \in Utterances : v # u => stage'[v] = stage[v]
        /\ UNCHANGED <<sock, connected, vad, vadIsSpeaking, recorder>>
        /\ UNCHANGED <<greeting, intruded, late>>
    BY <1>19, HearsFrame DEF Ignore
  <2>2. Connection'
    BY <1>0, <2>1 DEF Connection
  <2>3. TurnsAreSerial'
    BY <1>0, <2>1, StillSerial
  <2>4. Gate'
    BY <1>0, <1>19, <2>1 DEF Ignore, Gate
  <2>5. Unheard'
    BY <1>0, <1>19, <2>1 DEF Ignore, Unheard
  <2>6. RecordingIsEnded'
    BY <1>0, <2>1 DEF RecordingIsEnded
  <2>7. QED
    BY <2>2, <2>3, <2>4, <2>5, <2>6 DEF CallInv
<1>20. ASSUME NEW u \in Utterances, UserTranscript(u) PROVE CallInv'
  <2>1. /\ sock = "open" /\ underWay(u) /\ NoneNew
        /\ \A v \in Utterances : v # u => stage'[v] = stage[v]
        /\ UNCHANGED <<sock, connected, vad, vadIsSpeaking, recorder>>
        /\ UNCHANGED <<greeting, intruded, late>>
    BY <1>20, HearsFrame DEF UserTranscript
  <2>2. Connection'
    BY <1>0, <2>1 DEF Connection
  <2>3. TurnsAreSerial'
    BY <1>0, <2>1, StillSerial
  <2>4. Gate'
    BY <1>0, <1>20, <2>1 DEF UserTranscript, Gate
  <2>5. Unheard'
    BY <1>0, <1>20, <2>1 DEF UserTranscript, Unheard
  <2>6. RecordingIsEnded'
    BY <1>0, <2>1 DEF RecordingIsEnded
  <2>7. QED
    BY <2>2, <2>3, <2>4, <2>5, <2>6 DEF CallInv
<1>21. ASSUME NEW u \in Utterances, Complete(u) PROVE CallInv'
  <2>1. /\ sock = "open" /\ underWay(u) /\ NoneNew
        /\ \A v \in Utterances : v # u => stage'[v] = stage[v]
        /\ UNCHANGED <<sock, connected, vad, vadIsSpeaking, recorder>>
        /\ UNCHANGED <<greeting, intruded, late>>
    BY <1>21, HearsFrame DEF Complete
  <2>2. Connection'
    BY <1>0, <2>1 DEF Connection
  <2>3. TurnsAreSerial'
    BY <1>0, <2>1, StillSerial
  <2>4. Gate'
    <3>1. ~ underWay(u)'
      BY <1>21, HearsFrame DEF Complete
    <3>2. ~ intruded => \A v \in Utterances : ~ underWay(v)'
      BY <1>0, <2>1, <3>1 DEF TurnsAreSerial, NoneNew
    <3>3. QED
      BY <1>0, <2>1, <3>2 DEF Gate
  <2>5. Unheard'
    BY <1>21 DEF Complete, turnComplete, Unheard
  <2>6. RecordingIsEnded'
    BY <1>0, <2>1 DEF RecordingIsEnded
  <2>7. QED
    BY <2>2, <2>3, <2>4, <2>5, <2>6 DEF CallInv
<1>22. ASSUME NEW u \in Utterances, Speak(u) PROVE CallInv'
  <2>1. UNCHANGED stage
    BY <1>22 DEF Speak, hears, TypeOK
  <2>2. QED
    BY <1>22, <2>1, CalmCall DEF Speak, hears, Calm
<1>23. QED
  BY <1>1, <1>2, <1>3, <1>4, <1>5, <1>6, <1>7, <1>8, <1>9, <1>10, <1>11,
     <1>12, <1>13, <1>14, <1>15, <1>16, <1>17, <1>18, <1>19, <1>20, <1>21, <1>22
     DEF Next, Turn

LEMMA CallCorrect == Spec => [](TypeOK /\ CallInv)
<1>1. Init => TypeOK /\ CallInv
  BY InitType, InitCall
<1>2. TypeOK /\ CallInv /\ [Next]_vars => (TypeOK /\ CallInv)'
  BY StepType, StepCall
<1>3. QED
  BY <1>1, <1>2, PTL DEF Spec

\* Two utterances of a call are under way at once only if the caller spoke
\* into a turn or into the greeting.
THEOREM SerialUnlessIntruded == Spec => []TurnsAreSerial
<1>1. TypeOK /\ CallInv => TurnsAreSerial
  BY DEF CallInv
<1>2. QED
  BY <1>1, CallCorrect, PTL

\* A recorder is on only while the microphone is, and somebody listens for
\* the silence that ends the recording, but for the exceptions named.
THEOREM SomebodyEndsRecordings == Spec => []RecordingIsEnded
<1>1. TypeOK /\ CallInv => RecordingIsEnded
  BY DEF CallInv
<1>2. QED
  BY <1>1, CallCorrect, PTL
=============================================================================
