------------------------- MODULE WidgetCall_proofs --------------------------
(***************************************************************************)
(* Proofs about WidgetCall, for any set of calls and number of hang-ups.   *)
(***************************************************************************)
EXTENDS WidgetCall, TLAPS

USE WidgetAssumption

-----------------------------------------------------------------------------
(* Types *)

LEMMA HandleType ==
  ASSUME TypeOK, NEW c \in Calls, NEW m \in Messages, handle(c, m)
  PROVE  /\ known' \in [Calls -> Ids]
         /\ conv' \in [Calls -> {"none", "open", "ended"}]
         /\ unlucky' \subseteq Calls
         /\ ending' \in [Calls -> BOOLEAN]
<1>1. known[c] \in Ids /\ m.conv \in Ids
  <2>1. End.conv \in Ids /\ \A d \in Calls : Tell(d).conv \in Ids
    BY DEF End, Tell, Ids
  <2>2. m = End \/ \E d \in Calls : m = Tell(d)
    BY DEF Messages
  <2>3. QED
    BY <2>1, <2>2 DEF TypeOK
<1>2. CASE m.type = "video" /\ known' = [known EXCEPT ![c] = m.conv]
           /\ UNCHANGED <<conv, unlucky, ending>>
  BY <1>1, <1>2 DEF TypeOK
<1>3. CASE endConversation(known[c]) /\ UNCHANGED known
           /\ ending' = [ending EXCEPT ![c] = TRUE]
  BY <1>1, <1>3 DEF TypeOK, endConversation, Ids
<1>4. QED
  BY <1>2, <1>3 DEF handle

LEMMA StopMicType ==
  ASSUME TypeOK, stopMicCapture
  PROVE  live' \subseteq Calls /\ stream' \in live' \union {None}
BY DEF TypeOK, stopMicCapture

LEMMA LeaveRoomType ==
  ASSUME TypeOK, leaveVideoRoom
  PROVE  /\ rooms' \subseteq Calls /\ room' \in rooms' \union {None}
         /\ video' \in Ids
BY DEF TypeOK, leaveVideoRoom, Ids

LEMMA StagesType ==
  \A c \in Calls : ({c} \X stages(c)) \subseteq (Calls \X Stages)
BY DEF stages

\* What hanging up leaves, for EndCall and Destroy.
LEMMA HangUpType ==
  ASSUME TypeOK, endCall
  PROVE  /\ live' \subseteq Calls /\ stream' \in live' \union {None}
         /\ rooms' \subseteq Calls /\ room' \in rooms' \union {None}
         /\ video' \in Ids
         /\ hangups' \in 0 .. MaxHangups
         /\ wire' \in [Calls -> Seq(Messages)]
         /\ hung' \subseteq Calls /\ hurried' \subseteq Calls \X Stages
<1>1. hangups' \in 0 .. MaxHangups
  BY DEF endCall, TypeOK
<1>2. wire' \in [Calls -> Seq(Messages)]
  <2>1. End \in Messages
    BY DEF Messages
  <2>2. CASE wire' = [wire EXCEPT ![ws] = Append(@, End)] /\ ws \in Calls
    <3>1. Append(wire[ws], End) \in Seq(Messages)
      BY <2>1, <2>2 DEF TypeOK
    <3>2. QED
      BY <2>2, <3>1 DEF TypeOK
  <2>3. QED
    BY <2>2 DEF endCall, TypeOK, Ids
<1>3. hung' \subseteq Calls
  BY DEF endCall, TypeOK
<1>4. hurried' \subseteq Calls \X Stages
  BY StagesType DEF endCall, TypeOK
<1>5. QED
  BY <1>1, <1>2, <1>3, <1>4, StopMicType, LeaveRoomType DEF endCall

LEMMA InitType == Init => TypeOK
<1> SUFFICES ASSUME Init PROVE TypeOK
  OBVIOUS
<1>1. wire \in [Calls -> Seq(Messages)]
  BY DEF Init
<1>2. /\ pc \in [Calls -> {"idle", "session", "video", "made", "failed"}]
      /\ sock \in [Calls -> {"none", "connecting", "open", "closing", "closed"}]
      /\ gate \in [Calls -> {"none", "setup", "ready", "closed"}]
      /\ active \in [Calls -> BOOLEAN] /\ ending \in [Calls -> BOOLEAN]
  BY DEF Init
<1>3. /\ early \in [Calls -> SUBSET Messages]
      /\ known \in [Calls -> Ids]
      /\ conv \in [Calls -> {"none", "open", "ended"}]
  BY DEF Init, Ids
<1>4. /\ ws \in Ids /\ video \in Ids /\ isActive \in BOOLEAN
      /\ stream \in live \union {None} /\ room \in rooms \union {None}
      /\ hangups \in 0 .. MaxHangups
  <2>1. isActive \in BOOLEAN
    BY DEF Init
  <2>2. hangups \in 0 .. MaxHangups
    BY DEF Init
  <2>3. QED
    BY <2>1, <2>2 DEF Init, Ids
<1>5. /\ prompts \subseteq Calls /\ live \subseteq Calls
      /\ rooms \subseteq Calls /\ hung \subseteq Calls
      /\ crowded \subseteq Calls /\ unlucky \subseteq Calls
      /\ hurried \subseteq Calls \X Stages
  BY DEF Init
<1>6. QED
  BY <1>1, <1>2, <1>3, <1>4, <1>5 DEF TypeOK

LEMMA StepType == TypeOK /\ [Next]_vars => TypeOK'
<1> SUFFICES ASSUME TypeOK, [Next]_vars PROVE TypeOK'
  OBVIOUS
<1> USE DEF field, mic, seat, widget, gateway, past
<1>1. CASE UNCHANGED vars
  BY <1>1 DEF vars, TypeOK
<1>2. CASE EndCall
  BY <1>2, HangUpType DEF EndCall, endCall, TypeOK
<1>3. CASE Destroy
  BY <1>3, HangUpType DEF Destroy, endCall, TypeOK, Ids
<1>4. ASSUME NEW c \in Calls, Start(c) PROVE TypeOK'
  BY <1>4 DEF Start, TypeOK
<1>5. ASSUME NEW c \in Calls, SessionAnswer(c) PROVE TypeOK'
  <2>1. CASE connect(c) /\ UNCHANGED video
    BY <1>5, <2>1 DEF SessionAnswer, connect, TypeOK, Ids
  <2>2. CASE /\ \E step \in {"video", "failed"} : pc' = [pc EXCEPT ![c] = step]
             /\ UNCHANGED <<sock, field>>
    BY <1>5, <2>2 DEF SessionAnswer, TypeOK
  <2>3. QED
    BY <1>5, <2>1, <2>2 DEF SessionAnswer
<1>6. ASSUME NEW c \in Calls, VideoAnswer(c) PROVE TypeOK'
  BY <1>6 DEF VideoAnswer, connect, TypeOK, Ids
<1>7. ASSUME NEW c \in Calls, Opened(c) PROVE TypeOK'
  <2>1. wire' \in [Calls -> Seq(Messages)]
    <3>1. CASE UNCHANGED wire
      BY <3>1 DEF TypeOK
    <3>2. CASE /\ video # None /\ ws # None
               /\ wire' = [wire EXCEPT ![ws] = Append(@, Tell(video))]
      <4>1. ws \in Calls /\ Tell(video) \in Messages
        BY <3>2 DEF TypeOK, Ids, Messages
      <4>2. Append(wire[ws], Tell(video)) \in Seq(Messages)
        BY <4>1 DEF TypeOK
      <4>3. QED
        BY <3>2, <4>1, <4>2 DEF TypeOK
    <3>3. QED
      BY <1>7, <3>1, <3>2 DEF Opened
  <2>2. rooms' \subseteq Calls /\ room' \in rooms' \union {None}
    BY <1>7 DEF Opened, joinVideoRoom, TypeOK
  <2>3. /\ gate' \in [Calls -> {"none", "setup", "ready", "closed"}]
        /\ active' \in [Calls -> BOOLEAN] /\ unlucky' \subseteq Calls
    BY <1>7 DEF Opened, TypeOK
  <2>4. QED
    BY <1>7, <2>1, <2>2, <2>3 DEF Opened, TypeOK
<1>8. ASSUME NEW c \in Calls, Prompted(c) PROVE TypeOK'
  BY <1>8 DEF Prompted, TypeOK
<1>9. ASSUME NEW c \in Calls, Closed(c) PROVE TypeOK'
  <2>1. hurried' \subseteq Calls \X Stages
    BY <1>9, StagesType DEF Closed, TypeOK
  <2>2. wire' \in [Calls -> Seq(Messages)] /\ unlucky' \subseteq Calls
    <3>1. <<>> \in Seq(Messages)
      OBVIOUS
    <3>2. wire' = [wire EXCEPT ![c] = <<>>] \/ wire' = wire
      BY <1>9 DEF Closed
    <3>3. unlucky' = unlucky \union {c} \/ unlucky' = unlucky
      BY <1>9 DEF Closed
    <3>4. wire' \in [Calls -> Seq(Messages)]
      <4>1. wire \in [Calls -> Seq(Messages)]
        BY DEF TypeOK
      <4>2. \A e \in Seq(Messages) :
              [wire EXCEPT ![c] = e] \in [Calls -> Seq(Messages)]
        BY <4>1
      <4>3. QED
        BY <3>1, <3>2, <4>1, <4>2
    <3>5. unlucky' \subseteq Calls
      BY <3>3 DEF TypeOK
    <3>6. QED
      BY <3>4, <3>5
  <2>3. QED
    BY <1>9, <2>1, <2>2, StopMicType, LeaveRoomType DEF Closed, TypeOK
<1>10. ASSUME NEW c \in Calls, Receive(c) PROVE TypeOK'
  <2>1. wire[c] \in Seq(Messages) /\ wire[c] # <<>>
    BY <1>10 DEF Receive, TypeOK
  <2>2. Head(wire[c]) \in Messages /\ Tail(wire[c]) \in Seq(Messages)
    BY <2>1
  <2>3. wire' \in [Calls -> Seq(Messages)]
    BY <1>10, <2>2 DEF Receive, TypeOK
  <2>4. CASE handle(c, Head(wire[c])) /\ UNCHANGED early
    BY <1>10, <2>2, <2>3, <2>4, HandleType DEF Receive, TypeOK
  <2>5. CASE /\ UNCHANGED <<conv, unlucky, ending, known>>
             /\ \/ UNCHANGED early
                \/ early' = [early EXCEPT ![c] = @ \union {Head(wire[c])}]
    <3>1. early' \in [Calls -> SUBSET Messages]
      <4>1. early \in [Calls -> SUBSET Messages]
        BY DEF TypeOK
      <4>2. CASE UNCHANGED early
        BY <4>1, <4>2
      <4>3. CASE early' = [early EXCEPT ![c] = @ \union {Head(wire[c])}]
        BY <2>2, <4>1, <4>3
      <4>4. QED
        BY <2>5, <4>2, <4>3
    <3>2. UNCHANGED <<widget, gate, active, hurried>>
      BY <1>10 DEF Receive
    <3>3. QED
      BY <2>3, <2>5, <3>1, <3>2 DEF TypeOK
  <2>6. gate[c] \in {"setup", "ready"} /\ active[c] \in BOOLEAN
    BY <1>10 DEF Receive, TypeOK
  <2>7. QED
    BY <1>10, <2>4, <2>5, <2>6 DEF Receive
<1>11. ASSUME NEW c \in Calls, SetupDone(c) PROVE TypeOK'
  BY <1>11 DEF SetupDone, TypeOK
<1>12. ASSUME NEW c \in Calls, Proceed(c) PROVE TypeOK'
  <2>1. PICK m \in early[c] :
          /\ early' = [early EXCEPT ![c] = @ \ {m}]
          /\ IF active[c] THEN handle(c, m)
             ELSE UNCHANGED <<conv, unlucky, ending, known>>
    BY <1>12 DEF Proceed
  <2>2. m \in Messages /\ early' \in [Calls -> SUBSET Messages]
    BY <2>1 DEF TypeOK
  <2>3. CASE handle(c, m)
    BY <1>12, <2>2, <2>3, HandleType DEF Proceed, TypeOK
  <2>4. CASE UNCHANGED <<conv, unlucky, ending, known>>
    BY <1>12, <2>2, <2>4 DEF Proceed, TypeOK
  <2>5. QED
    BY <2>1, <2>3, <2>4
<1>13. ASSUME NEW c \in Calls, Hangup(c) PROVE TypeOK'
  <2>1. /\ conv' \in [Calls -> {"none", "open", "ended"}]
        /\ unlucky' \subseteq Calls
    BY <1>13 DEF Hangup, endConversation, TypeOK, Ids
  <2>2. QED
    BY <1>13, <2>1 DEF Hangup, TypeOK
<1>14. ASSUME NEW c \in Calls, Ended(c) PROVE TypeOK'
  BY <1>14 DEF Ended, TypeOK
<1>15. QED
  BY <1>1, <1>2, <1>3, <1>4, <1>5, <1>6, <1>7, <1>8, <1>9, <1>10, <1>11,
     <1>12, <1>13, <1>14 DEF Next

\* Every variable keeps its type; the widget's stream is always one that has
\* not been stopped, its room one it has not left.
THEOREM TypeCorrect == Spec => []TypeOK
BY InitType, StepType, PTL DEF Spec

-----------------------------------------------------------------------------
(* What stays on after a call *)

\* The call is open and was not hung up.
Busy(c) == sock[c] = "open" /\ c \notin hung

\* Calls that are around together have met.
Crowds == \A c, d \in Calls : around(c) /\ around(d) /\ c # d => c \in crowded

\* A call can be hung up only once it has opened.
HungOpened == \A c \in hung : sock[c] \in {"open", "closing", "closed"}

\* A prompt outlives its call only if the history says so.
Asked == \A c \in prompts :
           \/ Busy(c) \/ <<c, "asking">> \in hurried \/ c \in crowded

\* A microphone or a room of an open call that met no other is the widget's
\* own, so that hanging up finds it.
MicHeld == \A c \in live :
             \/ Busy(c) /\ stream = c
             \/ <<c, "asking">> \in hurried \/ c \in crowded
RoomHeld == \A c \in rooms : (Busy(c) /\ room = c) \/ c \in crowded

\* A widget that says it is in a call has a socket.
ActiveOpen ==
  isActive => \E c \in Calls : sock[c] \in {"connecting", "open", "closing"}

\* A call gets its socket at the end of its fetches.
NotYet == \A c \in Calls : pc[c] # "made" => sock[c] = "none"

QuietInv == /\ Crowds /\ HungOpened /\ Asked /\ MicHeld /\ RoomHeld
            /\ ActiveOpen /\ NotYet

LEMMA QuietEnough == TypeOK /\ QuietInv => QuietAfterCall
BY DEF TypeOK, QuietInv, ActiveOpen, MicHeld, RoomHeld, Busy, QuietAfterCall

LEMMA BusyAround == \A c \in Calls : Busy(c) => around(c)
BY DEF Busy, around

\* Steps that start no call, open no prompt and leave the sockets alone,
\* with everything that may be on.
LEMMA StillQuiet ==
  ASSUME TypeOK, QuietInv,
         UNCHANGED <<sock, prompts, live, stream, rooms, room, hung, crowded>>,
         hurried \subseteq hurried', isActive' => isActive,
         \A c \in Calls : /\ pc'[c] \in {"session", "video"} =>
                               pc[c] \in {"session", "video"}
                          /\ pc[c] = "made" => pc'[c] = "made"
  PROVE  QuietInv'
<1>1. \A c \in Calls : around(c)' => around(c)
  BY DEF around
<1>2. Crowds'
  BY <1>1 DEF QuietInv, Crowds
<1>3. HungOpened' /\ Asked' /\ MicHeld' /\ RoomHeld'
  BY DEF QuietInv, HungOpened, Asked, MicHeld, RoomHeld, Busy
<1>4. ActiveOpen' /\ NotYet'
  BY DEF QuietInv, ActiveOpen, NotYet
<1>5. QED
  BY <1>2, <1>3, <1>4 DEF QuietInv

\* A socket is made for a call that was in its fetches.
LEMMA ConnectQuiet ==
  ASSUME TypeOK, QuietInv, NEW c \in Calls,
         pc[c] \in {"session", "video"}, connect(c),
         UNCHANGED <<prompts, live, stream, rooms, room, hung, crowded>>,
         hurried' = hurried
  PROVE  QuietInv'
<1>0. sock[c] = "none"
  BY DEF QuietInv, NotYet
<1>1. /\ sock' = [sock EXCEPT ![c] = "connecting"]
      /\ pc' = [pc EXCEPT ![c] = "made"]
  BY DEF connect
<1>2. \A d \in Calls : around(d)' => around(d)
  BY <1>0, <1>1 DEF around, TypeOK
<1>3. Crowds'
  BY <1>2 DEF QuietInv, Crowds
<1>4. HungOpened'
  BY <1>0, <1>1 DEF QuietInv, HungOpened, TypeOK
<1>5. \A d \in Calls : Busy(d) => Busy(d)'
  BY <1>0, <1>1 DEF Busy, TypeOK
<1>6. Asked' /\ MicHeld' /\ RoomHeld'
  BY <1>5 DEF QuietInv, Asked, MicHeld, RoomHeld, TypeOK
<1>7. ActiveOpen'
  <2>1. sock'[c] = "connecting"
    BY <1>1 DEF TypeOK
  <2>2. QED
    BY <2>1 DEF ActiveOpen
<1>8. NotYet'
  BY <1>1 DEF QuietInv, NotYet, TypeOK
<1>9. QED
  BY <1>3, <1>4, <1>6, <1>7, <1>8 DEF QuietInv

\* Hanging up: what the widget holds goes off, every prompt is noted.
LEMMA HangUpQuiet ==
  ASSUME TypeOK, QuietInv, endCall,
         UNCHANGED <<pc, isActive, prompts, crowded>>,
         \/ sock' = sock
         \/ /\ ws \in Calls /\ sock[ws] \in {"connecting", "open"}
            /\ sock' = [sock EXCEPT ![ws] = "closing"]
  PROVE  QuietInv'
<1> DEFINE Note == UNION {{c} \X stages(c) : c \in {d \in Calls : around(d)}}
<1>1. /\ live' = live \ {stream} /\ stream' = None
      /\ rooms' = rooms \ {room} /\ room' = None
      /\ hung' = hung \union {c \in Calls : sock[c] = "open"}
      /\ hurried' = hurried \union Note
  BY DEF endCall, stopMicCapture, leaveVideoRoom
<1>2. \A c \in prompts : <<c, "asking">> \in hurried'
  <2> SUFFICES ASSUME NEW c \in prompts PROVE <<c, "asking">> \in hurried'
    OBVIOUS
  <2>1. c \in Calls /\ around(c)
    BY DEF TypeOK, around
  <2>2. "asking" \in stages(c)
    BY DEF stages, Stages
  <2>3. <<c, "asking">> \in {c} \X stages(c)
    BY <2>2
  <2>4. {c} \X stages(c)
          \in {{d} \X stages(d) : d \in {e \in Calls : around(e)}}
    BY <2>1
  <2>5. <<c, "asking">> \in Note
    BY <2>3, <2>4
  <2>6. QED
    BY <1>1, <2>5
<1>3. \A c \in Calls : around(c)' => around(c)
  BY DEF around, TypeOK
<1>4. Crowds'
  BY <1>3 DEF QuietInv, Crowds
<1>5. HungOpened'
  BY <1>1 DEF QuietInv, HungOpened, TypeOK
<1>6. Asked'
  BY <1>2 DEF Asked
<1>7. MicHeld' /\ RoomHeld'
  BY <1>1 DEF QuietInv, MicHeld, RoomHeld, TypeOK
<1>8. ActiveOpen' /\ NotYet'
  <2>1. ActiveOpen'
    BY DEF QuietInv, ActiveOpen, TypeOK
  <2>2. NotYet'
    BY DEF QuietInv, NotYet, TypeOK
  <2>3. QED
    BY <2>1, <2>2
<1>9. QED
  BY <1>4, <1>5, <1>6, <1>7, <1>8 DEF QuietInv

LEMMA OpenedQuiet ==
  ASSUME TypeOK, QuietInv, NEW c \in Calls, Opened(c)
  PROVE  QuietInv'
<1>1. /\ sock[c] = "connecting" /\ sock' = [sock EXCEPT ![c] = "open"]
      /\ prompts' = prompts \union {c}
      /\ UNCHANGED <<pc, isActive, live, stream, hung, crowded, hurried>>
  BY DEF Opened, field, mic
<1>2. \/ rooms' = rooms /\ room' = room
      \/ rooms' = rooms \union {c} /\ room' = c
  BY DEF Opened, joinVideoRoom, seat
<1>3. around(c) /\ \A d \in Calls : around(d)' => around(d)
  BY <1>1 DEF around, TypeOK
<1>4. Busy(c)' /\ \A d \in Calls : Busy(d) => Busy(d)'
  BY <1>1 DEF QuietInv, HungOpened, Busy, TypeOK
<1>5. Crowds'
  BY <1>1, <1>3 DEF QuietInv, Crowds
<1>6. HungOpened'
  BY <1>1 DEF QuietInv, HungOpened, TypeOK
<1>7. Asked'
  BY <1>1, <1>4 DEF QuietInv, Asked, TypeOK
<1>8. MicHeld'
  BY <1>1, <1>4 DEF QuietInv, MicHeld, TypeOK
<1>9. RoomHeld'
  <2> SUFFICES ASSUME NEW d \in rooms'
                PROVE  (Busy(d) /\ room = d)' \/ d \in crowded'
    BY DEF RoomHeld
  <2>1. CASE d = c
    <3>1. CASE rooms' = rooms /\ room' = room
      BY <1>1, <1>4, <2>1, <3>1 DEF QuietInv, RoomHeld
    <3>2. CASE room' = c
      BY <1>4, <2>1, <3>2
    <3>3. QED
      BY <1>2, <3>1, <3>2
  <2>2. CASE d # c
    <3>1. d \in rooms /\ d \in Calls
      BY <1>2, <2>2 DEF TypeOK
    <3>2. d \in crowded \/ (Busy(d) /\ room = d)
      BY <3>1 DEF QuietInv, RoomHeld
    <3>3. Busy(d) => d \in crowded
      BY <1>3, <2>2, <3>1, BusyAround DEF QuietInv, Crowds
    <3>4. QED
      BY <1>1, <3>2, <3>3
  <2>3. QED
    BY <2>1, <2>2
<1>10. ActiveOpen'
  BY <1>1 DEF QuietInv, ActiveOpen, TypeOK
<1>11. NotYet'
  BY <1>1 DEF QuietInv, NotYet, TypeOK
<1>12. QED
  BY <1>5, <1>6, <1>7, <1>8, <1>9, <1>10, <1>11 DEF QuietInv

LEMMA PromptedQuiet ==
  ASSUME TypeOK, QuietInv, NEW c \in Calls, Prompted(c)
  PROVE  QuietInv'
<1>1. /\ c \in prompts /\ prompts' = prompts \ {c}
      /\ UNCHANGED <<pc, sock, isActive, rooms, room, hung, crowded, hurried>>
      /\ \/ live' = live \union {c} /\ stream' = c
         \/ live' = live /\ stream' = stream
  BY DEF Prompted, field, mic, seat, past
<1>2. around(c) /\ \A d \in Calls : around(d)' => around(d)
  BY <1>1 DEF around
<1>3. \A d \in Calls : Busy(d)' <=> Busy(d)
  BY <1>1 DEF Busy
<1>4. Crowds' /\ HungOpened' /\ Asked'
  BY <1>1, <1>2, <1>3 DEF QuietInv, Crowds, HungOpened, Asked, TypeOK
<1>5. RoomHeld' /\ NotYet' /\ ActiveOpen'
  BY <1>1, <1>3 DEF QuietInv, RoomHeld, NotYet, ActiveOpen, TypeOK
<1>6. MicHeld'
  <2>1. CASE live' = live /\ stream' = stream
    BY <1>1, <1>3, <2>1 DEF QuietInv, MicHeld, TypeOK
  <2>2. CASE live' = live \union {c} /\ stream' = c
    <3> SUFFICES ASSUME NEW d \in live'
                 PROVE  \/ (Busy(d) /\ stream = d)'
                        \/ <<d, "asking">> \in hurried' \/ d \in crowded'
      BY DEF MicHeld
    <3>1. CASE d = c
      BY <1>1, <1>3, <2>2, <3>1 DEF QuietInv, Asked, TypeOK
    <3>2. CASE d # c
      <4>1. d \in live /\ d \in Calls
        BY <2>2, <3>2 DEF TypeOK
      <4>2. Busy(d) => d \in crowded
        BY <1>2, <3>2, <4>1, BusyAround DEF QuietInv, Crowds
      <4>3. QED
        BY <1>1, <4>1, <4>2 DEF QuietInv, MicHeld
    <3>3. QED
      BY <3>1, <3>2
  <2>3. QED
    BY <1>1, <2>1, <2>2
<1>7. QED
  BY <1>4, <1>5, <1>6 DEF QuietInv

LEMMA ClosedQuiet ==
  ASSUME TypeOK, QuietInv, NEW c \in Calls, Closed(c)
  PROVE  QuietInv'
<1>1. /\ sock[c] \in {"connecting", "open", "closing"}
      /\ sock' = [sock EXCEPT ![c] = "closed"]
      /\ hurried' = hurried \union ({c} \X stages(c)) /\ isActive' = FALSE
      /\ live' = live \ {stream} /\ stream' = None
      /\ rooms' = rooms \ {room} /\ room' = None
      /\ UNCHANGED <<pc, prompts, hung, crowded>>
  BY DEF Closed, stopMicCapture, leaveVideoRoom
<1>2. \A d \in Calls : around(d)' => around(d)
  BY <1>1 DEF around, TypeOK
<1>3. \A d \in Calls : d # c /\ Busy(d) => Busy(d)'
  BY <1>1 DEF Busy, TypeOK
<1>4. c \in prompts => <<c, "asking">> \in hurried'
  <2> HAVE c \in prompts
  <2>1. "asking" \in stages(c)
    BY DEF stages, Stages
  <2>2. <<c, "asking">> \in {c} \X stages(c)
    BY <2>1
  <2>3. QED
    BY <1>1, <2>2
<1>5. Crowds'
  BY <1>1, <1>2 DEF QuietInv, Crowds
<1>6. HungOpened'
  BY <1>1 DEF QuietInv, HungOpened, TypeOK
<1>7. Asked'
  BY <1>1, <1>3, <1>4 DEF QuietInv, Asked, TypeOK
<1>8. MicHeld' /\ RoomHeld'
  BY <1>1 DEF QuietInv, MicHeld, RoomHeld, TypeOK
<1>9. ActiveOpen' /\ NotYet'
  <2>1. ActiveOpen'
    BY <1>1 DEF ActiveOpen
  <2>2. NotYet'
    BY <1>1 DEF QuietInv, NotYet, TypeOK
  <2>3. QED
    BY <2>1, <2>2
<1>10. QED
  BY <1>5, <1>6, <1>7, <1>8, <1>9 DEF QuietInv

LEMMA InitQuiet == Init => QuietInv
<1> SUFFICES ASSUME Init PROVE QuietInv
  OBVIOUS
<1>1. \A c \in Calls : ~ around(c)
  BY DEF Init, around
<1>2. QED
  BY <1>1 DEF Init, QuietInv, Crowds, HungOpened, Asked, MicHeld, RoomHeld,
              ActiveOpen, NotYet

LEMMA StepQuiet == TypeOK /\ QuietInv /\ [Next]_vars => QuietInv'
<1> SUFFICES ASSUME TypeOK, QuietInv, [Next]_vars PROVE QuietInv'
  OBVIOUS
<1> USE DEF field, mic, seat, widget, past
<1>1. CASE UNCHANGED vars
  BY <1>1, StillQuiet DEF vars
<1>2. CASE EndCall
  BY <1>2, HangUpQuiet DEF EndCall
<1>3. CASE Destroy
  BY <1>3, HangUpQuiet DEF Destroy, TypeOK, Ids
<1>4. ASSUME NEW c \in Calls, Start(c) PROVE QuietInv'
  <2>1. /\ pc[c] = "idle" /\ pc' = [pc EXCEPT ![c] = "session"]
        /\ UNCHANGED <<sock, isActive, prompts, live, stream, rooms, room>>
        /\ UNCHANGED <<hung, hurried>> /\ crowded \subseteq crowded'
    BY <1>4 DEF Start
  <2>2. \A d, e \in Calls : around(d)' /\ around(e)' /\ d # e => d \in crowded'
    <3> SUFFICES ASSUME NEW d \in Calls, NEW e \in Calls,
                        around(d)', around(e)', d # e
                 PROVE  d \in crowded'
      OBVIOUS
    <3>1. \A f \in Calls : f # c /\ around(f)' => around(f)
      BY <2>1 DEF around, TypeOK
    <3>2. CASE d # c /\ e # c
      BY <2>1, <3>1, <3>2 DEF QuietInv, Crowds
    <3>3. CASE d = c \/ e = c
      <4> DEFINE others == {f \in Calls : around(f)}
      <4>1. others # {} /\ d \in others \union {c}
        BY <3>1, <3>3
      <4>2. crowded' = crowded \union others \union {c}
        BY <1>4, <4>1 DEF Start
      <4>3. QED
        BY <4>1, <4>2
    <3>4. QED
      BY <3>2, <3>3
  <2>3. Crowds'
    BY <2>2 DEF Crowds
  <2>4. HungOpened' /\ Asked' /\ MicHeld' /\ RoomHeld'
    BY <2>1 DEF QuietInv, HungOpened, Asked, MicHeld, RoomHeld, Busy
  <2>5. ActiveOpen' /\ NotYet'
    BY <2>1 DEF QuietInv, ActiveOpen, NotYet, TypeOK
  <2>6. QED
    BY <2>3, <2>4, <2>5 DEF QuietInv
<1>5. ASSUME NEW c \in Calls, SessionAnswer(c) PROVE QuietInv'
  <2>1. pc[c] = "session"
    BY <1>5 DEF SessionAnswer
  <2>2. CASE connect(c)
    BY <1>5, <2>1, <2>2, ConnectQuiet DEF SessionAnswer
  <2>3. CASE /\ \E step \in {"video", "failed"} : pc' = [pc EXCEPT ![c] = step]
             /\ UNCHANGED <<sock, field>>
    <3>1. \A d \in Calls : /\ pc'[d] \in {"session", "video"} =>
                                pc[d] \in {"session", "video"}
                           /\ pc[d] = "made" => pc'[d] = "made"
      BY <2>1, <2>3 DEF TypeOK
    <3>2. QED
      BY <1>5, <2>3, <3>1, StillQuiet DEF SessionAnswer
  <2>4. QED
    BY <1>5, <2>2, <2>3 DEF SessionAnswer
<1>6. ASSUME NEW c \in Calls, VideoAnswer(c) PROVE QuietInv'
  BY <1>6, ConnectQuiet DEF VideoAnswer
<1>7. ASSUME NEW c \in Calls, Opened(c) PROVE QuietInv'
  BY <1>7, OpenedQuiet
<1>8. ASSUME NEW c \in Calls, Prompted(c) PROVE QuietInv'
  BY <1>8, PromptedQuiet
<1>9. ASSUME NEW c \in Calls, Closed(c) PROVE QuietInv'
  BY <1>9, ClosedQuiet
<1>10. ASSUME NEW c \in Calls, Receive(c) \/ Proceed(c) PROVE QuietInv'
  <2>1. UNCHANGED widget /\ UNCHANGED hurried
    BY <1>10 DEF Receive, Proceed
  <2>2. QED
    BY <2>1, StillQuiet
<1>11. ASSUME NEW c \in Calls, SetupDone(c) \/ Hangup(c) PROVE QuietInv'
  BY <1>11, StillQuiet DEF SetupDone, Hangup
<1>12. ASSUME NEW c \in Calls, Ended(c) PROVE QuietInv'
  BY <1>12, StillQuiet DEF Ended
<1>13. QED
  BY <1>1, <1>2, <1>3, <1>4, <1>5, <1>6, <1>7, <1>8, <1>9, <1>10, <1>11,
     <1>12 DEF Next

\* After a call that met no other and was not hung up while the browser was
\* still asking, its microphone and its room are off.
THEOREM MicAndRoomGoOff == Spec => []QuietAfterCall
<1>1. Init => TypeOK /\ QuietInv
  BY InitType, InitQuiet
<1>2. TypeOK /\ QuietInv /\ [Next]_vars => (TypeOK /\ QuietInv)'
  BY StepType, StepQuiet
<1>3. TypeOK /\ QuietInv => QuietAfterCall
  BY QuietEnough
<1>4. QED
  BY <1>1, <1>2, <1>3, PTL DEF Spec
-----------------------------------------------------------------------------
(* The conversation of a call *)

\* The conversation is open and nothing excuses leaving it so.
Owed(c) == conv[c] = "open" /\ ~ (\/ c \in unlucky \/ c \in crowded
                                  \/ <<c, "starting">> \in hurried
                                  \/ <<c, "setup">> \in hurried)

\* Only end messages are left.
AllEnd(s) == \A i \in 1 .. Len(s) : s[i] = End

\* The way of an owed conversation from the widget to the gateway's
\* videoConversation: the widget has it, the gateway's setup holds it up, the
\* message waits although the setup is done, it comes, it is known.
Unopened(c) == sock[c] = "connecting" /\ video = c /\ ws = c
HeldUp(c) == /\ sock[c] = "open" /\ gate[c] = "setup"
             /\ \/ wire[c] = <<Tell(c)>> /\ early[c] = {}
                \/ wire[c] = <<>> /\ early[c] = {Tell(c)}
Late(c) == /\ sock[c] = "open" /\ gate[c] = "ready"
           /\ wire[c] = <<>> /\ early[c] = {Tell(c)}
Coming(c) == /\ sock[c] \in {"open", "closing", "closed"}
             /\ gate[c] = "ready" /\ early[c] = {}
             /\ wire[c] # <<>> /\ Head(wire[c]) = Tell(c)
             /\ AllEnd(Tail(wire[c]))
Known(c) == /\ sock[c] \in {"open", "closing", "closed"}
            /\ gate[c] = "ready" /\ early[c] = {}
            /\ known[c] = c /\ AllEnd(wire[c])

Stage(c) ==
  \/ Unopened(c)
  \/ active[c] /\ ~ ending[c] /\ (HeldUp(c) \/ Late(c) \/ Coming(c) \/ Known(c))

\* The gateway knows nothing of a socket that has not opened.
Fresh == \A c \in Calls : sock[c] \in {"none", "connecting"} =>
           /\ wire[c] = <<>> /\ gate[c] = "none" /\ early[c] = {}
           /\ known[c] = None /\ ~ ending[c]

ConvInv == Fresh /\ \A c \in Calls : Owed(c) => Stage(c)

LEMMA ConvEnough == ConvInv => NoConversationLeft
BY DEF ConvInv, NoConversationLeft, Owed, Stage, over, Unopened, HeldUp, Late,
       Coming, Known

LEMMA AppendEnd ==
  ASSUME NEW s \in Seq(Messages), AllEnd(s)
  PROVE  AllEnd(Append(s, End))
<1>1. Len(Append(s, End)) = Len(s) + 1 /\ Len(s) \in Nat
  OBVIOUS
<1>2. ASSUME NEW i \in 1 .. Len(Append(s, End))
      PROVE  Append(s, End)[i] = End
  <2>1. CASE i \in 1 .. Len(s)
    BY <2>1 DEF AllEnd
  <2>2. CASE i = Len(s) + 1
    BY <2>2
  <2>3. QED
    BY <1>1, <2>1, <2>2
<1>3. QED
  BY <1>2 DEF AllEnd

LEMMA AppendKeeps ==
  ASSUME NEW s \in Seq(Messages), s # <<>>, NEW m \in Messages
  PROVE  /\ Append(s, m) # <<>> /\ Head(Append(s, m)) = Head(s)
         /\ Tail(Append(s, m)) = Append(Tail(s), m)
<1>1. Append(s, m) # <<>> /\ Head(Append(s, m)) = Head(s)
  OBVIOUS
<1>2. Tail(Append(s, m)) = Append(Tail(s), m)
  OBVIOUS
<1>3. QED
  BY <1>1, <1>2

LEMMA Handles ==
  ASSUME NEW c \in Calls
  PROVE  /\ \A k : handle(c, Tell(k)) =>
              /\ known' = [known EXCEPT ![c] = k]
              /\ UNCHANGED <<conv, unlucky, ending>>
         /\ handle(c, End) => endConversation(known[c])
BY DEF handle, Tell, End

\* A step that leaves what is seen of call c alone leaves its stage alone.
LEMMA StageKept ==
  ASSUME NEW c \in Calls, Stage(c),
         sock'[c] = sock[c], gate'[c] = gate[c], early'[c] = early[c],
         known'[c] = known[c], wire'[c] = wire[c], active'[c] = active[c],
         ending'[c] = ending[c],
         sock[c] = "connecting" => video' = video /\ ws' = ws
  PROVE  Stage(c)'
BY DEF Stage, Unopened, HeldUp, Late, Coming, Known, AllEnd

\* Ending a conversation makes none owed.
LEMMA EndsOwed ==
  ASSUME TypeOK, NEW k \in Ids, endConversation(k), NEW c \in Calls,
         crowded' = crowded, hurried \subseteq hurried', Owed(c)'
  PROVE  Owed(c) /\ c # k
BY DEF TypeOK, endConversation, Owed

LEMMA HandleOwed ==
  ASSUME TypeOK, NEW d \in Calls, NEW m \in Messages, handle(d, m),
         NEW c \in Calls,
         crowded' = crowded, hurried' = hurried, Owed(c)'
  PROVE  /\ Owed(c)
         /\ c # d => known'[c] = known[c] /\ ending'[c] = ending[c]
<1>1. CASE /\ known' = [known EXCEPT ![d] = m.conv]
           /\ UNCHANGED <<conv, unlucky, ending>>
  BY <1>1 DEF Owed, TypeOK
<1>2. CASE /\ endConversation(known[d])
           /\ ending' = [ending EXCEPT ![d] = TRUE]
           /\ UNCHANGED known
  <2>1. known[d] \in Ids
    BY DEF TypeOK
  <2>2. Owed(c)
    BY <1>2, <2>1, EndsOwed
  <2>3. QED
    BY <1>2, <2>2 DEF TypeOK
<1>3. QED
  BY <1>1, <1>2 DEF handle

\* A call that met no other is alone.
LEMMA Alone ==
  ASSUME QuietInv, NEW c \in Calls, Owed(c),
         sock[c] \in {"connecting", "open", "closing"},
         NEW d \in Calls, around(d)
  PROVE  d = c
BY DEF QuietInv, Crowds, Owed, around

\* A step that leaves fresh calls alone and makes none.
LEMMA FreshKept ==
  ASSUME Fresh,
         \A c \in Calls : sock'[c] \in {"none", "connecting"} =>
           /\ sock[c] \in {"none", "connecting"}
           /\ wire'[c] = wire[c] /\ gate'[c] = gate[c]
           /\ early'[c] = early[c] /\ known'[c] = known[c]
           /\ ending'[c] = ending[c]
  PROVE  Fresh'
BY DEF Fresh

LEMMA StepFresh == TypeOK /\ QuietInv /\ Fresh /\ [Next]_vars => Fresh'
<1> SUFFICES ASSUME TypeOK, QuietInv, Fresh, [Next]_vars PROVE Fresh'
  OBVIOUS
<1> USE DEF field, widget, gateway
<1>1. CASE UNCHANGED vars
  BY <1>1, FreshKept DEF vars
<1>2. CASE EndCall \/ Destroy
  <2>1. /\ UNCHANGED <<gate, early, known, ending>>
        /\ \A c \in Calls : sock'[c] \in {"none", "connecting"} =>
             sock[c] \in {"none", "connecting"}
    BY <1>2 DEF EndCall, Destroy, TypeOK
  <2>2. \A c \in Calls : sock[c] \in {"none", "connecting"} =>
          wire'[c] = wire[c]
    BY <1>2 DEF EndCall, Destroy, endCall, TypeOK
  <2>3. QED
    BY <2>1, <2>2, FreshKept
<1>3. ASSUME NEW c \in Calls, Start(c) \/ Prompted(c) PROVE Fresh'
  BY <1>3, FreshKept DEF Start, Prompted
<1>4. ASSUME NEW c \in Calls, SessionAnswer(c) \/ VideoAnswer(c) PROVE Fresh'
  <2>1. sock[c] = "none"
    BY <1>4 DEF SessionAnswer, VideoAnswer, QuietInv, NotYet
  <2>2. sock' = sock \/ sock' = [sock EXCEPT ![c] = "connecting"]
    BY <1>4 DEF SessionAnswer, VideoAnswer, connect
  <2>3. UNCHANGED <<wire, gate, early, known, ending>>
    BY <1>4 DEF SessionAnswer, VideoAnswer
  <2>4. QED
    BY <2>1, <2>2, <2>3, FreshKept DEF TypeOK
<1>5. ASSUME NEW c \in Calls, Opened(c) PROVE Fresh'
  <2>1. /\ sock[c] = "connecting" /\ sock' = [sock EXCEPT ![c] = "open"]
        /\ gate' = gate \/ gate' = [gate EXCEPT ![c] = "setup"]
        /\ UNCHANGED <<early, known, ending>>
    BY <1>5 DEF Opened
  <2>2. \A d \in Calls : d # c /\ sock[d] \in {"none", "connecting"} =>
          wire'[d] = wire[d]
    BY <1>5 DEF Opened, TypeOK
  <2>3. QED
    BY <2>1, <2>2, FreshKept DEF TypeOK
<1>6. ASSUME NEW c \in Calls, Closed(c) PROVE Fresh'
  <2>1. /\ sock' = [sock EXCEPT ![c] = "closed"]
        /\ UNCHANGED <<gate, early, known, ending>>
    BY <1>6 DEF Closed
  <2>2. wire' = [wire EXCEPT ![c] = <<>>] \/ wire' = wire
    BY <1>6 DEF Closed
  <2>3. QED
    BY <2>1, <2>2, FreshKept DEF TypeOK
<1>7. ASSUME NEW c \in Calls, Receive(c) \/ Proceed(c) PROVE Fresh'
  <2>1. sock' = sock /\ gate' = gate
    BY <1>7 DEF Receive, Proceed
  <2>2. sock[c] \notin {"none", "connecting"}
    BY <1>7 DEF Receive, Proceed, Fresh
  <2>3. \A d \in Calls : d # c => /\ wire'[d] = wire[d]
                                  /\ early'[d] = early[d]
    BY <1>7 DEF Receive, Proceed, TypeOK
  <2>4. \A d \in Calls : d # c => known'[d] = known[d] /\ ending'[d] = ending[d]
    <3>1. \A m : handle(c, m) =>
            \A d \in Calls : d # c => /\ known'[d] = known[d]
                                      /\ ending'[d] = ending[d]
      BY DEF handle, TypeOK
    <3>2. (\E m : handle(c, m)) \/ UNCHANGED <<ending, known>>
      <4>1. CASE Receive(c)
        BY <4>1 DEF Receive, TypeOK
      <4>2. CASE Proceed(c)
        BY <4>2 DEF Proceed
      <4>3. QED
        BY <1>7, <4>1, <4>2
    <3>3. QED
      BY <3>1, <3>2
  <2>5. QED
    BY <2>1, <2>2, <2>3, <2>4, FreshKept
<1>8. ASSUME NEW c \in Calls, SetupDone(c) \/ Hangup(c) \/ Ended(c)
      PROVE  Fresh'
  <2>1. sock[c] \notin {"none", "connecting"}
    BY <1>8 DEF SetupDone, Hangup, Ended, Fresh
  <2>2. UNCHANGED <<sock, wire, early, known>>
    BY <1>8 DEF SetupDone, Hangup, Ended
  <2>3. \A d \in Calls : d # c => /\ gate'[d] = gate[d]
                                  /\ ending'[d] = ending[d]
    BY <1>8 DEF SetupDone, Hangup, Ended, TypeOK
  <2>4. QED
    BY <2>1, <2>2, <2>3, FreshKept
<1>9. QED
  BY <1>1, <1>2, <1>3, <1>4, <1>5, <1>6, <1>7, <1>8 DEF Next

\* Hanging up at an early stage is noted; later it only adds an end message.
LEMMA HangUpStage ==
  ASSUME TypeOK, endCall, NEW c \in Calls, Stage(c), Owed(c)',
         UNCHANGED <<gate, active, ending, early, known>>,
         \/ sock' = sock
         \/ /\ ws \in Calls /\ sock[ws] \in {"connecting", "open"}
            /\ sock' = [sock EXCEPT ![ws] = "closing"]
  PROVE  Stage(c)'
<1> DEFINE Note == UNION {{d} \X stages(d) : d \in {e \in Calls : around(e)}}
<1>1. hurried' = hurried \union Note
  BY DEF endCall
<1>2. ASSUME NEW st \in stages(c), around(c) PROVE <<c, st>> \in hurried'
  <2>1. <<c, st>> \in {c} \X stages(c)
    OBVIOUS
  <2>2. {c} \X stages(c)
          \in {{d} \X stages(d) : d \in {e \in Calls : around(e)}}
    BY <1>2
  <2>3. QED
    BY <1>1, <2>1, <2>2
<1>3. ~ Unopened(c)
  <2> SUFFICES ASSUME Unopened(c) PROVE FALSE
    OBVIOUS
  <2>1. "starting" \in stages(c) /\ around(c)
    BY DEF Unopened, stages, Stages, around
  <2>2. QED
    BY <1>2, <2>1 DEF Owed
<1>4. ~ HeldUp(c) /\ ~ Late(c)
  <2> SUFFICES ASSUME HeldUp(c) \/ Late(c) PROVE FALSE
    OBVIOUS
  <2>1. "setup" \in stages(c) /\ around(c)
    BY DEF HeldUp, Late, stages, Stages, around
  <2>2. QED
    BY <1>2, <2>1 DEF Owed
<1>5. sock'[c] \in {sock[c], "closing"}
  BY DEF TypeOK
<1>6. wire'[c] = wire[c] \/ wire'[c] = Append(wire[c], End)
  BY DEF endCall, TypeOK
<1>7. /\ active[c] /\ ~ ending[c] /\ gate[c] = "ready" /\ early[c] = {}
      /\ sock[c] \in {"open", "closing", "closed"}
  BY <1>3, <1>4 DEF Stage, Coming, Known
<1>8. wire[c] \in Seq(Messages) /\ End \in Messages
  BY DEF TypeOK, Messages
<1>9. CASE Coming(c)
  <2>1. CASE wire'[c] = wire[c]
    BY <1>5, <1>7, <1>9, <2>1 DEF Stage, Coming, AllEnd
  <2>2. CASE wire'[c] = Append(wire[c], End)
    <3>1. Tail(wire[c]) \in Seq(Messages) /\ AllEnd(Tail(wire[c]))
      BY <1>8, <1>9 DEF Coming
    <3>2. AllEnd(Append(Tail(wire[c]), End))
      BY <3>1, AppendEnd
    <3>3. /\ wire'[c] # <<>> /\ Head(wire'[c]) = Tell(c)
          /\ Tail(wire'[c]) = Append(Tail(wire[c]), End)
      BY <1>8, <1>9, <2>2, AppendKeeps DEF Coming
    <3>4. QED
      BY <1>5, <1>7, <3>2, <3>3 DEF Stage, Coming, AllEnd
  <2>3. QED
    BY <1>6, <2>1, <2>2
<1>10. CASE Known(c)
  <2>1. AllEnd(wire[c]) /\ AllEnd(Append(wire[c], End))
    BY <1>8, <1>10, AppendEnd DEF Known
  <2>2. QED
    BY <1>5, <1>6, <1>7, <1>10, <2>1 DEF Stage, Known, AllEnd
<1>11. QED
  BY <1>3, <1>4, <1>9, <1>10 DEF Stage

\* A socket is made for call d: another call on its way has met it.
LEMMA ConnectStage ==
  ASSUME TypeOK, QuietInv, NEW c \in Calls, NEW d \in Calls,
         pc[d] \in {"session", "video"}, connect(d), Owed(c), Stage(c),
         UNCHANGED <<wire, gateway>>
  PROVE  Stage(c)'
<1>1. sock[d] = "none" /\ around(d)
  BY DEF QuietInv, NotYet, around
<1>2. sock[c] \in {"connecting", "open", "closing", "closed"}
  BY DEF Stage, Unopened, HeldUp, Late, Coming, Known
<1>3. c # d
  BY <1>1, <1>2
<1>4. sock[c] # "connecting"
  BY <1>1, <1>3, Alone
<1>5. sock'[c] = sock[c]
  BY <1>3 DEF connect, TypeOK
<1>6. QED
  BY <1>4, <1>5, StageKept DEF gateway

LEMMA OpenedStage ==
  ASSUME TypeOK, QuietInv, Fresh, NEW c \in Calls, NEW d \in Calls,
         Opened(d), Owed(c), Owed(c)', Stage(c)
  PROVE  Stage(c)'
<1>1. /\ sock[d] = "connecting" /\ sock' = [sock EXCEPT ![d] = "open"]
      /\ UNCHANGED <<ending, early, known>>
  BY DEF Opened
<1>a. \/ /\ gate' = [gate EXCEPT ![d] = "setup"]
         /\ active' = [active EXCEPT ![d] = TRUE]
      \/ /\ unlucky' = unlucky \union {d}
         /\ UNCHANGED <<gate, active>>
  BY DEF Opened
<1>2. CASE d = c
  <2>1. Unopened(c)
    BY <1>1, <1>2 DEF Stage, HeldUp, Late, Coming, Known
  <2>2. wire[c] = <<>> /\ early[c] = {} /\ ~ ending[c]
    BY <1>1, <1>2 DEF Fresh
  <2>3. wire'[c] = <<Tell(c)>>
    <3>1. wire' = [wire EXCEPT ![c] = Append(@, Tell(c))]
      BY <1>2, <2>1 DEF Opened, Unopened
    <3>2. Append(wire[c], Tell(c)) = <<Tell(c)>>
      BY <2>2
    <3>3. QED
      BY <3>1, <3>2 DEF TypeOK
  <2>4. /\ sock'[c] = "open" /\ gate'[c] = "setup" /\ active'[c]
        /\ early'[c] = {} /\ ~ ending'[c]
    <3>1. c \notin unlucky'
      BY DEF Owed
    <3>2. /\ gate' = [gate EXCEPT ![d] = "setup"]
          /\ active' = [active EXCEPT ![d] = TRUE]
      BY <1>a, <1>2, <3>1
    <3>3. QED
      BY <1>1, <1>2, <2>2, <3>2 DEF TypeOK
  <2>5. QED
    BY <2>3, <2>4 DEF Stage, HeldUp
<1>3. CASE d # c
  <2>1. around(d)
    BY <1>1 DEF around
  <2>2. sock[c] = "closed"
    BY <1>3, <2>1, Alone DEF Stage, Unopened, HeldUp, Late, Coming, Known
  <2>3. wire'[c] = wire[c]
    BY <1>3, <2>2 DEF Opened, TypeOK
  <2>4. /\ sock'[c] = sock[c] /\ gate'[c] = gate[c] /\ active'[c] = active[c]
    BY <1>a, <1>1, <1>3 DEF TypeOK
  <2>5. QED
    BY <1>1, <2>2, <2>3, <2>4, StageKept
<1>4. QED
  BY <1>2, <1>3

LEMMA ClosedStage ==
  ASSUME TypeOK, QuietInv, NEW c \in Calls, NEW d \in Calls,
         Closed(d), Owed(c), Owed(c)', Stage(c)
  PROVE  Stage(c)'
<1>1. /\ sock[d] \in {"connecting", "open", "closing"}
      /\ sock' = [sock EXCEPT ![d] = "closed"]
      /\ hurried' = hurried \union ({d} \X stages(d))
      /\ UNCHANGED <<gate, active, ending, early, known>>
  BY DEF Closed, gateway
<1>2. CASE d # c
  <2>1. around(d)
    BY <1>1 DEF around
  <2>2. sock[c] = "closed"
    BY <1>2, <2>1, Alone DEF Stage, Unopened, HeldUp, Late, Coming, Known
  <2>3. sock'[c] = sock[c] /\ wire'[c] = wire[c]
    BY <1>2 DEF Closed, TypeOK
  <2>4. QED
    BY <1>1, <2>2, <2>3, StageKept
<1>3. CASE d = c
  <2>1. /\ sock[c] # "connecting"
        /\ wire' = wire \/ (wire' = [wire EXCEPT ![c] = <<>>] /\ wire[c] = <<>>)
    BY <1>1, <1>3 DEF Closed, Owed
  <2>2. ASSUME NEW st \in stages(c) PROVE <<c, st>> \in hurried'
    <3>1. <<c, st>> \in {c} \X stages(c)
      OBVIOUS
    <3>2. QED
      BY <1>1, <1>3, <3>1
  <2>3. ~ HeldUp(c) /\ ~ Late(c)
    <3> SUFFICES ASSUME HeldUp(c) \/ Late(c) PROVE FALSE
      OBVIOUS
    <3>1. "setup" \in stages(c)
      BY DEF HeldUp, Late, stages, Stages
    <3>2. QED
      BY <2>2, <3>1 DEF Owed
  <2>4. wire'[c] = wire[c]
    BY <1>3, <2>1 DEF Closed, TypeOK
  <2>5. sock'[c] = "closed"
    BY <1>1, <1>3 DEF TypeOK
  <2>6. active[c] /\ ~ ending[c] /\ (Coming(c) \/ Known(c))
    BY <2>1, <2>3 DEF Stage, Unopened
  <2>7. QED
    BY <1>1, <2>4, <2>5, <2>6 DEF Stage, Coming, Known, AllEnd
<1>4. QED
  BY <1>2, <1>3

LEMMA ReceiveStage ==
  ASSUME TypeOK, Fresh, NEW c \in Calls, Receive(c), Owed(c), Owed(c)', Stage(c)
  PROVE  Stage(c)'
<1>1. /\ gate[c] \in {"setup", "ready"} /\ wire[c] # <<>>
      /\ wire' = [wire EXCEPT ![c] = Tail(@)]
      /\ UNCHANGED <<sock, gate, active>>
  BY DEF Receive, widget
<1>2. active[c] /\ ~ ending[c] /\ (HeldUp(c) \/ Coming(c) \/ Known(c))
  BY <1>1 DEF Stage, Fresh, Unopened, Late
<1>3. wire'[c] = Tail(wire[c])
  BY <1>1 DEF TypeOK
<1>4. CASE HeldUp(c)
  <2>1. wire[c] = <<Tell(c)>> /\ early[c] = {} /\ gate[c] = "setup"
    BY <1>1, <1>4 DEF HeldUp
  <2>2. Head(wire[c]) = Tell(c) /\ Tail(wire[c]) = <<>>
    BY <2>1
  <2>3. /\ early' = [early EXCEPT ![c] = @ \union {Head(wire[c])}]
        /\ ending' = ending
    BY <1>2, <2>1 DEF Receive
  <2>4. early'[c] = {Tell(c)}
    BY <2>1, <2>2, <2>3 DEF TypeOK
  <2>5. QED
    BY <1>1, <1>2, <1>3, <1>4, <2>2, <2>3, <2>4 DEF Stage, HeldUp
<1>5. ASSUME gate[c] = "ready"
      PROVE  handle(c, Head(wire[c])) /\ early' = early
  BY <1>2, <1>5 DEF Receive
<1>6. CASE Coming(c)
  <2>1. handle(c, Tell(c)) /\ early' = early
    BY <1>5, <1>6 DEF Coming
  <2>2. known'[c] = c /\ ending' = ending
    BY <2>1, Handles DEF TypeOK
  <2>3. QED
    BY <1>1, <1>2, <1>3, <1>6, <2>1, <2>2 DEF Stage, Coming, Known, AllEnd
<1>7. CASE Known(c)
  <2>1. Head(wire[c]) = End
    <3>1. wire[c] \in Seq(Messages)
      BY DEF TypeOK
    <3>2. 1 \in 1 .. Len(wire[c]) /\ Head(wire[c]) = wire[c][1]
      BY <1>1, <3>1
    <3>3. QED
      BY <1>7, <3>2 DEF Known, AllEnd
  <2>2. endConversation(c)
    BY <1>5, <1>7, <2>1, Handles DEF Known
  <2>3. FALSE
    BY <1>1, <2>2, EndsOwed DEF Receive, widget, Ids
  <2>4. QED
    BY <2>3
<1>8. QED
  BY <1>2, <1>4, <1>6, <1>7

LEMMA ProceedStage ==
  ASSUME TypeOK, Fresh, NEW c \in Calls, Proceed(c), Stage(c)
  PROVE  Stage(c)'
<1>1. PICK m \in early[c] :
        /\ early' = [early EXCEPT ![c] = @ \ {m}]
        /\ IF active[c] THEN handle(c, m)
           ELSE UNCHANGED <<conv, unlucky, ending, known>>
  BY DEF Proceed
<1>2. gate[c] # "setup" /\ UNCHANGED <<sock, wire, gate, active>>
  BY DEF Proceed, widget
<1>3. active[c] /\ ~ ending[c] /\ Late(c)
  BY <1>1, <1>2 DEF Stage, Fresh, Unopened, HeldUp, Coming, Known
<1>4. early[c] = {Tell(c)} /\ m = Tell(c)
  BY <1>1, <1>3 DEF Late
<1>5. early'[c] = {} /\ known'[c] = c /\ ending' = ending
  BY <1>1, <1>3, <1>4, Handles DEF TypeOK
<1>6. QED
  BY <1>2, <1>3, <1>5 DEF Stage, Late, Known, AllEnd

LEMMA StepOwed ==
  ASSUME TypeOK, QuietInv, ConvInv, [Next]_vars, NEW c \in Calls, Owed(c)'
  PROVE  Stage(c)'
<1> USE DEF field, mic, seat, widget, gateway, past
<1>0. Owed(c) => Stage(c)
  BY DEF ConvInv
<1>f. Fresh
  BY DEF ConvInv
<1>1. CASE UNCHANGED vars
  BY <1>0, <1>1, StageKept DEF vars, Owed
<1>2. CASE EndCall \/ Destroy
  <2>1. Owed(c)
    BY <1>2 DEF EndCall, Destroy, endCall, Owed
  <2>2. /\ endCall /\ UNCHANGED <<gate, active, ending, early, known>>
        /\ \/ sock' = sock
           \/ /\ ws \in Calls /\ sock[ws] \in {"connecting", "open"}
              /\ sock' = [sock EXCEPT ![ws] = "closing"]
    BY <1>2 DEF EndCall, Destroy, TypeOK, Ids
  <2>3. QED
    BY <1>0, <2>1, <2>2, HangUpStage
<1>3. ASSUME NEW d \in Calls, Start(d) \/ Prompted(d) PROVE Stage(c)'
  <2>1. Owed(c)
    BY <1>3 DEF Start, Prompted, Owed
  <2>2. QED
    BY <1>0, <1>3, <2>1, StageKept DEF Start, Prompted
<1>4. ASSUME NEW d \in Calls, SessionAnswer(d) PROVE Stage(c)'
  <2>1. Owed(c)
    BY <1>4 DEF SessionAnswer, Owed
  <2>2. CASE connect(d)
    BY <1>0, <1>4, <2>1, <2>2, ConnectStage DEF SessionAnswer
  <2>3. CASE UNCHANGED <<sock, field>>
    BY <1>0, <1>4, <2>1, <2>3, StageKept DEF SessionAnswer
  <2>4. QED
    BY <1>4, <2>2, <2>3 DEF SessionAnswer
<1>5. ASSUME NEW d \in Calls, VideoAnswer(d) PROVE Stage(c)'
  <2>1. CASE Owed(c)
    BY <1>0, <1>5, <2>1, ConnectStage DEF VideoAnswer
  <2>2. CASE ~ Owed(c)
    <3>1. conv'[c] # conv[c]
      BY <1>5, <2>2 DEF VideoAnswer, Owed
    <3>2. d = c /\ conv' = [conv EXCEPT ![d] = "open"]
      BY <1>5, <3>1 DEF VideoAnswer, TypeOK
    <3>3. video' = c
      <4>1. ~ (unlucky' = unlucky \union {c})
        BY DEF Owed
      <4>2. QED
        BY <1>5, <3>1, <3>2, <4>1 DEF VideoAnswer
    <3>4. ws' = c /\ sock'[c] = "connecting"
      BY <1>5, <3>2 DEF VideoAnswer, connect, TypeOK
    <3>5. QED
      BY <3>3, <3>4 DEF Stage, Unopened
  <2>3. QED
    BY <2>1, <2>2
<1>6. ASSUME NEW d \in Calls, Opened(d) PROVE Stage(c)'
  <2>1. Owed(c)
    BY <1>6 DEF Opened, Owed
  <2>2. QED
    BY <1>0, <1>6, <1>f, <2>1, OpenedStage
<1>7. ASSUME NEW d \in Calls, Closed(d) PROVE Stage(c)'
  <2>1. Owed(c)
    BY <1>7 DEF Closed, Owed
  <2>2. QED
    BY <1>0, <1>7, <2>1, ClosedStage
<1>8. ASSUME NEW d \in Calls, Receive(d) PROVE Stage(c)'
  <2>1. wire[d] \in Seq(Messages) /\ Head(wire[d]) \in Messages
    BY <1>8 DEF Receive, TypeOK
  <2>2. \/ handle(d, Head(wire[d]))
        \/ UNCHANGED <<conv, unlucky, ending, known>>
    BY <1>8 DEF Receive, TypeOK
  <2>3. crowded' = crowded /\ hurried' = hurried
    BY <1>8 DEF Receive
  <2>4. /\ Owed(c)
        /\ c # d => known'[c] = known[c] /\ ending'[c] = ending[c]
    <3>1. CASE handle(d, Head(wire[d]))
      BY <2>1, <2>3, <3>1, HandleOwed
    <3>2. CASE UNCHANGED <<conv, unlucky, ending, known>>
      BY <2>3, <3>2 DEF Owed
    <3>3. QED
      BY <2>2, <3>1, <3>2
  <2>5. CASE c = d
    BY <1>0, <1>8, <1>f, <2>4, <2>5, ReceiveStage
  <2>6. CASE c # d
    <3>1. /\ wire'[c] = wire[c] /\ early'[c] = early[c]
          /\ UNCHANGED <<sock, gate, active, video, ws>>
      BY <1>8, <2>6 DEF Receive, TypeOK
    <3>2. QED
      BY <1>0, <2>4, <2>6, <3>1, StageKept
  <2>7. QED
    BY <2>5, <2>6
<1>9. ASSUME NEW d \in Calls, SetupDone(d) PROVE Stage(c)'
  <2>1. Owed(c)
    BY <1>9 DEF SetupDone, Owed
  <2>2. /\ gate[d] = "setup" /\ gate' = [gate EXCEPT ![d] = "ready"]
        /\ UNCHANGED <<sock, video, ws, wire, active, ending, early, known>>
    BY <1>9 DEF SetupDone
  <2>3. CASE c = d
    <3>1. active[c] /\ ~ ending[c] /\ HeldUp(c)
      BY <1>0, <1>f, <2>1, <2>2, <2>3
         DEF Stage, Fresh, Unopened, Late, Coming, Known
    <3>2. gate'[c] = "ready"
      BY <2>2, <2>3 DEF TypeOK
    <3>3. CASE wire[c] = <<Tell(c)>> /\ early[c] = {}
      <4>1. /\ wire[c] # <<>> /\ Head(wire[c]) = Tell(c)
            /\ Tail(wire[c]) = <<>>
        BY <3>3
      <4>2. AllEnd(Tail(wire[c]))
        BY <4>1 DEF AllEnd
      <4>3. QED
        BY <2>2, <3>1, <3>2, <3>3, <4>1, <4>2
           DEF Stage, HeldUp, Coming, AllEnd
    <3>4. CASE wire[c] = <<>> /\ early[c] = {Tell(c)}
      BY <2>2, <3>1, <3>2, <3>4 DEF Stage, HeldUp, Late
    <3>5. QED
      BY <3>1, <3>3, <3>4 DEF HeldUp
  <2>4. CASE c # d
    <3>1. gate'[c] = gate[c]
      BY <2>2, <2>4 DEF TypeOK
    <3>2. QED
      BY <1>0, <2>1, <2>2, <3>1, StageKept
  <2>5. QED
    BY <2>3, <2>4
<1>10. ASSUME NEW d \in Calls, Proceed(d) PROVE Stage(c)'
  <2>1. PICK m \in early[d] :
          /\ early' = [early EXCEPT ![d] = @ \ {m}]
          /\ IF active[d] THEN handle(d, m)
             ELSE UNCHANGED <<conv, unlucky, ending, known>>
    BY <1>10 DEF Proceed
  <2>2. m \in Messages /\ crowded' = crowded /\ hurried' = hurried
    BY <1>10, <2>1 DEF Proceed, TypeOK
  <2>3. /\ Owed(c)
        /\ c # d => known'[c] = known[c] /\ ending'[c] = ending[c]
    <3>1. CASE handle(d, m)
      BY <2>2, <3>1, HandleOwed
    <3>2. CASE UNCHANGED <<conv, unlucky, ending, known>>
      BY <2>2, <3>2 DEF Owed
    <3>3. QED
      BY <2>1, <3>1, <3>2
  <2>4. CASE c = d
    BY <1>0, <1>10, <1>f, <2>3, <2>4, ProceedStage
  <2>5. CASE c # d
    <3>1. /\ early'[c] = early[c]
          /\ UNCHANGED <<sock, wire, gate, active, video, ws>>
      BY <1>10, <2>1, <2>5 DEF Proceed, TypeOK
    <3>2. QED
      BY <1>0, <2>3, <2>5, <3>1, StageKept
  <2>6. QED
    BY <2>4, <2>5
<1>11. ASSUME NEW d \in Calls, Hangup(d) PROVE Stage(c)'
  <2>1. /\ sock[d] \in {"closing", "closed"} /\ wire[d] = <<>>
        /\ gate' = [gate EXCEPT ![d] = "closed"]
        /\ endConversation(known[d])
        /\ ending' = [ending EXCEPT ![d] = active[d]]
        /\ UNCHANGED <<sock, video, ws, wire, active, early, known>>
        /\ crowded' = crowded /\ hurried' = hurried
    BY <1>11 DEF Hangup
  <2>2. Owed(c) /\ c # known[d]
    <3>1. known[d] \in Ids
      BY DEF TypeOK
    <3>2. QED
      BY <2>1, <3>1, EndsOwed
  <2>3. CASE c = d
    <3>1. FALSE
      BY <1>0, <2>1, <2>2, <2>3
         DEF Stage, Unopened, HeldUp, Late, Coming, Known
    <3>2. QED
      BY <3>1
  <2>4. CASE c # d
    <3>1. gate'[c] = gate[c] /\ ending'[c] = ending[c]
      BY <2>1, <2>4 DEF TypeOK
    <3>2. QED
      BY <1>0, <2>1, <2>2, <3>1, StageKept
  <2>5. QED
    BY <2>3, <2>4
<1>12. ASSUME NEW d \in Calls, Ended(d) PROVE Stage(c)'
  <2>1. Owed(c)
    BY <1>12 DEF Ended, Owed
  <2>2. c # d
    BY <1>0, <1>12, <1>f, <2>1 DEF Ended, Stage, Fresh, Unopened
  <2>3. active'[c] = active[c] /\ ending'[c] = ending[c]
    BY <1>12, <2>2 DEF Ended, TypeOK
  <2>4. QED
    BY <1>0, <1>12, <2>1, <2>3, StageKept DEF Ended
<1>13. QED
  BY <1>1, <1>2, <1>3, <1>4, <1>5, <1>6, <1>7, <1>8, <1>9, <1>10, <1>11,
     <1>12 DEF Next

LEMMA InitConv == Init => ConvInv
BY DEF Init, ConvInv, Fresh, Owed

LEMMA StepConv == TypeOK /\ QuietInv /\ ConvInv /\ [Next]_vars => ConvInv'
<1> SUFFICES ASSUME TypeOK, QuietInv, ConvInv, [Next]_vars PROVE ConvInv'
  OBVIOUS
<1>1. Fresh'
  BY StepFresh DEF ConvInv
<1>2. ASSUME NEW c \in Calls PROVE (Owed(c) => Stage(c))'
  BY StepOwed
<1>3. QED
  BY <1>1, <1>2 DEF ConvInv

\* When a call is over the gateway has ended its conversation, unless
\* something failed, the page hung up early or calls overlapped: until then
\* the widget has the conversation, it is under way, or the gateway knows it.
THEOREM ConversationsAreEnded == Spec => []NoConversationLeft
<1>1. Init => TypeOK /\ QuietInv /\ ConvInv
  BY InitType, InitQuiet, InitConv
<1>2. TypeOK /\ QuietInv /\ ConvInv /\ [Next]_vars
        => (TypeOK /\ QuietInv /\ ConvInv)'
  BY StepType, StepQuiet, StepConv
<1>3. QED
  BY <1>1, <1>2, ConvEnough, PTL DEF Spec
=============================================================================
