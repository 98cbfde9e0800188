----------------------------- MODULE WidgetCall -----------------------------
(***************************************************************************)
(* The embeddable widget (AdunniWidget) with what its calls leave behind:  *)
(* the microphone, the video room it joins and the conversation of the     *)
(* external video service, which only the gateway ends.                    *)
(*                                                                         *)
(* One widget object; each run of start() is a call, named c.  Its fetches,*)
(* the events of its WebSocket and the answer to the microphone prompt     *)
(* arrive in any order with those of other calls, and with endCall() and   *)
(* destroy(), which the page calls when it likes; all of them share the    *)
(* fields of the object.  Of the gateway only what concerns the            *)
(* conversation is here.  The Daily library is taken to be loaded, and     *)
(* what is played or shown is left out.                                    *)
(***************************************************************************)
EXTENDS Naturals, Sequences

CONSTANTS
  Calls,         \* runs of start()
  None,          \* null
  MaxHangups     \* bound: calls of endCall() and destroy()

ASSUME WidgetAssumption == None \notin Calls /\ MaxHangups \in Nat

VARIABLES
  pc,            \* where start() is
  sock,          \* readyState of the call's WebSocket
  ws, isActive,
  video,         \* videoConversation, named by the call that made it
  prompts,       \* calls whose microphone prompt is open
  live, stream,  \* streams not stopped; mediaStream
  rooms, room,   \* rooms joined and not left; dailyCall
  hangups,
  wire,          \* messages under way to the gateway
  gate,          \* the gateway's connection
  active,        \* sessionActive
  ending,        \* has endSession begun?
  early,         \* messages that wait for the end of the setup
  known,         \* the gateway's videoConversation
  conv,          \* conversations of the video service
  hung,          \* history: calls hung up after they had opened
  crowded,       \* history: calls that overlapped another
  hurried,       \* history: calls hung up or closed at an early stage, with it
  unlucky        \* history: calls something external failed for

field   == <<ws, isActive, video>>
mic     == <<live, stream>>
seat    == <<rooms, room>>
widget  == <<pc, sock, field, prompts, mic, seat, hangups, hung, crowded>>
gateway == <<gate, active, ending, early, known>>
past    == <<hurried, unlucky>>
vars    == <<widget, wire, gateway, conv, past>>

Ids == Calls \union {None}
End == [type |-> "end", conv |-> None]
Tell(c) == [type |-> "video", conv |-> c]
Messages == {End} \union {Tell(c) : c \in Calls}
Stages == {"starting", "asking", "setup"}

TypeOK ==
  /\ pc \in [Calls -> {"idle", "session", "video", "made", "failed"}]
  /\ sock \in [Calls -> {"none", "connecting", "open", "closing", "closed"}]
  /\ ws \in Ids /\ isActive \in BOOLEAN /\ video \in Ids
  /\ prompts \subseteq Calls
  /\ live \subseteq Calls /\ stream \in live \union {None}
  /\ rooms \subseteq Calls /\ room \in rooms \union {None}
  /\ hangups \in 0 .. MaxHangups
  /\ wire \in [Calls -> Seq(Messages)]
  /\ gate \in [Calls -> {"none", "setup", "ready", "closed"}]
  /\ active \in [Calls -> BOOLEAN] /\ ending \in [Calls -> BOOLEAN]
  /\ early \in [Calls -> SUBSET Messages]
  /\ known \in [Calls -> Ids]
  /\ conv \in [Calls -> {"none", "open", "ended"}]
  /\ hung \subseteq Calls /\ crowded \subseteq Calls /\ unlucky \subseteq Calls
  /\ hurried \subseteq Calls \X Stages

Init ==
  /\ pc = [c \in Calls |-> "idle"] /\ sock = [c \in Calls |-> "none"]
  /\ ws = None /\ isActive = FALSE /\ video = None
  /\ prompts = {} /\ live = {} /\ rooms = {}
  /\ stream = None /\ room = None /\ hangups = 0
  /\ wire = [c \in Calls |-> <<>>] /\ gate = [c \in Calls |-> "none"]
  /\ active = [c \in Calls |-> FALSE] /\ ending = [c \in Calls |-> FALSE]
  /\ early = [c \in Calls |-> {}] /\ known = [c \in Calls |-> None]
  /\ conv = [c \in Calls |-> "none"]
  /\ hung = {} /\ crowded = {} /\ hurried = {} /\ unlucky = {}

-----------------------------------------------------------------------------
(* start() *)

\* The call has begun and something of it may still happen.
around(c) ==
  \/ pc[c] \in {"session", "video"} \/ c \in prompts
  \/ sock[c] \in {"connecting", "open", "closing"}

Start(c) ==
  /\ pc[c] = "idle"
  /\ pc' = [pc EXCEPT ![c] = "session"]
  /\ LET others == {d \in Calls : around(d)}
     IN  crowded' = IF others = {} THEN crowded
                    ELSE crowded \union others \union {c}
  /\ UNCHANGED <<sock, field, prompts, mic, seat, hangups, hung>>
  /\ UNCHANGED <<wire, gateway, conv, past>>

\* Nothing asks whether the widget has been destroyed meanwhile.
connect(c) ==
  /\ pc' = [pc EXCEPT ![c] = "made"]
  /\ sock' = [sock EXCEPT ![c] = "connecting"]
  /\ ws' = c /\ isActive' = TRUE

\* The session was created, or not.  The video conversation is optional.
SessionAnswer(c) ==
  /\ pc[c] = "session"
  /\ \/ connect(c) /\ UNCHANGED video
     \/ /\ \E step \in {"video", "failed"} : pc' = [pc EXCEPT ![c] = step]
        /\ UNCHANGED <<sock, field>>
  /\ UNCHANGED <<prompts, mic, seat, hangups, hung, crowded>>
  /\ UNCHANGED <<wire, gateway, conv, past>>

\* The conversation was created and its address came back, or only the
\* former, or neither.  The call goes on in any case.
VideoAnswer(c) ==
  /\ pc[c] = "video"
  /\ connect(c)
  /\ \/ /\ conv' = [conv EXCEPT ![c] = "open"]
        /\ \/ video' = c /\ UNCHANGED unlucky
           \/ unlucky' = unlucky \union {c} /\ UNCHANGED video
     \/ UNCHANGED <<conv, video, unlucky>>
  /\ UNCHANGED <<prompts, mic, seat, hangups, hung, crowded>>
  /\ UNCHANGED <<wire, gateway, hurried>>

-----------------------------------------------------------------------------
(* The WebSocket's events and the microphone *)

\* The call object of another call is neither left nor kept.
joinVideoRoom(c) == rooms' = rooms \union {c} /\ room' = c

\* onopen, and the gateway's side of the connection, which may refuse it: it
\* then listens to nothing.  The conversation is told on whatever socket is
\* current.
Opened(c) ==
  /\ sock[c] = "connecting"
  /\ sock' = [sock EXCEPT ![c] = "open"]
  /\ IF video = None THEN UNCHANGED <<wire, seat>>
     ELSE /\ IF ws # None /\ (ws = c \/ sock[ws] = "open")
               THEN wire' = [wire EXCEPT ![ws] = Append(@, Tell(video))]
               ELSE UNCHANGED wire
          /\ joinVideoRoom(c)
  /\ prompts' = prompts \union {c}
  /\ \/ /\ gate' = [gate EXCEPT ![c] = "setup"]
        /\ active' = [active EXCEPT ![c] = TRUE] /\ UNCHANGED unlucky
     \/ unlucky' = unlucky \union {c} /\ UNCHANGED <<gate, active>>
  /\ UNCHANGED <<pc, field, mic, hangups, hung, crowded>>
  /\ UNCHANGED <<ending, early, known, conv, hurried>>

\* getUserMedia returns: the stream replaces whatever mediaStream was.
Prompted(c) ==
  /\ c \in prompts
  /\ prompts' = prompts \ {c}
  /\ \/ live' = live \union {c} /\ stream' = c
     \/ UNCHANGED mic                                \* access denied
  /\ UNCHANGED <<pc, sock, field, seat, hangups, hung, crowded>>
  /\ UNCHANGED <<wire, gateway, conv, past>>

\* Mutant: the tracks of the stream are not stopped.
stopMicCapture_KeepTracks == stream' = None /\ UNCHANGED live

stopMicCapture == live' = live \ {stream} /\ stream' = None

\* Mutant: the call object left is not forgotten.
leaveVideoRoom_KeepCall ==
  rooms' = rooms \ {room} /\ UNCHANGED room /\ video' = None

leaveVideoRoom == rooms' = rooms \ {room} /\ room' = None /\ video' = None

\* The stages call c is still in.
stages(c) ==
  {st \in Stages : \/ st = "starting" /\ sock[c] \in {"none", "connecting"}
                   \/ st = "asking" /\ c \in prompts
                   \/ st = "setup" /\ (gate[c] = "setup" \/ early[c] # {})}

\* onclose: of a socket that could not be opened, was closed by destroy() or
\* broke, which loses what was under way.  It clears the widget, whichever
\* call that is in.
Closed(c) ==
  /\ sock[c] \in {"connecting", "open", "closing"}
  /\ sock' = [sock EXCEPT ![c] = "closed"]
  /\ hurried' = hurried \union ({c} \X stages(c))
  /\ \/ sock[c] = "closing" /\ UNCHANGED <<wire, unlucky>>
     \/ /\ wire' = [wire EXCEPT ![c] = <<>>]
        /\ unlucky' = IF sock[c] = "connecting" \/ wire[c] # <<>>
                         THEN unlucky \union {c} ELSE unlucky
  /\ isActive' = FALSE /\ stopMicCapture /\ leaveVideoRoom
  /\ UNCHANGED <<pc, ws, prompts, hangups, hung, crowded, gateway, conv>>

-----------------------------------------------------------------------------
(* The page hangs up *)

\* What endCall() does; the stage each call is in is noted.
endCall ==
  /\ hangups < MaxHangups /\ hangups' = hangups + 1
  /\ IF ws # None /\ sock[ws] = "open"
       THEN wire' = [wire EXCEPT ![ws] = Append(@, End)] ELSE UNCHANGED wire
  /\ stopMicCapture /\ leaveVideoRoom
  /\ hung' = hung \union {c \in Calls : sock[c] = "open"}
  /\ hurried' = hurried \union
                  UNION {{c} \X stages(c) : c \in {d \in Calls : around(d)}}

EndCall ==
  /\ endCall
  /\ UNCHANGED <<pc, sock, ws, isActive, prompts, crowded>>
  /\ UNCHANGED <<gateway, conv, unlucky>>

Destroy ==
  /\ endCall
  /\ ws' = None
  /\ sock' = IF ws # None /\ sock[ws] \in {"connecting", "open"}
               THEN [sock EXCEPT ![ws] = "closing"] ELSE sock
  /\ UNCHANGED <<pc, isActive, prompts, crowded, gateway, conv, unlucky>>

-----------------------------------------------------------------------------
(* The gateway *)

\* endConversation: a failure is only logged.
endConversation(k) ==
  IF k = None THEN UNCHANGED <<conv, unlucky>>
  ELSE \/ conv' = [conv EXCEPT ![k] = "ended"] /\ UNCHANGED unlucky
       \/ unlucky' = unlucky \union {k} /\ UNCHANGED conv

\* A message of connection c is acted upon.
handle(c, m) ==
  \/ /\ m.type = "video"
     /\ known' = [known EXCEPT ![c] = m.conv]
     /\ UNCHANGED <<conv, unlucky, ending>>
  \/ /\ m.type = "end"
     /\ endConversation(known[c])
     /\ ending' = [ending EXCEPT ![c] = TRUE]
     /\ UNCHANGED known

\* A message arrives: dropped, kept until the setup is done, or handled.
Receive(c) ==
  /\ gate[c] \in {"setup", "ready"} /\ wire[c] # <<>>
  /\ wire' = [wire EXCEPT ![c] = Tail(@)]
  /\ CASE ~ active[c] -> UNCHANGED <<conv, unlucky, ending, known, early>>
       [] active[c] /\ gate[c] = "setup" ->
            /\ early' = [early EXCEPT ![c] = @ \union {Head(wire[c])}]
            /\ UNCHANGED <<conv, unlucky, ending, known>>
       [] active[c] /\ gate[c] = "ready" ->
            handle(c, Head(wire[c])) /\ UNCHANGED early
  /\ UNCHANGED <<widget, gate, active, hurried>>

SetupDone(c) ==
  /\ gate[c] = "setup"
  /\ gate' = [gate EXCEPT ![c] = "ready"]
  /\ UNCHANGED <<widget, wire, active, ending, early, known, conv, past>>

\* One of the messages that waited finds the setup done (which it is, sooner
\* or later, also on a closed connection) or the session over.
Proceed(c) ==
  /\ gate[c] # "setup"
  /\ \E m \in early[c] :
       /\ early' = [early EXCEPT ![c] = @ \ {m}]
       /\ IF active[c] THEN handle(c, m)
          ELSE UNCHANGED <<conv, unlucky, ending, known>>
  /\ UNCHANGED <<widget, wire, gate, active, hurried>>

\* Mutant: the conversation is ended by an end message only.
Hangup_KeepsVideo(c) ==
  /\ gate[c] \in {"setup", "ready"}
  /\ sock[c] \in {"closing", "closed"} /\ wire[c] = <<>>
  /\ gate' = [gate EXCEPT ![c] = "closed"]
  /\ ending' = [ending EXCEPT ![c] = active[c]]
  /\ UNCHANGED <<widget, wire, active, early, known, conv, past>>

\* The close event, after the messages that were not lost.
Hangup(c) ==
  /\ gate[c] \in {"setup", "ready"}
  /\ sock[c] \in {"closing", "closed"} /\ wire[c] = <<>>
  /\ gate' = [gate EXCEPT ![c] = "closed"]
  /\ endConversation(known[c])
  /\ ending' = [ending EXCEPT ![c] = active[c]]
  /\ UNCHANGED <<widget, wire, active, early, known, hurried>>

\* endSession has returned; unless the store failed, it has announced the end.
Ended(c) ==
  /\ ending[c]
  /\ active' = [active EXCEPT ![c] = FALSE]
  /\ ending' = [ending EXCEPT ![c] = FALSE]
  /\ \/ sock[c] = "open" /\ isActive' = FALSE
     \/ UNCHANGED isActive
  /\ UNCHANGED <<pc, sock, ws, video, prompts, mic, seat, hangups, hung>>
  /\ UNCHANGED <<crowded, wire, gate, early, known, conv, past>>

-----------------------------------------------------------------------------
Next ==
  \/ EndCall \/ Destroy
  \/ \E c \in Calls :
       \/ Start(c) \/ SessionAnswer(c) \/ VideoAnswer(c)
       \/ Opened(c) \/ Prompted(c) \/ Closed(c)
       \/ Receive(c) \/ SetupDone(c) \/ Proceed(c) \/ Hangup(c) \/ Ended(c)

Spec == Init /\ [][Next]_vars

-----------------------------------------------------------------------------
(* Properties *)

(***************************************************************************)
(* Once a call was hung up or its socket closed, neither its microphone    *)
(* nor its room stays on, whatever came in between.  The exceptions are    *)
(* the ones the shared fields leave: a prompt answered after the hang-up   *)
(* turns the microphone on for good, and calls that overlap overwrite each *)
(* other's stream and room.  And when no call is left, isCallActive() says *)
(* so.                                                                     *)
(***************************************************************************)
QuietAfterCall ==
  /\ isActive => \E c \in Calls : sock[c] \in {"connecting", "open", "closing"}
  /\ \A c \in Calls :
       /\ c \in live => \/ sock[c] = "open" /\ c \notin hung
                        \/ <<c, "asking">> \in hurried
                        \/ c \in crowded
       /\ c \in rooms => \/ sock[c] = "open" /\ c \notin hung
                         \/ c \in crowded

\* Nothing of call c is under way in the widget or the gateway.
over(c) ==
  /\ sock[c] = "closed" /\ early[c] = {} /\ ~ ending[c]
  /\ gate[c] \in {"none", "closed"}

(***************************************************************************)
(* When a call is over, its video conversation has been ended, by the end  *)
(* message or the close of the connection, although only the browser knows *)
(* it at first.  It is left open only if something failed (its address or  *)
(* a message was lost, or the service refused to end it), if the page      *)
(* hung up before the socket was open or while the message that tells the  *)
(* gateway of it may wait for its setup, or if calls overlapped.           *)
(***************************************************************************)
NoConversationLeft ==
  \A c \in Calls :
    over(c) /\ conv[c] = "open" =>
      \/ c \in unlucky \/ c \in crowded
      \/ <<c, "starting">> \in hurried \/ <<c, "setup">> \in hurried
=============================================================================
