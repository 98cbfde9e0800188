----------------------------- MODULE LiveClient -----------------------------
(***************************************************************************)
(* The web client (live.html): the gates that decide when it listens, with *)
(* as much of the gateway as sets them.  Its open microphone is watched    *)
(* every 50 ms: speech starts a recording, silence ends it, the recording  *)
(* is sent as one utterance; while that is answered the client listens no  *)
(* more, except for a caller who interrupts the answer.                    *)
(*                                                                         *)
(* The page has one call at a time: the start button comes back when the   *)
(* socket has closed.  The recorder's data is read and sent before the     *)
(* three ticks that begin a new recording and before another call is       *)
(* connected.  The gateway's messages are acted upon in the step that      *)
(* sends them: what is under way is what it has not sent yet.  Calls       *)
(* without video.                                                          *)
(***************************************************************************)
EXTENDS Naturals

CONSTANTS
  MaxUtterances,   \* bound: utterances recorded
  MaxCalls,        \* bound: calls
  MaxQuiets        \* bound: events under way that end "AI is speaking"

ASSUME ClientAssumption ==
  MaxUtterances \in Nat /\ MaxCalls \in Nat /\ MaxQuiets \in Nat

VARIABLES
  sock,            \* startCall() at work, or the readyState of ws
  connected,
  calls,
  timer,           \* startOpenMic is due, 300 ms after the socket opened
  prompts,         \* microphone prompts that are open
  vad,             \* vadStream, vadAnalyser and vadInterval
  vadIsSpeaking,
  recorder,        \* "on" is isRecording; "stopping": its data is awaited
  transcribing, aiSpeaking,
  quiets,          \* sounds, timers, translations that end aiSpeaking
  greeting,        \* the gateway's greeting of the call
  stage,           \* what becomes of each utterance
  ignored,         \* history: an utterance was left without turn.complete
  intruded,        \* history: the caller spoke into a turn or the greeting
  late             \* history: a prompt was answered while the client recorded

page   == <<sock, connected, calls>>
mic    == <<timer, prompts, vad>>
ears   == <<vadIsSpeaking, recorder>>
gates  == <<transcribing, aiSpeaking, quiets>>
remote == <<greeting, stage>>
past   == <<ignored, intruded, late>>
vars   == <<page, mic, ears, gates, remote, past>>

Utterances == 1 .. MaxUtterances
MaxPrompts == 2

\* "sent": on its way, asleep in the setup or before "transcribing";
\* "asr", "asked": until the recognition, then until turn.complete.
Stages == {"unused", "recorded", "sent", "asr", "asked", "over"}
underWay(u) == stage[u] \in {"sent", "asr", "asked"}

TypeOK ==
  /\ sock \in {"none", "starting", "connecting", "open", "closing"}
  /\ connected \in BOOLEAN /\ calls \in 0 .. MaxCalls
  /\ timer \in BOOLEAN /\ prompts \in 0 .. MaxPrompts /\ vad \in BOOLEAN
  /\ vadIsSpeaking \in BOOLEAN /\ recorder \in {"off", "on", "stopping"}
  /\ transcribing \in BOOLEAN /\ aiSpeaking \in BOOLEAN
  /\ quiets \in 0 .. MaxQuiets
  /\ greeting \in {"none", "setup", "due", "said"}
  /\ stage \in [Utterances -> Stages]
  /\ ignored \in BOOLEAN /\ intruded \in BOOLEAN /\ late \in BOOLEAN
  /\ recorder # "off" => \E u \in Utterances : stage[u] = "recorded"

Init ==
  /\ sock = "none" /\ connected = FALSE /\ calls = 0
  /\ timer = FALSE /\ prompts = 0 /\ vad = FALSE
  /\ vadIsSpeaking = FALSE /\ recorder = "off"
  /\ transcribing = FALSE /\ aiSpeaking = FALSE /\ quiets = 0
  /\ greeting = "none" /\ stage = [u \in Utterances |-> "unused"]
  /\ ignored = FALSE /\ intruded = FALSE /\ late = FALSE

-----------------------------------------------------------------------------
(* Recording *)

\* A recording begins, unless there is one.
startVadRec ==
  \/ recorder = "on" /\ UNCHANGED <<recorder, stage>>
  \/ /\ recorder = "off" /\ recorder' = "on"
     /\ \E u \in Utterances :
          /\ stage[u] = "unused"
          /\ \A v \in Utterances : stage[v] = "unused" => u <= v
          /\ stage' = [stage EXCEPT ![u] = "recorded"]

\* Mutant: without the test of isRecording.
stopVadRec_Always == recorder' = "stopping"

stopVadRec == recorder' = IF recorder = "on" THEN "stopping" ELSE recorder

\* A turn runs or the greeting: a turn.complete is to come.
busy == \/ transcribing \/ greeting \in {"setup", "due"}
        \/ \E u \in Utterances : underWay(u)

\* Three loud ticks.
SpeechBegins ==
  /\ vad /\ connected /\ ~ aiSpeaking /\ ~ transcribing /\ ~ vadIsSpeaking
  /\ vadIsSpeaking' = TRUE
  /\ startVadRec
  /\ intruded' = (intruded \/ greeting \in {"setup", "due"})
  /\ UNCHANGED <<page, mic, gates, greeting, ignored, late>>

\* A second and a half of silence.
SpeechEnds ==
  /\ vad /\ connected /\ ~ aiSpeaking /\ ~ transcribing /\ vadIsSpeaking
  /\ vadIsSpeaking' = FALSE
  /\ stopVadRec
  /\ UNCHANGED <<page, mic, gates, remote, past>>

\* A tick while the client is transcribing: it listens no more, but leaves
\* the recorder as it is.
TickTranscribing ==
  /\ vad /\ connected /\ ~ aiSpeaking /\ transcribing /\ vadIsSpeaking
  /\ vadIsSpeaking' = FALSE
  /\ UNCHANGED <<page, mic, recorder, gates, remote, past>>

\* Five louder ticks while the AI speaks, also when a turn is under way.
BargeIn ==
  /\ vad /\ connected /\ aiSpeaking
  /\ aiSpeaking' = FALSE
  /\ startVadRec
  /\ vadIsSpeaking' = (vadIsSpeaking \/ recorder = "off")
  /\ intruded' = (intruded \/ busy)
  /\ UNCHANGED <<page, mic, transcribing, quiets, greeting, ignored, late>>

\* Mutant: the gate closes only when the gateway says it transcribes.
BlobRead_GateLater ==
  /\ recorder = "stopping" /\ recorder' = "off"
  /\ \E u \in Utterances :
       /\ stage[u] = "recorded"
       /\ stage' = [stage EXCEPT ![u] = IF sock = "open" THEN "sent"
                                        ELSE "over"]
  /\ UNCHANGED <<page, mic, vadIsSpeaking, gates, greeting, past>>

\* The recorder's data has been read.  A blob of less than 500 bytes is
\* dropped; any other closes the gate, sent or not.
BlobRead ==
  /\ recorder = "stopping" /\ recorder' = "off"
  /\ \E u \in Utterances :
       /\ stage[u] = "recorded"
       /\ \/ /\ stage' = [stage EXCEPT ![u] = "over"]
             /\ UNCHANGED transcribing
          \/ /\ stage' = [stage EXCEPT ![u] = IF sock = "open" THEN "sent"
                                              ELSE "over"]
             /\ transcribing' = TRUE
  /\ UNCHANGED <<page, mic, vadIsSpeaking, aiSpeaking, quiets>>
  /\ UNCHANGED <<greeting, past>>

-----------------------------------------------------------------------------
(* The microphone *)

\* openMicEnabled is never FALSE.
startOpenMic ==
  IF connected /\ ~ vad
    THEN prompts < MaxPrompts /\ prompts' = prompts + 1
    ELSE UNCHANGED prompts

\* The sounds of the context that is closed end without an event.
stopOpenMic ==
  /\ vad' = FALSE /\ vadIsSpeaking' = FALSE
  /\ quiets' \in 0 .. quiets

MicDue ==
  /\ timer /\ timer' = FALSE
  /\ startOpenMic
  /\ UNCHANGED <<page, vad, ears, gates, remote, past>>

\* getUserMedia returns.  Neither the call nor another stream is looked at
\* again.
Prompted ==
  /\ prompts > 0 /\ prompts' = prompts - 1
  /\ \/ /\ vad' = TRUE /\ vadIsSpeaking' = FALSE
        /\ late' = (late \/ recorder = "on")
     \/ UNCHANGED <<vad, vadIsSpeaking, late>>        \* refused
  /\ UNCHANGED <<page, timer, recorder, gates, remote, ignored, intruded>>

toggleMic ==
  /\ connected
  /\ \/ /\ vad /\ stopVadRec /\ stopOpenMic
        /\ UNCHANGED prompts
     \/ /\ ~ vad /\ startOpenMic
        /\ UNCHANGED <<vad, ears, quiets>>
  /\ UNCHANGED <<page, timer, transcribing, aiSpeaking, remote, past>>

-----------------------------------------------------------------------------
(* The call *)

StartCall ==
  /\ sock = "none" /\ calls < MaxCalls
  /\ sock' = "starting" /\ calls' = calls + 1
  /\ ignored' = FALSE /\ intruded' = FALSE /\ late' = FALSE
  /\ UNCHANGED <<connected, mic, ears, gates, remote>>

\* Its requests are answered, or one of them fails.
Started ==
  /\ sock = "starting"
  /\ sock' \in {"connecting", "none"}
  /\ UNCHANGED <<connected, calls, mic, ears, gates, remote, past>>

Opened ==
  /\ sock = "connecting" /\ recorder # "stopping"
  /\ sock' = "open" /\ connected' = TRUE
  /\ timer' = TRUE /\ greeting' = "setup"
  /\ UNCHANGED <<calls, prompts, vad, ears, gates, stage, past>>

\* Mutant: the recorder is not stopped.
Closed_KeepsRecorder ==
  /\ sock \in {"connecting", "open", "closing"}
  /\ sock' = "none" /\ connected' = FALSE
  /\ aiSpeaking' = FALSE /\ transcribing' = FALSE
  /\ stopOpenMic /\ greeting' = "none"
  /\ stage' = [u \in Utterances |-> IF underWay(u) THEN "over" ELSE stage[u]]
  /\ UNCHANGED <<calls, timer, prompts, recorder, past>>

\* onclose.  What the gateway still does about the call is not heard.
Closed ==
  /\ sock \in {"connecting", "open", "closing"}
  /\ sock' = "none" /\ connected' = FALSE
  /\ aiSpeaking' = FALSE /\ transcribing' = FALSE
  /\ stopVadRec /\ stopOpenMic
  /\ greeting' = "none"
  /\ stage' = [u \in Utterances |-> IF underWay(u) THEN "over" ELSE stage[u]]
  /\ UNCHANGED <<calls, timer, prompts, past>>

\* The controls are there until the socket has closed.
endCall ==
  /\ sock \in {"open", "closing"}
  /\ sock' = "closing"
  /\ stopVadRec /\ stopOpenMic
  /\ UNCHANGED <<connected, calls, timer, prompts, transcribing, aiSpeaking>>
  /\ UNCHANGED <<remote, past>>

-----------------------------------------------------------------------------
(* The gateway's messages.  A closing socket delivers none. *)

\* The AI's text or a sound of it; the latter, and a text that is shown for
\* want of one, ends.
speak == /\ aiSpeaking' = TRUE
         /\ quiets' \in {q \in {quiets, quiets + 1} : q <= MaxQuiets}

turnComplete == transcribing' = FALSE /\ ignored' = FALSE

\* The setup is done and the greeting's text is sent.
Greet ==
  /\ sock = "open" /\ greeting = "setup"
  /\ greeting' = "due" /\ aiSpeaking' = TRUE
  /\ UNCHANGED <<page, mic, ears, transcribing, quiets, stage, past>>

\* The greeting's sound, if there is one, and its turn.complete.
Greeted ==
  /\ sock = "open" /\ greeting = "due"
  /\ greeting' = "said"
  /\ speak \/ UNCHANGED <<aiSpeaking, quiets>>
  /\ turnComplete
  /\ UNCHANGED <<page, mic, ears, stage, intruded, late>>

hears(u, from, to) ==
  /\ sock = "open" /\ greeting # "setup"
  /\ stage[u] = from /\ stage' = [stage EXCEPT ![u] = to]
  /\ UNCHANGED <<page, mic, ears, greeting, intruded, late>>

Transcribing(u) ==
  /\ hears(u, "sent", "asr")
  /\ transcribing' = TRUE
  /\ UNCHANGED <<aiSpeaking, quiets, ignored>>

\* The audio is too short, says nothing or is not recognised, or the turn
\* throws: an error message at most.
Ignore(u) ==
  /\ \E from \in {"sent", "asr", "asked"} : hears(u, from, "over")
  /\ ignored' = TRUE
  /\ UNCHANGED gates

\* The caller's text; its translation may follow.
UserTranscript(u) ==
  /\ hears(u, "asr", "asked")
  /\ aiSpeaking' = FALSE
  /\ quiets' \in {q \in {quiets, quiets + 1} : q <= MaxQuiets}
  /\ UNCHANGED <<transcribing, ignored>>

Speak(u) ==
  /\ hears(u, "asked", "asked")
  /\ speak
  /\ UNCHANGED <<transcribing, ignored>>

\* Mutant: a turn that failed sends no turn.complete.
Complete_Silent(u) ==
  /\ hears(u, "asked", "over")
  /\ UNCHANGED <<gates, ignored>>

\* The turn is over, answered or failed.
Complete(u) ==
  /\ hears(u, "asked", "over")
  /\ turnComplete
  /\ UNCHANGED <<aiSpeaking, quiets>>

\* A sound or a timer ends, or a translation arrives.
Quiet ==
  /\ quiets > 0 /\ quiets' = quiets - 1
  /\ aiSpeaking' = FALSE
  /\ UNCHANGED <<page, mic, ears, transcribing, remote, past>>

-----------------------------------------------------------------------------
Turn(u) == Transcribing(u) \/ Ignore(u) \/ UserTranscript(u) \/ Complete(u)

Next ==
  \/ SpeechBegins \/ SpeechEnds \/ TickTranscribing \/ BargeIn \/ BlobRead
  \/ MicDue \/ Prompted \/ toggleMic
  \/ StartCall \/ Started \/ Opened \/ Closed \/ endCall
  \/ Greet \/ Greeted \/ Quiet
  \/ \E u \in Utterances : Turn(u) \/ Speak(u)

Spec == Init /\ [][Next]_vars

(***************************************************************************)
(* The gateway finishes its setup and each turn: its requests time out.    *)
(* Callers and browsers owe nothing.                                       *)
(***************************************************************************)
FairSpec == /\ Spec /\ WF_vars(Greet \/ Greeted)
            /\ \A u \in Utterances : WF_vars(Turn(u))

-----------------------------------------------------------------------------
(* Properties *)

(***************************************************************************)
(* The gates keep the turns of a call apart: two utterances are under way  *)
(* at once only if the caller spoke into a turn or into the greeting,      *)
(* whose turn.complete opens the gate for whatever turn is under way.      *)
(***************************************************************************)
TurnsAreSerial ==
  intruded \/ \A u, v \in Utterances : underWay(u) /\ underWay(v) => u = v

(***************************************************************************)
(* Somebody waits for the end of each recording: while the recorder is on, *)
(* so is the microphone, and the ticks listen for silence.  A caller who   *)
(* interrupts a turn, or to whose speech a second prompt is answered, may  *)
(* be recorded until he speaks again.                                      *)
(***************************************************************************)
RecordingIsEnded ==
  recorder = "on" => vad /\ (vadIsSpeaking \/ intruded \/ late)

(***************************************************************************)
(* The gate opens again: a client that does not listen because it is       *)
(* transcribing will, unless an utterance was ignored.  (Then it stays     *)
(* deaf until a turn that was under way completes or the call ends.)       *)
(***************************************************************************)
CallerIsHeardAgain ==
  (sock = "open" /\ transcribing)
    ~> (~ transcribing \/ sock # "open" \/ ignored)
=============================================================================
