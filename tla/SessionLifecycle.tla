-------------------------- MODULE SessionLifecycle --------------------------
(***************************************************************************)
(* One session: its row and the rows of its turns in the session store,    *)
(* the WebSocket connections the gateway has for it, and the erasure of    *)
(* its caller's data.                                                      *)
(*                                                                         *)
(* Every message starts an activation of an async callback of its          *)
(* connection; a step is what runs between two awaits.  A token is valid   *)
(* for an hour, so a session may be connected to again, or twice at once.  *)
(***************************************************************************)
EXTENDS Naturals, Sequences

CONSTANTS
  Connections,  \* connections to the session, each made once
  MaxMessages,  \* bound: messages that start an activation
  Kinds,        \* kinds of messages: a subset of MessageKinds
  Faults,       \* what may happen: a subset of FaultKinds
  Erasure       \* may the caller's data be erased?

MessageKinds ==
  {"chunk",   \* audio, not final
   "final",   \* audio, final
   "text", "end"}

FaultKinds ==
  {"refused",  \* the store answers a request with an error
   "lost"}     \* a request is lost, or its answer

ASSUME SessionAssumption ==
  /\ MaxMessages \in Nat
  /\ Kinds \subseteq MessageKinds /\ Faults \subseteq FaultKinds
  /\ Erasure \in BOOLEAN

Messages == 1 .. MaxMessages   \* numbered as they arrive

VARIABLES
  phase,          \* sessions.phase, or "erased" when the row is gone
  turns,          \* the rows of transcript_turns
  posted,         \* POSTs of turns under way, which nobody awaits
  socket,         \* the connection, as its close callback sees it
  sessionActive,
  setup,          \* where the connection's setup is
  turnIndex,
  audioBuffer,    \* the messages whose audio is buffered
  received,       \* the messages so far: on which connection, of which kind,
                  \* and whether early, before the setup was done
  pc,             \* where the activation of a message is
  index,          \* currentTurnIndex of its turn
  audio,          \* what is transcribed for it
  orderly,        \* history: have its turns neither overlapped nor failed?
  excused         \* history: was the end not written, or written over?

store   == <<phase, turns, posted>>
link    == <<socket, setup>>
call    == <<sessionActive, turnIndex, audioBuffer>>
work    == <<received, pc, index, audio>>
vars    == <<store, link, call, work, orderly, excused>>

Phases == {"connecting", "active", "escalated", "ended", "erased"}
Over   == {"escalated", "ended", "erased"}
InTurn == {"detect", "turn", "escalate", "reply"}   \* it holds an index

Points == {"none", "wait", "asr", "end", "done"} \union InTurn
Row    == [by : Messages, speaker : {"user", "ai"}, index : Nat]
Note   == [on : Connections, kind : MessageKinds, early : BOOLEAN]

TypeOK ==
  /\ phase \in Phases
  /\ turns \subseteq Row /\ posted \subseteq Row
  /\ socket \in [Connections ->
                   {"none", "open", "video", "closing", "closed"}]
  /\ sessionActive \in [Connections -> BOOLEAN]
  /\ setup \in [Connections -> {"none", "phase", "read", "done"}]
  /\ turnIndex \in [Connections -> Nat]
  /\ audioBuffer \in [Connections -> Seq(Messages)]
  /\ received \in Seq(Note) /\ Len(received) <= MaxMessages
  /\ pc \in [Messages -> Points]
  /\ index \in [Messages -> Nat]
  /\ audio \in [Messages -> Seq(Messages)]
  /\ orderly \in [Connections -> BOOLEAN]
  /\ excused \in BOOLEAN

\* The session was created by POST /v1/sessions; nobody has connected.
Init ==
  /\ phase = "connecting" /\ turns = {} /\ posted = {}
  /\ socket = [k \in Connections |-> "none"]
  /\ sessionActive = [k \in Connections |-> FALSE]
  /\ setup = [k \in Connections |-> "none"]
  /\ turnIndex = [k \in Connections |-> 0]
  /\ audioBuffer = [k \in Connections |-> <<>>]
  /\ received = <<>>
  /\ pc = [m \in Messages |-> "none"]
  /\ index = [m \in Messages |-> 0]
  /\ audio = [m \in Messages |-> <<>>]
  /\ orderly = [k \in Connections |-> TRUE]
  /\ excused = FALSE

-----------------------------------------------------------------------------
(* The session store *)

\* UPDATE ... WHERE id: no row, no effect; the old phase is not looked at.
written(p) == IF phase = "erased" THEN "erased" ELSE p

(***************************************************************************)
(* A request that writes phase p, and whether it is answered.  Nobody      *)
(* looks at the status of the answer.                                      *)
(***************************************************************************)
WritePhase(p, answered) ==
  /\ \/ answered /\ phase' = written(p)
     \/ "refused" \in Faults /\ answered /\ phase' = phase
     \/ "lost" \in Faults /\ ~ answered /\ phase' \in {phase, written(p)}
  /\ UNCHANGED <<turns, posted>>

\* Mutant: the turn does not refer to its session.
addTurn_Unchecked(row) == turns \union {row}

\* The INSERT fails without the session's row, which its foreign key needs.
addTurn(row) == IF phase = "erased" THEN turns ELSE turns \union {row}

\* A POST of a turn arrives, in whatever order, or is lost.
TurnArrives(row) ==
  /\ row \in posted
  /\ posted' = posted \ {row}
  /\ \/ turns' = addTurn(row)
     \/ Faults \cap {"refused", "lost"} # {} /\ UNCHANGED turns
  /\ UNCHANGED <<phase, link, call, work, orderly, excused>>

\* rightToErasure deletes the session's row, and with it the rows that refer
\* to it; the other two DELETEs find nothing left.
Erase ==
  /\ Erasure /\ phase # "erased"
  /\ phase' = "erased" /\ turns' = {}
  /\ UNCHANGED <<posted, link, call, work, orderly, excused>>

-----------------------------------------------------------------------------
(* The connection: setup and end *)

Connect(k) ==
  /\ socket[k] = "none"
  /\ socket' = [socket EXCEPT ![k] = "open"]
  /\ setup' = [setup EXCEPT ![k] = "phase"]
  /\ sessionActive' = [sessionActive EXCEPT ![k] = TRUE]
  /\ UNCHANGED <<store, turnIndex, audioBuffer, work,
                 orderly, excused>>

\* Mutant: an error leaves the setup unfinished.
SetupPhase_Throws(k) ==
  /\ setup[k] = "phase"
  /\ \E answered \in BOOLEAN :
       /\ WritePhase("active", answered)
       /\ setup' = [setup EXCEPT ![k] = IF answered THEN "read" ELSE "none"]
  /\ excused' = (excused \/ ~ sessionActive[k])
  /\ UNCHANGED <<socket, call, work, orderly>>

\* The PATCH to 'active', whatever happened to the session meanwhile; a
\* failure skips the rest of the setup.
SetupPhase(k) ==
  /\ setup[k] = "phase"
  /\ \E answered \in BOOLEAN :
       /\ WritePhase("active", answered)
       /\ setup' = [setup EXCEPT ![k] = IF answered THEN "read" ELSE "done"]
  /\ excused' = (excused \/ ~ sessionActive[k])
  /\ UNCHANGED <<socket, call, work, orderly>>

\* The configuration and the history were read, or could not be.
SetupDone(k) ==
  /\ setup[k] = "read"
  /\ setup' = [setup EXCEPT ![k] = "done"]
  /\ UNCHANGED <<store, socket, call, work, orderly, excused>>

\* Mutant: a phase of its own, which SessionPhase does not have.
endSession_Completed(k) ==
  /\ \E answered \in BOOLEAN : WritePhase("completed", answered)
  /\ excused' = (excused \/ phase' \notin {"ended", "erased"})
  /\ sessionActive' = [sessionActive EXCEPT ![k] = FALSE]

\* POST /end, answered or not: the phase becomes 'ended' whatever it was, for
\* the gateway sends no summary, and the connection accepts no more messages.
endSession(k) ==
  /\ \E answered \in BOOLEAN : WritePhase("ended", answered)
  /\ excused' = (excused \/ phase' \notin {"ended", "erased"})
  /\ sessionActive' = [sessionActive EXCEPT ![k] = FALSE]

\* Mutant: nothing is ended while the setup runs.
endCall_AfterSetup(k) ==
  socket' = [socket EXCEPT ![k] =
               IF sessionActive[k] /\ setup[k] = "done"
               THEN "closing" ELSE "closed"]

\* The close callback ends the session, unless that has happened.
endCall(k) ==
  socket' = [socket EXCEPT ![k] =
               IF sessionActive[k] THEN "closing" ELSE "closed"]

\* The socket closes; the end of the video call, if there is one, is awaited.
Close(k) ==
  /\ socket[k] = "open"
  /\ endCall(k) \/ socket' = [socket EXCEPT ![k] = "video"]
  /\ UNCHANGED <<store, setup, call, work, orderly, excused>>

VideoEnded(k) ==
  /\ socket[k] = "video"
  /\ endCall(k)
  /\ UNCHANGED <<store, setup, call, work, orderly, excused>>

CloseAnswered(k) ==
  /\ socket[k] = "closing"
  /\ socket' = [socket EXCEPT ![k] = "closed"]
  /\ endSession(k)
  /\ UNCHANGED <<setup, turnIndex, audioBuffer, work, orderly>>

-----------------------------------------------------------------------------
(* The message callback *)

on(m) == received[m].on

at(m, point) == pc' = [pc EXCEPT ![m] = point]

\* Message m takes the index of its turn.  Whoever holds one on connection k
\* has not advanced turnIndex yet.
holdIndex(m, k) ==
  /\ index' = [index EXCEPT ![m] = turnIndex[k]]
  /\ orderly' = [orderly EXCEPT ![k] =
       @ /\ \A n \in DOMAIN received : on(n) = k => pc[n] \notin InTurn]

\* Mutant: the buffer is emptied only if its audio is transcribed.
Final_EmptyLater(m, k, buffered) ==
  \/ /\ at(m, "done")
     /\ audioBuffer' = [audioBuffer EXCEPT ![k] = buffered]
     /\ UNCHANGED audio
  \/ /\ at(m, "asr")
     /\ audio' = [audio EXCEPT ![m] = buffered]
     /\ audioBuffer' = [audioBuffer EXCEPT ![k] = buffered]

\* A final chunk takes the buffer with it, to be transcribed or, if it is too
\* short, to be dropped.
Final(m, k, buffered) ==
  /\ audioBuffer' = [audioBuffer EXCEPT ![k] = <<>>]
  /\ \/ at(m, "done") /\ UNCHANGED audio
     \/ at(m, "asr") /\ audio' = [audio EXCEPT ![m] = buffered]

\* Message m of connection k is processed up to its first await.
Process(m, k, kind) ==
  LET buffered == Append(audioBuffer[k], m)
  IN \/ /\ kind = "chunk" /\ at(m, "done")
        /\ audioBuffer' = [audioBuffer EXCEPT ![k] = buffered]
        /\ UNCHANGED <<index, audio, orderly>>
     \/ /\ kind = "final" /\ Final(m, k, buffered)
        /\ UNCHANGED <<index, orderly>>
     \/ /\ kind = "text" /\ at(m, "detect") /\ holdIndex(m, k)
        /\ UNCHANGED <<audioBuffer, audio>>
     \/ /\ kind = "end" /\ at(m, "end")
        /\ UNCHANGED <<audioBuffer, audio, index, orderly>>

Arrives(m, k, kind) ==
  /\ Len(received) < MaxMessages /\ m = Len(received) + 1
  /\ socket[k] = "open" /\ sessionActive[k]
  /\ received' = Append(received,
       [on |-> k, kind |-> kind, early |-> setup[k] # "done"])
  /\ UNCHANGED <<store, link, sessionActive, turnIndex, excused>>

(***************************************************************************)
(* A message arrives.  Before the setup is done it sleeps, on a timer of   *)
(* its own.                                                                *)
(***************************************************************************)
Receive(k) ==
  \E m \in Messages, kind \in Kinds :
    /\ Arrives(m, k, kind)
    /\ IF setup[k] = "done" THEN Process(m, k, kind)
       ELSE at(m, "wait") /\ UNCHANGED <<audioBuffer, audio, index, orderly>>

\* A sleeping message finds the session over, or the setup done.
Wake(m) ==
  /\ pc[m] = "wait"
  /\ \/ /\ ~ sessionActive[on(m)] /\ at(m, "done")
        /\ UNCHANGED <<audioBuffer, audio, index, orderly>>
     \/ /\ sessionActive[on(m)] /\ setup[on(m)] = "done"
        /\ Process(m, on(m), received[m].kind)
  /\ UNCHANGED <<store, link, sessionActive, turnIndex, received, excused>>

-----------------------------------------------------------------------------
(* The turn of a message *)

row(m, speaker, i) == [by |-> m, speaker |-> speaker, index |-> i]

\* The user's row is posted; nobody awaits its answer.
StartTurn(m, i) == at(m, "turn") /\ posted' = posted \union {row(m, "user", i)}

\* The transcription is back: a text, for which the index is read now, or
\* nothing (blank, refused, failed).
Transcribed(m) ==
  /\ pc[m] = "asr"
  /\ \/ holdIndex(m, on(m)) /\ StartTurn(m, turnIndex[on(m)])
     \/ at(m, "done") /\ UNCHANGED <<posted, index, orderly>>
  /\ UNCHANGED <<phase, turns, link, call, received, audio, excused>>

\* The language of a text is known, or the request has failed; its index was
\* read before.
Detected(m) ==
  /\ pc[m] = "detect"
  /\ \/ StartTurn(m, index[m])
     \/ "lost" \in Faults /\ at(m, "done") /\ UNCHANGED posted
  /\ UNCHANGED <<phase, turns, link, call, received, index, audio,
                 orderly, excused>>

\* A request of the turn throws out of it: turnIndex is not advanced.
FailTurn(m) ==
  /\ pc[m] = "turn" /\ "lost" \in Faults
  /\ at(m, "done")
  /\ orderly' = [orderly EXCEPT ![on(m)] = FALSE]
  /\ UNCHANGED <<store, link, call, received, index, audio, excused>>

\* The orchestrator decides to escalate.
Escalate(m) ==
  /\ pc[m] = "turn"
  /\ at(m, "escalate")
  /\ UNCHANGED <<store, link, call, received, index, audio, orderly, excused>>

Escalated(m) ==
  /\ pc[m] = "escalate"
  /\ \/ WritePhase("escalated", TRUE) /\ at(m, "reply") /\ UNCHANGED orderly
     \/ /\ WritePhase("escalated", FALSE) /\ at(m, "done")
        /\ orderly' = [orderly EXCEPT ![on(m)] = FALSE]
  /\ UNCHANGED <<link, call, received, index, audio, excused>>

\* Mutant: a turn counts once.
FinishTurn_ByOne(m) ==
  /\ pc[m] \in {"turn", "reply"}
  /\ at(m, "done")
  /\ posted' = posted \union {row(m, "ai", index[m] + 1)}
  /\ turnIndex' = [turnIndex EXCEPT ![on(m)] = @ + 1]
  /\ UNCHANGED <<phase, turns, link, sessionActive, audioBuffer,
                 received, index, audio, orderly, excused>>

\* The answer's row is posted, unless there was no decision, and the turn
\* ends.
FinishTurn(m) ==
  /\ pc[m] \in {"turn", "reply"}
  /\ at(m, "done")
  /\ \/ posted' = posted \union {row(m, "ai", index[m] + 1)}
     \/ pc[m] = "turn" /\ UNCHANGED posted
  /\ turnIndex' = [turnIndex EXCEPT ![on(m)] = @ + 2]
  /\ UNCHANGED <<phase, turns, link, sessionActive, audioBuffer,
                 received, index, audio, orderly, excused>>

EndAnswered(m) ==
  /\ pc[m] = "end"
  /\ endSession(on(m)) /\ at(m, "done")
  /\ UNCHANGED <<link, turnIndex, audioBuffer, received, index, audio,
                 orderly>>

-----------------------------------------------------------------------------
ConnectionStep(k) ==
  SetupPhase(k) \/ SetupDone(k) \/ VideoEnded(k) \/ CloseAnswered(k)

MessageStep(m) ==
  \/ Wake(m) \/ Transcribed(m) \/ Detected(m)
  \/ FailTurn(m) \/ Escalate(m) \/ Escalated(m) \/ FinishTurn(m)
  \/ EndAnswered(m)

Next ==
  \/ \E k \in Connections :
       Connect(k) \/ Receive(k) \/ Close(k) \/ ConnectionStep(k)
  \/ \E m \in DOMAIN received : MessageStep(m)
  \/ \E r \in posted : TurnArrives(r)
  \/ Erase

Spec == Init /\ [][Next]_vars

\* Requests end, if only by the timeouts of the runtime; callers owe nothing.
FairSpec ==
  /\ Spec
  /\ \A k \in Connections : WF_vars(ConnectionStep(k))
  /\ \A m \in Messages : WF_vars(m \in DOMAIN received /\ MessageStep(m))

-----------------------------------------------------------------------------
(* Properties *)

(***************************************************************************)
(* Erasure deletes every turn of the session, and no turn in flight then   *)
(* (POSTs that nobody awaits, activations that go on) brings one back.     *)
(***************************************************************************)
ErasedStaysErased == phase = "erased" => turns = {}

Buffers == {audioBuffer[k] : k \in Connections}
             \union {audio[m] : m \in DOMAIN received}

(***************************************************************************)
(* A chunk of audio belongs to one utterance: the callback that takes the  *)
(* buffer empties it before its first await, so no chunk that arrives      *)
(* during a transcription is transcribed with the old ones, or twice.      *)
(***************************************************************************)
ChunksOnce ==
  /\ \A b \in Buffers : \A i, j \in DOMAIN b : b[i] = b[j] => i = j
  /\ \A m, n \in DOMAIN received : \A i \in DOMAIN audio[m] :
       /\ \A j \in DOMAIN audio[n] : audio[m][i] = audio[n][j] => m = n
       /\ \A k \in Connections : \A j \in DOMAIN audioBuffer[k] :
            audioBuffer[k][j] # audio[m][i]

(***************************************************************************)
(* Audio is buffered in the order it arrived, although every message has   *)
(* an activation of its own; only messages that slept through the setup    *)
(* are overtaken.                                                          *)
(***************************************************************************)
AudioInOrder ==
  \A b \in Buffers : \A i, j \in DOMAIN b :
    i < j /\ b[i] > b[j] => received[b[j]].early

(***************************************************************************)
(* What the caller said reaches the recognition whole: no chunk twice,     *)
(* none out of its place, whatever activations run meanwhile.              *)
(***************************************************************************)
AudioIsKept == ChunksOnce /\ AudioInOrder

(***************************************************************************)
(* Turns that neither overlap nor fail store distinct indices, whatever    *)
(* the order in which their rows arrive: getTurns sorts by them.           *)
(***************************************************************************)
OrderlyIndices ==
  \A r, s \in turns \union posted :
    on(r.by) = on(s.by) /\ orderly[on(r.by)] /\ r.index = s.index => r = s

AtRest ==
  /\ \A k \in Connections :
       socket[k] \in {"none", "closed"} /\ setup[k] \in {"none", "done"}
  /\ \A m \in DOMAIN received : pc[m] = "done"

(***************************************************************************)
(* When every connection is closed and nothing runs, the session is over   *)
(* and the dashboard counts it as active no more: unless the store lost    *)
(* the end, or a setup wrote 'active' after its connection had ended.      *)
(***************************************************************************)
ClosedSessionIsOver ==
  AtRest /\ (\E k \in Connections : socket[k] = "closed") /\ ~ excused
    => phase \in Over

\* Every message is processed or refused in the end, also when the store is
\* down during the setup it waits for.
MessagesFinish ==
  \A m \in Messages : (pc[m] # "none") ~> (pc[m] = "done")
=============================================================================
