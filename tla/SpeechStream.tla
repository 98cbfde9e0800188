---------------------------- MODULE SpeechStream ----------------------------
(***************************************************************************)
(* One turn from the language model to the caller's ear: text that arrives *)
(* in chunks, the gateway that cuts it into sentences and has each spoken  *)
(* by STORM TTS, and the audio messages it sends, up to turn.complete.     *)
(*                                                                         *)
(* A text is a sequence of words, numbered as the model produces them, of  *)
(* Stop, a run of ".", "!" or "?", and of Blank, a run of white space.  A  *)
(* chunk may begin and end anywhere: a word may be a part of a written     *)
(* one, which goes on as long as no Blank or Stop follows.                 *)
(*                                                                         *)
(* The gateway reads the orchestrator's events one by one and reads none   *)
(* while a sentence is being spoken, so a chunk is produced when it is     *)
(* read.  Left out are texts that begin with a stop, and stops with white  *)
(* space before them.                                                      *)
(***************************************************************************)
EXTENDS Integers, Sequences, FiniteSets, SequencesExt

CONSTANTS
  Shapes,     \* shapes of a chunk: sequences of "w", "." and "b"
  MaxChunks,  \* bound: chunks of the stream
  MaxPieces,  \* bound: separately synthesised pieces of a fixed sentence
  Faults      \* what may happen: a subset of FaultKinds

FaultKinds ==
  {"tts",          \* the synthesis of a sentence fails
   "model",        \* the model does not stream, or its stream breaks
   "mixed",        \* the model calls a tool after it has streamed text
   "orchestrator"} \* the orchestrator refuses, fails or is lost

ASSUME SpeechAssumption == /\ MaxChunks \in Nat /\ MaxPieces \in Nat \ {0}
                           /\ Shapes \subseteq Seq({"w", ".", "b"})
                           /\ Faults \subseteq FaultKinds

\* No chunk is blank (orchestrator-service.ts:416).
ASSUME ShapesAssumption ==
  \A shape \in Shapes :
    /\ \E i \in DOMAIN shape : shape[i] # "b"
    /\ \A i \in 2 .. Len(shape) : shape[i] = "." => shape[i - 1] # "b"

Stop  == 0
Blank == -1
Token == Nat \union {Blank}

VARIABLES
  voice,       \* is STORM TTS configured?
  pc,          \* where the turn is
  text,        \* aiText: what was streamed so far
  textBuffer,  \* what of it is not yet spoken
  sentences,   \* the sentences of the flush, or the pieces of the prompt
  next,        \* which of them is spoken next
  finalFlush,  \* is it the flush after the stream's end?
  decision,    \* the type of the orchestrator's decision
  answer,      \* the text of the transcript: what the caller is told
  audio,       \* the audio messages of the turn
  chunks,      \* chunks so far
  tidy,        \* history: has every chunk so far been tidy?
  ttsFailed,   \* history: did a synthesis fail?
  whole        \* history: did the answer come from the stream alone?

vars == <<voice, pc, text, textBuffer, sentences, next, finalFlush, decision,
          answer, audio, chunks, tidy, ttsFailed, whole>>
stream  == <<text, chunks, tidy>>
flush   == <<sentences, next, finalFlush>>
verdict == <<decision, answer, whole>>

Control   == {"stream", "flush", "answer", "prompt", "mark", "complete"}
Decisions == {"none", "respond", "fixed"}   \* fixed: action, escalate, clarify
Message   == [words : Seq(Token), isLast : BOOLEAN,
              kind : {"speech", "marker", "textFallback"}]

speech(s, last) == [words |-> s, isLast |-> last, kind |-> "speech"]
marker       == [words |-> <<>>, isLast |-> TRUE, kind |-> "marker"]
textFallback == [words |-> <<>>, isLast |-> TRUE, kind |-> "textFallback"]

TypeOK ==
  /\ voice \in BOOLEAN
  /\ pc \in Control
  /\ text \in Seq(Token) /\ textBuffer \in Seq(Token) /\ answer \in Seq(Token)
  /\ sentences \in Seq(Seq(Token))
  /\ next \in 1 .. Len(sentences) + 1
  /\ pc = "prompt" => next <= Len(sentences)
  /\ finalFlush \in BOOLEAN
  /\ decision \in Decisions
  /\ audio \in Seq(Message)
  /\ chunks \in 0 .. MaxChunks
  /\ tidy \in BOOLEAN /\ ttsFailed \in BOOLEAN /\ whole \in BOOLEAN

Init ==
  /\ voice \in BOOLEAN
  /\ pc = "stream"
  /\ text = <<>> /\ textBuffer = <<>> /\ answer = <<>>
  /\ sentences = <<>> /\ next = 1 /\ finalFlush = FALSE
  /\ decision = "none"
  /\ audio = <<>>
  /\ chunks = 0
  /\ tidy = TRUE /\ ttsFailed = FALSE /\ whole = TRUE

-----------------------------------------------------------------------------
isWord(x) == x > 0

\* The words of a text.
Words(t) == {x \in {t[i] : i \in DOMAIN t} : isWord(x)}

\* The place of i among the members of S, and the member at a place.
Rank(S, i) == Cardinality({j \in S : j <= i})
At(S, k)   == CHOOSE i \in S : Rank(S, i) = k

\* The text of a chunk of the given shape, its words numbered from k + 1.
Numbered(shape, k) ==
  LET words == {i \in DOMAIN shape : shape[i] = "w"}
  IN [i \in DOMAIN shape |-> CASE i \in words      -> k + Rank(words, i)
                              [] shape[i] = "." -> Stop
                              [] shape[i] = "b" -> Blank]

\* If the chunk has a stop, no white space follows a word after the last one.
Tidy(shape) ==
  Contains(shape, ".") =>
    \A i, j \in DOMAIN shape :
      i < j /\ shape[i] = "w" /\ shape[j] = "b"
        => \E k \in DOMAIN shape : i < k /\ shape[k] = "."

\* The part of t from a to b without the white space around it.
trim(t, a, b) ==
  LET shown == {i \in a .. b : t[i] # Blank}
  IN IF shown = {} THEN <<>> ELSE SubSeq(t, Min(shown), Max(shown))

\* Where a sentence ends: at the last of several stops in a row.
Ends(t) == {i \in DOMAIN t : t[i] = Stop /\ (i = Len(t) \/ t[i + 1] # Stop)}

\* The word at the very end of t, if t ends with one.
Run(t) == {i \in DOMAIN t : \A j \in i .. Len(t) : isWord(t[j])}

(***************************************************************************)
(* splitSentences: /[^.!?]+[.!?]+|\S+$/g, each match trimmed.  A sentence  *)
(* ends with its stops.  What follows the last stop matches only the       *)
(* second alternative, which reaches to the end of the text and holds no   *)
(* white space: the words before a last word are skipped, and so is the    *)
(* last word, if white space follows it.                                   *)
(***************************************************************************)
splitSentences(t) ==
  LET end(k)   == At(Ends(t), k)
      start(k) == IF k = 1 THEN 1 ELSE end(k - 1) + 1
      closed   == [k \in 1 .. Cardinality(Ends(t)) |->
                     trim(t, start(k), end(k))]
      rest     == IF Run(t) = {} THEN <<>>
                  ELSE <<SubSeq(t, Min(Run(t)), Len(t))>>
  IN closed \o rest

-----------------------------------------------------------------------------
(***************************************************************************)
(* A text event.  A chunk without a stop is only buffered; with one, every *)
(* sentence but the last is spoken and the last replaces the buffer.       *)
(***************************************************************************)
Chunk(shape) ==
  LET new    == Numbered(shape, Cardinality(Words(text)))
      buffer == textBuffer \o new
      split  == splitSentences(buffer)
  IN /\ pc = "stream" /\ chunks < MaxChunks
     /\ shape[1] = "." => text # <<>> /\ Last(text) # Blank
     /\ chunks' = chunks + 1
     /\ text' = text \o new
     /\ tidy' = (tidy /\ Tidy(shape))
     /\ \/ /\ ~ Contains(new, Stop)
           /\ textBuffer' = buffer
           /\ UNCHANGED <<pc, flush>>
        \/ /\ Contains(new, Stop) /\ Len(split) = 1
           /\ textBuffer' = Last(split)
           /\ UNCHANGED <<pc, flush>>
        \/ /\ Contains(new, Stop) /\ Len(split) > 1
           /\ textBuffer' = buffer
           /\ pc' = "flush"
           /\ sentences' = split /\ next' = 1 /\ finalFlush' = FALSE
     /\ UNCHANGED <<verdict, audio, ttsFailed, voice>>

completeCount == IF finalFlush THEN Len(sentences) ELSE Len(sentences) - 1

send(m) == audio' = Append(audio, m)

\* The sentence is synthesised and sent.
generated(s, last) == send(speech(s, last)) /\ UNCHANGED ttsFailed

\* The synthesis fails and nothing is sent.
failed == "tts" \in Faults /\ ttsFailed' = TRUE /\ UNCHANGED audio

\* Without STORM TTS nothing is done.
ttsAndSend(s, last) ==
  \/ ~ voice /\ UNCHANGED <<audio, ttsFailed>>
  \/ voice /\ (generated(s, last) \/ failed)

\* Mutant: the flush leaves the buffer as it was.
Flush_KeepBuffer ==
  /\ pc = "flush"
  /\ ttsAndSend(sentences[next], finalFlush /\ next = Len(sentences))
  /\ next' = next + 1
  /\ IF next < completeCount THEN UNCHANGED pc
     ELSE pc' = IF finalFlush THEN "mark" ELSE "stream"
  /\ UNCHANGED <<stream, verdict, textBuffer, sentences, finalFlush, voice>>

\* Mutant: the last sentence is neither spoken nor kept.
Flush_Forget ==
  /\ pc = "flush"
  /\ ttsAndSend(sentences[next], finalFlush /\ next = Len(sentences))
  /\ next' = next + 1
  /\ \/ next < completeCount /\ UNCHANGED <<pc, textBuffer>>
     \/ /\ next = completeCount
        /\ pc' = IF finalFlush THEN "mark" ELSE "stream"
        /\ textBuffer' = <<>>
  /\ UNCHANGED <<stream, verdict, sentences, finalFlush, voice>>

Flush ==
  /\ pc = "flush"
  /\ ttsAndSend(sentences[next], finalFlush /\ next = Len(sentences))
  /\ next' = next + 1
  /\ \/ next < completeCount /\ UNCHANGED <<pc, textBuffer>>
     \/ /\ next = completeCount
        /\ pc' = IF finalFlush THEN "mark" ELSE "stream"
        /\ textBuffer' = IF finalFlush THEN <<>> ELSE Last(sentences)
  /\ UNCHANGED <<stream, verdict, sentences, finalFlush, voice>>

-----------------------------------------------------------------------------
Decide(type, told, fromStream) ==
  /\ pc' = "answer"
  /\ decision' = type
  /\ answer' = told
  /\ whole' = fromStream
  /\ UNCHANGED <<stream, textBuffer, flush, audio, ttsFailed, voice>>

\* n words that were never streamed.
Unstreamed(n) == [i \in 1 .. n |-> Cardinality(Words(text)) + i]

\* The stream ends: its text, trimmed, is the response.
Respond ==
  /\ pc = "stream"
  /\ Decide("respond", trim(text, 1, Len(text)), TRUE)

(***************************************************************************)
(* An action, an escalation, a question back, or the outcome of a          *)
(* confirmation: the text is fixed.  The model may have streamed before    *)
(* it called the tool.                                                     *)
(***************************************************************************)
DecideFixed(n) ==
  /\ pc = "stream"
  /\ text = <<>> \/ "mixed" \in Faults
  /\ Decide("fixed", Unstreamed(n), FALSE)

(***************************************************************************)
(* The response comes from complete(), after none or some chunks, or from  *)
(* /process: nothing of it is streamed.                                    *)
(***************************************************************************)
RespondAtOnce ==
  /\ pc = "stream" /\ "model" \in Faults
  /\ Decide("respond", Append(Unstreamed(1), Stop), FALSE)

\* No result: error and turn.complete, whatever was spoken by then.
NoResult ==
  /\ pc = "stream" /\ "orchestrator" \in Faults
  /\ pc' = "complete"
  /\ whole' = FALSE
  /\ UNCHANGED <<stream, textBuffer, flush, decision, answer, audio, ttsFailed,
                 voice>>

-----------------------------------------------------------------------------
\* Mutant: without STORM TTS only the marker is sent.
SendText_Marker ==
  /\ pc = "answer" /\ ~ voice
  /\ send(marker)
  /\ pc' = "complete"
  /\ UNCHANGED <<stream, verdict, textBuffer, flush, ttsFailed, voice>>

\* No STORM TTS: the text itself is sent.
SendText ==
  /\ pc = "answer" /\ ~ voice
  /\ send(textFallback)
  /\ pc' = "complete"
  /\ UNCHANGED <<stream, verdict, textBuffer, flush, ttsFailed, voice>>

\* A streamed response: flush what is left, if that holds a sentence.
FlushRest ==
  LET split == splitSentences(textBuffer)
  IN /\ pc = "answer" /\ voice /\ decision = "respond" /\ textBuffer # <<>>
     /\ \/ /\ split # <<>>
           /\ pc' = "flush"
           /\ sentences' = split /\ next' = 1 /\ finalFlush' = TRUE
        \/ /\ split = <<>>
           /\ pc' = "mark"
           /\ UNCHANGED flush
     /\ UNCHANGED <<stream, verdict, textBuffer, audio, ttsFailed, voice>>

\* A fixed text: generateStream speaks it piece by piece.
StartPrompt ==
  /\ pc = "answer" /\ voice /\ decision = "fixed"
  /\ pc' = "prompt"
  /\ sentences' = [i \in DOMAIN answer |-> <<answer[i]>>] /\ next' = 1
  /\ UNCHANGED <<stream, verdict, textBuffer, finalFlush, audio, ttsFailed,
                 voice>>

\* Mutant: the loop runs one piece too far.
Piece_Overrun ==
  /\ pc = "prompt"
  /\ generated(sentences[next], FALSE) \/ failed
  /\ \/ next <= Len(sentences) /\ next' = next + 1 /\ UNCHANGED pc
     \/ next > Len(sentences) /\ pc' = "mark" /\ UNCHANGED next
  /\ UNCHANGED <<stream, verdict, textBuffer, sentences, finalFlush, voice>>

(***************************************************************************)
(* A piece that fails is skipped, unless it is the only one: then generate *)
(* throws out of generateStream, and past the end marker.                  *)
(***************************************************************************)
Piece ==
  /\ pc = "prompt"
  /\ \/ /\ next < Len(sentences)
        /\ generated(sentences[next], FALSE) \/ failed
        /\ next' = next + 1
        /\ UNCHANGED pc
     \/ /\ next = Len(sentences)
        /\ \/ generated(sentences[next], FALSE) /\ pc' = "mark"
           \/ failed /\ pc' = IF Len(sentences) = 1 THEN "complete" ELSE "mark"
        /\ UNCHANGED next
  /\ UNCHANGED <<stream, verdict, textBuffer, sentences, finalFlush, voice>>

\* A response of which nothing is in the buffer: only the end marker.
NothingToSpeak ==
  /\ pc = "answer" /\ voice /\ decision = "respond" /\ textBuffer = <<>>
  /\ send(marker)
  /\ pc' = "complete"
  /\ UNCHANGED <<stream, verdict, textBuffer, flush, ttsFailed, voice>>

\* Mutant: the end marker is only sent after speech.
Mark_AfterSpeech ==
  /\ pc = "mark" /\ audio # <<>>
  /\ send(marker)
  /\ pc' = "complete"
  /\ UNCHANGED <<stream, verdict, textBuffer, flush, ttsFailed, voice>>

\* Mutant: no marker if a sentence was flagged last already.
Mark_Once ==
  /\ pc = "mark"
  /\ IF audio # <<>> /\ Last(audio).isLast THEN UNCHANGED audio
     ELSE send(marker)
  /\ pc' = "complete"
  /\ UNCHANGED <<stream, verdict, textBuffer, flush, ttsFailed, voice>>

Mark ==
  /\ pc = "mark"
  /\ send(marker)
  /\ pc' = "complete"
  /\ UNCHANGED <<stream, verdict, textBuffer, flush, ttsFailed, voice>>

Speak == \/ Flush \/ FlushRest \/ StartPrompt \/ Piece \/ NothingToSpeak \/ Mark
         \/ SendText

Next ==
  \/ \E shape \in Shapes : Chunk(shape)
  \/ \E n \in 1 .. MaxPieces : DecideFixed(n)
  \/ Respond \/ RespondAtOnce \/ NoResult
  \/ Speak

Spec == Init /\ [][Next]_vars

(***************************************************************************)
(* The stream ends, breaks or times out after 30 seconds, a synthesis      *)
(* after 60: no await of the turn lasts forever.                           *)
(***************************************************************************)
FairSpec == Spec /\ WF_vars(Next)

-----------------------------------------------------------------------------
Spoken == UNION {Words(audio[i].words) : i \in DOMAIN audio}

(***************************************************************************)
(* What is spoken is spoken in the order of the text and never twice,      *)
(* although every flush puts its last sentence back into the buffer        *)
(* (server.ts:1140-1154, 1199-1206).                                       *)
(***************************************************************************)
SpokenInOrder ==
  \A i, j \in DOMAIN audio :
    \A k \in DOMAIN audio[i].words, l \in DOMAIN audio[j].words :
      LET w == audio[i].words[k]
          x == audio[j].words[l]
      IN (i < j \/ (i = j /\ k < l)) /\ isWord(w) /\ isWord(x) => w < x

(***************************************************************************)
(* "Keep the last incomplete sentence in the buffer" (server.ts:1140):     *)
(* until the final flush, what is not yet spoken is in the buffer.  The    *)
(* code does not keep this where a chunk ends one sentence and goes on     *)
(* with a word and white space: that word is dropped.                      *)
(***************************************************************************)
NothingDropped ==
  pc \in {"stream", "answer"} /\ voice /\ ~ ttsFailed
    => /\ Spoken \union Words(textBuffer) = Words(text)
       /\ Spoken \intersect Words(textBuffer) = {}

(***************************************************************************)
(* So it is while the cut is harmless: as long as no white space follows a *)
(* word after a chunk's last stop (server.ts:1093, 1136-1154).             *)
(***************************************************************************)
TidyTextKept == tidy => NothingDropped

\* Every word of t is followed by a stop, sooner or later.
Closed(t) ==
  \A i \in DOMAIN t :
    isWord(t[i]) => \E j \in DOMAIN t : i < j /\ t[j] = Stop

(***************************************************************************)
(* A streamed response whose last word is followed by a stop is spoken     *)
(* completely, over however many flushes and whatever white space is at    *)
(* its end (server.ts:1136-1154, 1375-1385).                               *)
(***************************************************************************)
WholeAnswerSpoken ==
  pc = "complete" /\ voice /\ ~ ttsFailed /\ tidy /\ whole /\ Closed(text)
    => Spoken = Words(answer)

(***************************************************************************)
(* Between the stream and the voice no word is lost, on the way or at the  *)
(* end, over however many flushes, as long as the cut is harmless.         *)
(***************************************************************************)
TextIsKept == TidyTextKept /\ WholeAnswerSpoken

(***************************************************************************)
(* The end marker ends the turn's audio: nothing follows it, and a turn    *)
(* with a result lacks it only if its answer is a fixed text of one piece  *)
(* and that piece was not spoken (server.ts:1382-1412).  The client passes *)
(* the end on to the avatar, which otherwise keeps listening for more.     *)
(***************************************************************************)
MarkerEndsAudio ==
  LET marks == {i \in DOMAIN audio : audio[i].kind = "marker"}
  IN /\ \A i \in marks : i = Len(audio)
     /\ pc = "complete" /\ voice /\ decision # "none" /\ marks = {}
          => /\ decision = "fixed" /\ Len(answer) = 1
             /\ answer[1] \notin Spoken

(***************************************************************************)
(* "The gateway always sends audio (or textFallback if STORM fails)"       *)
(* (live.html:839): whoever was given an answer hears or is sent it.       *)
(***************************************************************************)
EveryAnswerIsSent ==
  pc = "complete" /\ answer # <<>>
    => \E i \in DOMAIN audio : audio[i].kind # "marker"

(***************************************************************************)
(* Where that does hold: without STORM TTS for every answer, and with it,  *)
(* while synthesis works, for fixed texts and for streamed answers that    *)
(* have a stop or end with a word.  A streamed "Hello there " has neither  *)
(* and is not spoken at all (server.ts:1093, 1136-1138, 1374-1424).        *)
(***************************************************************************)
StreamedAnswerIsSent ==
  LET due == \/ ~ voice
             \/ ~ ttsFailed /\ decision = "fixed"
             \/ ~ ttsFailed /\ whole
                  /\ (Contains(text, Stop) \/ Run(text) # {})
  IN due => EveryAnswerIsSent

(***************************************************************************)
(* The turn completes whatever fails: synthesis, stream or orchestrator    *)
(* (server.ts:1156-1240, 1374-1426).                                       *)
(***************************************************************************)
TurnCompletes == <>(pc = "complete")
=============================================================================
