# A verification project for Àdùnní

Àdùnní is a voice agent for bank callers: a web client or an embedded widget
sends audio over a WebSocket to a gateway, which has it transcribed, asks an
orchestrator (a language model) what to do, performs actions on the client
bank's backend through an executor, stores turns and actions in Postgres through
a session store, and speaks the answer. This directory holds TLA+ modules that
model its core, the TLC configurations that check them, and theorems that TLAPS
proves about them. `PROJECT.json` lists the components, the runs, a mutant for
each property, the map from definitions to source lines, the hazards and the
findings.

Paths are relative to `src/packages/` unless they begin with `src/`; `server.ts`
alone is `api-gateway/src/server.ts`.

## 1. Inventory

| Component | State it keeps | Operations | Hard behaviour | Correct if |
|---|---|---|---|---|
| Gateway, connection (`server.ts:663-937`, `1429-1440`) | per connection: `turnIndex`, `audioBuffer`, `config`, `sessionActive`, `setupDone`, partial timer, `lastPartialText`, `detectedLanguage` | audio, text, video, end messages; close; setup | the message callback is `async` and not serialised; early messages poll every 10 ms; end, close and setup race | a session ends once and stays ended; turns have distinct indices; an accepted message is processed or refused, never forgotten |
| Gateway, action path of a turn (`server.ts:961-1427`) | the turn's `context`, `actionId`; `ws.speculativeContext` shared by the turns of a connection | read context, ask the orchestrator, create the action, execute, answer | stale contexts, overlapping turns, partial failure | nothing is performed without consent or twice; what the caller is told is true |
| Gateway, speech (`server.ts:1092-1154`, `1199-1206`, `1371-1424`; `api-gateway/src/storm-tts.ts`) | `textBuffer`, `aiText`, `ttsDone`, cache of audio | cut sentences, synthesise, send, mark the end | text arrives in chunks; synthesis fails | the answer is spoken once, in order, whole, and its end is marked |
| Gateway, REST (`server.ts:300-640`) | none of its own | sessions, transcript, summary, actions, config, webhooks, erasure, video | read-modify-write of the configuration | no update is lost |
| Orchestrator (`orchestrator/src/orchestrator-service.ts`, `server.ts`) | none | `process`, `processStream` | two forms of one decision | both forms decide the same |
| Gemini provider (`orchestrator/src/gemini-llm.ts`) | `apiKeys`, `currentKeyIndex` shared by all requests | `complete`, `streamComplete` | retries nested three deep, a shared index | a key with quota is found; every call settles |
| Action executor (`action-executor/src/`) | `rateLimitMap` | `execute` | webhook done but row not written; lost answers | a row says executed only if it was |
| Session store (`session-store/src/`, `sql/init.sql`) | `sessions`, `transcript_turns`, `action_logs` | CRUD, context, summary | unconditional UPDATEs | a settled row stays settled, an escalated session counts as escalated |
| Config service (`config-service/src/server.ts`) | `clients` | upsert, fetch | concurrent upserts | an upsert is atomic |
| Security (`security/src/`) | fixed-window counters, consent and audit rows | rate limit, RBAC, NDPR consent, retention, erasure, audit | erasure against turns in flight; window boundaries | no processing after refusal; erased data stays erased |
| Web client (`src/live.html`) | VAD counters, `transcribing`, `aiSpeaking`, recorder, microphone | start, record, play, interrupt, mute, end | gates set by timers and cleared only by server messages; one flag for all turns | turns do not overlap; a recording ends; the caller can speak again |
| Widget (`widget-sdk/src/widget.ts`) | `ws`, `isActive`, `mediaStream`, `dailyCall`, `videoConversation`: one of each for all calls of the object | start, end, destroy | fetches, prompts and socket events that outlive the call they began in | a call that is over leaves nothing on |
| Tavus video (`api-gateway/src/tavus.ts`) | `echoPalId` | create, end, echo | get-or-create race | one echo pal |
| ASR and TTS services, ASR engine | none across requests | transcribe, detect, translate, synthesise | external models | outside the models: their answers are free choices |
| Admin dashboard, landing pages, scripts, types | none | presentation, build | none | not modelled |

They interact by HTTP requests the gateway awaits one after another within a
turn, by two fire-and-forget POSTs of turns, by the WebSocket to the client, and
through shared state: the rows of Postgres, `ws.speculativeContext`, and
`currentKeyIndex`.

The hazards of this code, each at its line, are in `PROJECT.json`. A hazard is listed
with a property only where that property would catch it. Where the code does go wrong,
the property next to it names the case as an exception (a history such as `alone`,
`met`, `crowded` or `intruded`, or a setting of the run), the hazard says so, and
section 5 lists it as a finding.

## 2. Modules

| Module | Models |
|---|---|
| `Orchestrator` | the decision of `process` and `processStream` as operators over a request and the model's answers |
| `ActionContract` | abstract: what may become of one action: absent, proposed, due by consent or by order, performed or given up |
| `ActionFlow` | the path from an utterance to the client's backend: gateway turn, context prefetch, session store rows, executor, REST operations on actions; EXTENDS `Orchestrator` |
| `ActionFlow_proofs` | theorems about `ActionFlow` |
| `SpeechStream`, `SpeechStream_proofs` | one turn's speech, from the model's stream to the audio messages; theorems |
| `KeyRotation`, `KeyRotation_proofs` | the Gemini provider's keys and retries, for calls that overlap; theorems |
| `SessionLifecycle` | one session: its row and turns in the store, the gateway's connections to it, erasure |
| `SessionLifecycle_proofs` | theorems about `SessionLifecycle` |
| `RateLimiters`, `RateLimiters_proofs` | the gateway's fixed window and the executor's sliding window, by one clock; theorems |
| `GatewayApi`, `GatewayApi_proofs` | the gateway's REST operations that change something, with what they share: sessions and consents, the configuration, the echo pals; theorems |
| `WidgetCall`, `WidgetCall_proofs` | the widget, its microphone, room and video conversation, with the gateway's half of the conversation; theorems |
| `LiveClient`, `LiveClient_proofs` | the web client's gates, recorder and microphone, with the gateway's messages that set them; theorems |
| `MC...` | small instances for TLC |

### Orchestrator

A request is reduced to what the code tests: is there a configuration, is an
action pending, is the confidence below the threshold, does the utterance
contain a word of the confirm or of the deny list. A model's answer is a text, a
tool call for an intent with or without confirmation, for an unknown intent, or
a failure. Order and guards are those of `process` (147-320) and
`processStream` (337-507).

### ActionFlow

A *handler* is one activation of `processUserUtteranceWithLanguage`. `pc[h]`
names the await it is at: `context`, `await` (a prefetched context another
callback started), `fetch`, `decide` or `broken` (the orchestrator has the
request, in the latter case one whose context is an error body), `execute`, `webhook`,
`record`. Rows of `action_logs` are numbered by `created_at`; `rows`, `asks`, `newest`
are the store, and `demo` says whether the client has no webhook, or one the executor
takes for an example. `prefetch` is `ws.speculativeContext`: none, loading, or settled
with a context, with null, or with the body of an error response. `reply` is what the
caller was last told; `thrown` is an exception of the turn, which sends an error
message and no `turn.complete`. `effects`, `cancelled`, `patched` (rows an operator has
patched) and `spoken` are history, read by no action but for the bound on `spoken`.

Correspondence: `Prefetch`/`SettlePrefetch` are `server.ts:754-761`;
`AwaitPrefetch`, `TakePrefetch`, `FetchContext`, `ContextUnreachable`,
`ContextBroken` are 1018-1050; `Answer`, `Undecided`, `Propose`, `CreatePlain`,
`Confirm`, `Deny` and their `...Lost` forms are 1155-1335 with the orchestrator's
decision taken in the same step (it reads only the request, so its moment does
not matter). `StoreLost` is a request to the store, after the decision, whose
connection breaks (1251, 1266, 1328): the row exists or not, and the exception ends the
turn. `Unmerged` is the gateway's own exception over an error body (1054). `Execute`,
`RateLimited`, `DemoMode`, `CallWebhook`, `Record...` are
`action-executor-service.ts:23-180`; `OperatorConfirm` and `OperatorPatch` are
`server.ts:342-379`.

`ActionContract` knows no rows and no turns: an action is offered, ordered, or an order
for it gets lost before anybody sets about it (`Strand`: the confirmed row of a turn
that threw); it falls due, is performed or given up.

Abstractions: the rate limiter of the executor may refuse at any time (when it does is
the subject of `RateLimiters`); the configuration is loaded; the client's webhook does
not change within a session; a job of
the executor that outlives the gateway's request is not followed further (it ends
at `ExecutorLost`, before or after the webhook); erasure of the session's rows is
in `SessionLifecycle`.

### SpeechStream

A text is a sequence of numbered words, of `Stop` (a run of `.`, `!`, `?`) and of
`Blank` (a run of white space); a chunk is one of a few shapes and may begin and end
anywhere, so that a written word may come in several parts. `Chunk` is the gateway's handling of one text event (1199-1207) with the
cut of `splitSentences`, `Flush` one iteration of `flushSentences`, `Piece` one
of `generateStream`; `Respond`, `DecideFixed`, `RespondAtOnce` and `NoResult` are
the ways the orchestrator's stream ends. `splitSentences` is the regular expression `/[^.!?]+[.!?]+|\S+$/g` with its trimming:
sentences end at the members of `Ends`, taken by rank, without recursion, so that its
results can be proved about; after the last stop only the `Run` of words that reaches
the very end of the text matches, because the second alternative is anchored there.
The gateway reads no event while it speaks, so the queue between the two is not a
variable. Left out are texts that begin with a stop and stops with white space before
them. `generateStream`'s grouping into pieces of 200 characters is a free number of
pieces; a piece that fails is skipped, and only when it is the sole one does the
exception pass the end marker. `voice` says whether STORM is configured. The history
`tidy` says that so far no chunk that had a stop had white space after a word after its
last stop, the condition under which the cut loses nothing.

### KeyRotation

A call is in `stream` (a streaming request under way), `send` (a request of
`completeWithKey`), `backoff` (between two of them) or settled. `QuotaRefused`
rotates the index and reads the next key in one step, as the code does between
two awaits. `again` says that `processStream` will call `complete` once more when
it throws: `streamComplete` returns `this.complete(...)` from its `try` without
awaiting it, so its own `catch` does not see the failure. `spent` is the
service's view of the quotas and changes at any time; whether a request fails
otherwise is free. The history `alone` says that a call has met no other so far,
`lasting` which keys had quota ever since it began. The orchestrator's server constructs the provider only with a
key, hence `NumKeys > 0`.

### SessionLifecycle

A message is one activation of the async message callback, numbered as it
arrives; `pc[m]` names its await: `wait` (asleep until the setup is done), `asr`,
`detect`, `turn` (anything between the two POSTs of turns), `escalate`, `reply`,
`end`. A connection has its `socket` as the close callback sees it, its `setup`
(`phase`: the PATCH is under way; `read`: configuration and history), and the
callback's variables `sessionActive`, `turnIndex`, `audioBuffer`. A request to the
store has its effect in the step in which it is answered; the POSTs of turns,
which nobody awaits, arrive whenever they do. `phase` is `sessions.phase`, or
`erased` when the row is gone; UPDATEs then change nothing and INSERTs of turns fail
at the foreign key. History: `received` (which message slept), `orderly` (the
connection's turns neither overlapped nor failed), `excused` (the end was not
written, or a setup wrote `active` after it).

A socket that closes is in `video` while the end of its video conversation is awaited,
and `sessionActive` is looked at after that (`endCall`). What a request writes and what
its answer makes the connection do are one step, so the moments between the store's
write and `sessionActive = false` are not there; what can happen in them (a setup's
`active` after the end) is `excused` anyway.

Left out: partial transcripts, the video messages themselves, the greeting, and what a
turn does between its POSTs, which is `ActionFlow`. Sends to a closed socket are ignored by
the library, so they do not make a turn fail. A second connection with the same
token starts its indices at 0 again: `OrderlyIndices` is about one connection.

### RateLimiters

`store` is the middleware's map, `recent` the executor's; both check and count
without an await, so a request is one step. `Sweep` is the middleware's timer,
which drops the expired entries. `passed` and `admitted` record
when requests and calls got through: the reference against which the windows are
judged. The middleware is instantiated twice (per address, per client) with
different limits. A restart, which forgets everything, and a clock that runs
backwards are not modelled.

### GatewayApi

A request is one run of an Express handler and is used once; `pc[r]` names the call
it awaits. A call is performed and answered, answered with an error, not performed,
or performed while its answer is lost; in the last case it stays in flight until the
effect is there. `sessions` and `consents` are the rows of the two inserts of `POST
/v1/sessions`, `gone` the sessions an erasure deleted (their consents go by the
foreign key). `config` names the requests that wrote the row's settings and its
webhook: a subscription reads both and writes both back. `pals` are the echo pals
of the video service, which `getOrCreateEchoPal` looks for before it makes one.
`met` records which requests overlapped. Reads (transcript, summary, actions,
metrics, portability) and the actions' PATCH and confirm, which are in
`ActionFlow`, have no step here; authentication, roles and rate limits refuse a
request before its handler runs.

### WidgetCall

A call is one run of `start()`. `pc[c]` is where it is, `sock[c]` the ready state of
its WebSocket; `ws`, `isActive`, `video`, `stream` and `room` are the fields of the
one object, so two calls that overlap share them. `live` and `rooms` are what the
browser really has open. `wire`, `gate`, `active`, `ending`, `early`, `known` are
the gateway's connection as far as the video conversation depends on it: messages
that come before the end of the setup wait in `early` and are taken up in any
order. The gateway may refuse a connection that has opened, and a socket that breaks,
also while it is closing, loses what was under way. `conv` is the state of each conversation at the video service. The
histories name the exceptions of the properties: calls that overlapped another
(`crowded`), that were hung up or closed at an early stage (`hurried`), for which
something external failed (`unlucky`). `hung` marks a call that was open when it
was hung up. Played audio, shown video, `sendText` and listeners change nothing
that outlives them and are left out.

### LiveClient

`vadCheck` runs every 50 ms; its counters are abstracted to the moments at which
they reach their thresholds: `SpeechBegins`, `SpeechEnds`, `BargeIn`, and
`TickTranscribing`, which resets them. `recorder` is `isRecording` with the state
between `stop()` and the recorder's last data; `stage[u]` says what became of the
utterance a recording made. `quiets` counts the sounds, timers and translations
under way that will clear `aiSpeaking`. `timer` and `prompts` are the delayed
`startOpenMic` and the microphone prompts that are open.

Assumed: the recorder's data is read before the three loud ticks that begin another
recording (150 ms) and before another call is connected; the gateway's messages are
acted upon in the step that sends them, so that what is under way is what the
gateway has not sent yet (on one socket they keep their order; only what the caller
does in between is lost). Left out: the partial audio sent while
recording, the avatar's room and its speaking events, and what is shown. The history
`intruded` says that the caller spoke into a turn or the greeting, `late` that a
microphone prompt was answered while a recording ran, `ignored` that an utterance
ended without `turn.complete`.

## 3. Runs

Every bound is a CONSTANT of its module, given in the `.cfg`.

| Run | Instance | Shows |
|---|---|---|
| `action_serial` | 1 handler, every utterance, 3 actions, 4 utterances, operator confirms, the store refuses or breaks its connections | no action twice, one pending action and it is the newest, settled rows stay, the two forms of the orchestrator differ only where they are known to, `ActionContract` is implemented |
| `action_overlap` | 2 handlers, 1 action, 2 utterances, prefetch, every fault, operator confirms and patches, fairness | consent before mutation, plain actions once unless patched, success told or recorded only after the backend did its work (`HonestSuccess`, not in demo mode), every activation ends |
| `action_cancelled` (violation) | smallest that shows it | finding below |
| `speech` | 4 chunks of 8 shapes, white space among them, with and without STORM TTS, every fault, fairness | in order and once; nothing lost while chunks are tidy, and whole if a stop follows the last word (`TextIsKept`); one end marker, at the end, unless a fixed text of one piece was not spoken; an answer with a stop or a word at its end is sent; the turn completes |
| `speech_unsent` (violation) | smallest that shows it | finding below |
| `keys` | 2 keys, 2 calls in turn or overlapping, quotas that come and go, fairness | a call alone tries each key once and gives up only if all were spent (`FindsAKey`); every call settles |
| `session` | 2 connections, 2 messages (final audio, text, end), every fault, erasure | erased turns stay erased; turns that neither overlap nor fail have distinct indices; a session whose connections are closed is over, unless its end was lost or overwritten |
| `session_live` | 1 connection, 2 messages of every kind, every fault, fairness | a chunk of audio goes to one utterance, in order unless it slept through the setup (`AudioIsKept`); every message is processed or refused |
| `limits` | 1 key, a window of 3 ticks, limits of 2, 8 ticks | fewer than twice the limit in any fixed window; the sliding limit; a refusal only after a full quota |
| `api` | 3 requests of any kind and outcome, a client seeded or not | a created call is on record with its consent; subscriptions undo only what overlapped them; one echo pal unless requests overlapped |
| `widget` | 2 calls, 1 hang-up at any time, every failure | microphone and room go off; the conversation is ended |
| `client` | 2 calls, 3 utterances, 2 events under way, every reply, fairness | turns of a call do not overlap; somebody ends each recording; the gate opens again |

Why the bounds are enough. In `ActionFlow` the store offers only the newest row,
so two rows already show an old and a new one, and three a row in between; a
proposal, its confirmation and one more utterance fit in three utterances, a
second proposal and a late yes in four. The serial run loses no UPDATE and no executor
(its properties are false then, section 5); the overlapping run loses everything. The overlapping run needs no more than two
turns that await one prefetched context or read one row; what it checks for
plain actions and consent is proved for any number of rows and turns.
`detectConfirmation` splits the four utterances in two classes, and the overlapping
run takes one of each. In `SpeechStream` a
chunk matters by where its stop is and by what follows it (nothing, white space, a
word, a word and white space, two words), and a flush hands over one sentence to the
next, so four chunks give two flushes and a rest. In `KeyRotation` two calls already interleave their
rotations, and the index starts at either key for the second. In
`SessionLifecycle` each property relates two connections (a setup and an end, a
reconnection and an end) or two messages (a chunk and the utterance it goes to, a
turn and the next one's index); three messages were checked without liveness and
with audio only, and added nothing. In `RateLimiters` eight ticks hold two
boundaries of the fixed window and a full slide of the other; keys do not interact.
In `GatewayApi` a lost update, a second pal and an erasure between two inserts take
two requests, and the third is the one that profits from what they left (a stale
subscription written back by another). In `WidgetCall` two calls already share
every field; with two hang-ups and no symmetry (30 million states) the properties
hold as well. In `LiveClient` a turn, an interruption and the utterance after it
are three utterances, and the second call meets what the first left.

Requests, calls and connections are interchangeable, and their permutations are a
symmetry of the runs `session`, `api` and `widget`; runs with liveness
properties use none. `CHECK_DEADLOCK FALSE` is
given where the system may stop: a caller who says nothing more, a turn or a set
of calls that is over, a clock at its bound.

Fairness. `ActionFlow`: weak fairness of each handler's steps and of the prefetch:
the context requests carry a timeout of 3 s, other requests end with the runtime's
own, and a broken connection is a step of its own. Callers, operators and partial
transcripts owe nothing. `SpeechStream`: of the turn's next step (streams time out
after 30 s, syntheses after 60 s). `KeyRotation`: of each call's next answer
(30 s timeout; a backoff is a timer); which answer comes is free. `SessionLifecycle`:
of each connection's setup and close and of each activation, whose requests end by
their timeouts or the runtime's; rows of turns may be under way for ever.
`LiveClient`: of the greeting and of each utterance's turn at the gateway, whose
requests time out; callers, recorders and browsers owe nothing.

## 4. Proofs

`ActionFlow_proofs` holds, for any number of handlers, actions and utterances and
any set of faults, under the named assumptions of `ActionFlow` only:

- `TypeCorrect`: `TypeOK`, with one lemma per helper (`EndTurnType`, `GoOnType`,
  `SetStatusType`, `OutcomeType`, `AfterPrefetchType`).
- `ConsentBeforeMutation`: `MutationHasConsent`. Not inductive by itself: the
  step `CallWebhook` knows only `act[h]`. `ConsentInv` adds that a handler in the
  executor with a row that asks has that row as its context and an utterance that
  confirms (`Consented`), and that rows a handler or a prefetch refers to exist
  (`RowsExist`), so that a new row is none of them. `ConfirmationIsDue` is the
  lemma about the orchestrator: it decides `confirmed` only when an action is
  pending and the utterance confirms.
- `PerformedOnce`: `AtMostOnce` for serial settings (`SerialSettings`: one
  handler, no prefetch, no PATCH by the operator, no lost UPDATE, no lost
  executor). The invariant `OnceInv` says that a row that is pending, or under
  execution before its webhook, has no effect yet (`Fresh`). `QuietStep` is the
  lemma for steps that touch neither rows nor effects, `DecisiveStep` and `NewRow`
  for those that hand a row on or create one.
- `SuccessIsHonest`: `HonestSuccess`, for overlapping turns, prefetches and every
  fault. `Evidence` says that outside demo mode a handler that recorded or is about to
  record an ok answer has an effect on its row, and so has every row that says
  executed and was not patched.
- `PlainPerformedOnce`: `PlainAtMostOnce`, for overlapping turns and every fault. A
  row that asks nothing is never pending unless an operator patches it, so
  only the handler that created it executes it: `PlainInv` says that no context
  carries such a row (`Unoffered`), that at most one handler holds it, and that it
  has no effect until that one's webhook (`OneOwner`).
- `FormsAgreeAlways`: `FormsAgree`, from the types alone: `FormsDiffer` splits the
  orchestrator's cases and shows that only the two named ones differ.
- `NoPendingRowIsBuried`: `OnlyNewestPending` for one turn at a time without
  prefetched contexts, without PATCH and with a store that answers, errors included.
  `PendingInv` says that a turn which decides without a pending action in its context
  is right about it, so that the step which adds a row (`NewRowAlone`) finds none
  pending. The store must be reachable: a context that is empty because it did not
  answer hides the pending row.
- `SettledRowsStay`: the action property `SettledIsFinal`, for one turn at a time
  without prefetched contexts and PATCH, and every fault. `SettledInv` says that
  neither the context of a deciding turn nor the executor holds a settled row.
- `ContractIsKept`: the refinement `KeepsContract`, under `SerialSettings`. The state
  functions of the refinement mapping get one lemma each for what a step does to them
  (`DueRow`, `GivenUp`, `Performed`, `ConsentGiven`, `Born`); `InitKeeps` maps initial
  states to initial states and `StepKeeps` every step to a step of the contract or
  a stutter. `OneStage` says that a turn's step moves one action; `BlankInv`, that rows
  which do not exist ask nothing.

`SpeechStream_proofs` holds, for any number of chunks of any shapes, any number of
pieces and any faults, under `SpeechAssumption` only:

- `SplitWords`: for every text, white space included, the sentences of `splitSentences`
  have only words of it, in its order; there is one if the text has a stop or ends with
  a word (`Sayable`); and no word is missing unless white space follows a word after
  the last stop (`Harmless`). Sentences are found by rank (`Rank`, `At`); the lemmas about ranks are
  proved by induction over numbers, which `SetInduction` provides: a set of naturals
  that holds 0 and each successor is `Nat`, since its complement has no least member.
- `TypeCorrect`: `TypeOK`; `TypeInv` adds that a flush has a sentence to speak next.
- `MarkerEndsTheAudio` and `AnswersAreSent`: `MarkerEndsAudio`, `StreamedAnswerIsSent`.
  `EndInv` says what is still to come at each point: nothing is decided while the
  stream goes on (`Undecided`), something is left to speak of a text that can be spoken
  (`LeftToSpeak`), and before the marker something was spoken or a synthesis failed
  (`SpokenBeforeMark`). `LonePiece` says that a turn without a marker has a fixed text
  whose only piece is not among what was spoken; that needs the order of the words.
- `SpokenInTextOrder`: `SpokenInOrder`. A flush puts its last sentence back into the
  buffer, so the order is an invariant of the buffer and of the sentences in hand:
  `OrderInv` says that both come after all that was spoken (`Buffered`, `Ahead`) and
  belong to the text (`OfTheText`), whose words are numbered in order (`Counted`).
- `NoWordIsLost`: `TextIsKept`. `KeptInv` says that, while the cut is harmless, each
  word of the text is spoken or in the buffer or in a sentence to come (`Kept`), and
  that of a text in which a stop follows every word, so is what is left of it
  (`Closing`). A tidy chunk makes the cut harmless (`TidyHarmless`), a stop at the end
  the last one (`StopClosed`).

`KeyRotation_proofs` holds, for any number of keys and of calls, under
`KeysAssumption` only: `TypeCorrect` (`TypeOK`: no request is sent more than three
times, no index leaves the list) and `AloneFindsAKey` (`FindsAKey`). `KeyInv` says that
a call that met no other is the only one running (`Single`), that the keys it tried
follow each other round the list (`AllInTurn`), and that its request uses the key at
the index, the last of those tried, while the others have lacked quota since it began
(`AtKey`, `Lacking`); as many attempts as there are keys then mean all of them.

`SessionLifecycle_proofs` holds, for any number of connections and messages and any
faults, under `SessionAssumption` only:

- `TypeCorrect`: `TypeOK`.
- `ErasureIsFinal`: `ErasedStaysErased`, which is inductive as it stands.
- `IndicesAreDistinct`: `OrderlyIndices`. `IndexInv` adds that a row belongs to a
  message that got as far as posting (`OwnersPosted`), that on an orderly connection
  one message at most holds an index, the current one (`OneHolder`), and that the
  stored indices lie below it, but for the holder's own user row (`RowsBelow`).
  `QuietIndex` is the lemma for steps that hand out no index and add no row,
  `HoldIndex` for those that hand one out, `DetectedIndex` and `FinishIndex` for the
  two that add a row.
- `SessionEnds`: `ClosedSessionIsOver`. `OverInv` says that a connection which accepts
  messages has its close still to come, and that once there was a connection and none
  accepts any, the session is over or excused. `EndIsOver` is the lemma for the end
  message and the close, `OverStep` for the other steps.
- `AudioArrivesWhole`: `AudioIsKept`. `AudioInv` says that what a connection has
  buffered and transcribed are its own messages (`OwnChunks`), each transcribed by one
  activation (`OneTranscription`), and in order but for those that slept.

`RateLimiters_proofs` holds, for any keys, window and limits, under
`LimitsAssumption` only: `TypeCorrect`, `BurstIsBounded` (`FixedBurst`),
`LimitIsKept` (`SlidingLimit`) and `RefusalHasCause` (`RefusedForCause`), from one
invariant, `Safe`. `Chain` says of the requests that passed that each names the
request that opened its window, that windows follow each other more than a window
apart and that none holds more than the limit; `Entry` ties the map's entry to the
last of them, or says that its window is over. `Slide` says that the timestamps are
in order and that a call less than a window old is still in the map, and that the
calls a limit apart are a window apart. `Crowd` is the counting lemma: the
admitted calls between an old one and now that are young are fewer than the limit.

`GatewayApi_proofs` holds, for any number of requests, under `AuthorsAssumption`
only: `TypeCorrect`; `UpdatesAreKept` (`NoUpdateLost`), from `MetInv` (requests in
flight together have met) and `ConfigInv` (a subscription about to write has read
the row as it is, or has met whoever wrote it since); `PalsNeedOverlap`
(`OneEchoPal`), from `PalInv` (whoever is about to make a pal has met the maker of
every pal); `AnsweredIsRecorded` (`CreatedIsOnRecord`), from `RecordInv`, which says
where the control of each kind of request can be and what a creation has done
at each of its steps.

`WidgetCall_proofs` holds, for any number of calls and hang-ups, under
`WidgetAssumption` only: `TypeCorrect`, `MicAndRoomGoOff` (`QuietAfterCall`) and
`ConversationsAreEnded` (`NoConversationLeft`).
`QuietInv` says that the microphone and the room of an open call that met no other
are the ones the object's fields name (`MicHeld`, `RoomHeld`), so that hanging up
finds them; that calls around together count as crowded (`Crowds`); and that a
prompt outlives its call only if the call was hung up while it was open (`Asked`).
`ConvInv` follows a conversation that is owed an end from the browser over the wire to
the gateway: its call has yet to open its socket (`Unopened`), or the announcement
waits for the setup (`HeldUp`), or is on the wire (`Late`, `Coming`), or the gateway
knows the conversation (`Known`) and its close will end it.

`LiveClient_proofs` holds, for any number of calls, utterances and events, under
`ClientAssumption` only: `TypeCorrect`, `SerialUnlessIntruded` (`TurnsAreSerial`) and
`SomebodyEndsRecordings` (`RecordingIsEnded`). `CallInv` adds `Connection` (what is
recorded or under way belongs to a connected call), `Gate` (unless the caller
intruded, a recording excludes turns, and a turn keeps `transcribing` set) and
`Unheard` (the gate does not close on a recording).

Each is proved by Init, one step per action, and a QED step by PTL. Temporal
leaves are the only uses of PTL. Every state invariant and action property of the
passing runs is now a theorem, some of them under the settings named above. What stays
with TLC: liveness (`EveryTurnEnds`, `EveryCallSettles`, `MessagesFinish`,
`TurnCompletes`, `CallerIsHeardAgain`), which is outside the prover's reach, and
the two violations. Nothing is proved of the library's folds and of the sequence
operators defined with them, which the prover cannot open; the modules with
theorems state what they need of a sequence by its domain instead.

## 5. Findings

Two have a run that shows them:

- `action_cancelled`: a declined action is announced as cancelled, but its row
  stays pending and a later yes performs it (`server.ts:1323`).
- `speech_unsent`: with STORM configured, an answer that was not streamed is
  neither spoken nor sent as fallback (`server.ts:1408`).

The others were met while modelling; most are the exceptions that the properties name.

Consent and execution.
- With two turns in flight, a yes that arrived before the question was asked may read
  the new row, which exists before the prompt is sent, and confirm it
  (`server.ts:1018`, `1251`): what `MutationHasConsent` promises is a yes of the turn
  that executes and a context that carried the row, not a yes to a question.
- Two turns that overlap read the same pending action and both execute it
  (`server.ts:1303`). The same happens with one turn at a time and prefetching: a
  partial transcript that comes back late fetches the context while the executor is
  still at work on a pending row, and the next "okay" takes that context (757,
  1018-1029). So `AtMostOnce` is about turns that do not overlap and contexts that are
  not prefetched.
- A row whose UPDATE to `executed` and to `failed` are both lost stays pending, is
  offered again and performed again (`action-executor-service.ts:82-90`); no property
  that says "once" is claimed with lost UPDATEs, except for plain actions.
- If the answer to the creation of a row is lost, the turn throws and no question is
  asked (`server.ts:1251-1264`), but the row is pending: the next yes, to whatever,
  executes it.
- If the store does not answer the request for the context, the turn goes on with an
  empty one (`server.ts:1043-1050`). A row created then hides the pending one, which
  can never be confirmed or denied again; `OnlyNewestPending` takes a store that answers.
- A turn whose requests are rejected (`server.ts:1251-1332`), and one with a history to
  merge into an error body (1054), ends in an exception: an error message and no
  `turn.complete`. The client's gate then stays closed (below).
- Demo mode: for a client without a webhook URL the executor calls nobody, reports
  success and writes `executed`. The test for example addresses is `includes`
  (`action-executor-service.ts:35-38`), so `api.testbank.com` has the `.test` of a
  reserved domain and gets the demo mode as well. Hence `~ demo` in `HonestSuccess`.
- `processStream` does not return what `process` returns, although its comment says
  so: `FormsAgree` lists the two cases, a doubtful confirmation and a model that
  fails twice (`orchestrator-service.ts:349`, `423`).

Speech and keys.
- The second alternative of the regular expression (`server.ts:1093`) reaches to the
  end of the text and holds no white space. Of 'Hi. How ' it matches 'Hi.' and drops
  'How', of 'Hi. How are' it drops 'How' too: the comment at 1140 says that the last
  incomplete sentence is kept. Hence `tidy` in `TextIsKept`.
- Of a text without a stop only the last word is spoken, and if white space follows
  that, nothing at all: 'Hello there ' leaves the caller with the end marker
  (`server.ts:1137-1138`). Hence `Closed` in `TextIsKept` and the condition of
  `StreamedAnswerIsSent`.
- Overlapping calls share the key index: keys are tried twice or skipped
  (`gemini-llm.ts:106`); hence `alone` in `FindsAKey`.

Sessions and privacy.
- Messages that arrive during the setup sleep on timers of their own and can overtake
  each other when it is done (`server.ts:710`): audio is then transcribed out of order
  (`AudioIsKept` exempts what slept). One that wakes after the session's end is dropped
  (712), also the one that names the video conversation, which is then not ended.
- Turns that overlap read the same `turnIndex` and store the same indices; a turn that
  throws does not advance it; a second connection of the session starts at 0 again
  (`server.ts:825`). Hence `orderly` in `OrderlyIndices`.
- The PATCH to `active` of a setup can arrive after the end of the session, which then
  is active for ever, and a reconnection with the old token revives an ended session
  (`server.ts:879`). Hence `excused` in `ClosedSessionIsOver`.
- Ending a session writes `ended` over `escalated` (`session-store.ts:61`, always with
  an empty summary), so the dashboard counts the call under "Resolved without
  escalation" (`admin-dashboard/src/server.js:37`, `public/index.html:286`). A session
  whose socket never opens stays `connecting` and is counted as active (35).
- `POST /sessions` drops the hash of the caller's phone (`session-store/src/server.ts:17`);
  the upsert of a configuration does not write `translation_language`, which
  `rowToConfig` reads.
- `dataPortability` orders sessions by `created_at`, a column they do not have
  (`ndpr.ts:118`, `init.sql:27-40`): it fails always. `consentMiddleware` and
  `enforceRetention` are called by nothing, and a refused consent leaves no record.
- An erasure reports 0 turns and 0 actions, because the foreign keys delete them with
  the sessions first (`ndpr.ts:84-106`); audit rows without a session keep the caller's id.
- `POST /v1/webhooks/subscribe` reads the configuration and writes all of it back
  (`server.ts:497-501`): an update between the two is lost (hence `met` in
  `NoUpdateLost`). It ignores the status of its write and never returns the secret it
  made.
- Two requests that find no echo pal create one each (`tavus.ts:159`); hence `met` in
  `OneEchoPal`.

Widget.
- A microphone prompt answered after the hang-up turns the microphone on for good
  (`widget.ts:164`). The conversation is created before the socket exists (79):
  `endCall()` while the socket connects is ignored, and nobody ends the conversation,
  nor one whose socket never opens or is refused. `destroy()` during `start()` lets the
  call start anyway. The close event of an old socket clears the microphone, room and
  conversation of a new call (131). These are the calls that `QuietAfterCall` and
  `NoConversationLeft` name as `asking`, `hurried`, `unlucky` and `crowded`.
- The widget never sends `isFinal`, and the gateway transcribes only then
  (`server.ts:781`): a caller who speaks to the widget gets no answer.

Web client.
- The gate `transcribing` is cleared only by `turn.complete` (`src/live.html:890`). A
  recognition that fails or hears nothing, and a turn that throws, send none, and the
  caller stays unheard until the call ends (`ignored` in `CallerIsHeardAgain`).
- The `turn.complete` of the greeting or of an interrupted turn opens the gate for the
  turn under way (`intruded` in `TurnsAreSerial`).
- A recording begun by an interruption is no longer watched when the tick finds
  `transcribing` set (447): it ends when the caller has spoken again. A second
  microphone prompt does the same and leaks the first stream.
- Data read after the call's end closes the gate for the next call, until its greeting.
- `aiSpeaking` is cleared by the ended event of a sound that was cut off while the next
  one plays (347), and stays set when the text comes after the sound, or when the
  microphone is muted while the AI speaks; each chunk of speech cuts off the one before it
  (317-367). The partial blobs and the whole one are both sent (501-551).

## 6. Plan

Done: `Orchestrator`, `ActionContract`, `ActionFlow`, `SpeechStream`, `KeyRotation`,
`SessionLifecycle`, `RateLimiters`, `GatewayApi` (for what the first plan called
`ConfigStore` and `Privacy`), `WidgetCall`, `LiveClient` (the plan's `ClientTurn`), and the proofs of section 4.

To come:

1. An abstract specification of a session (created, active, and then for ever over,
   unless it is connected to again), which `SessionLifecycle` implements where
   nothing is excused.
2. A theorem about overlapping turns: what a yes may confirm when the question was
   asked in between.
3. The avatar's speaking events in `LiveClient`; restarts in `RateLimiters`.

Runs are few and each asks several questions: a module gets one run for safety and
liveness where its state space allows, a second only for other bounds.

Not modelled, and why: the speech models, translation tables and keyword lists
(data); prompts and tool schemas (text); the growth of the caches and of the executor's
map of timestamps (`server.ts:84`: memory over months); encryption, TLS and the permission table
(wrappers over libraries and constants); dashboard and pages (presentation).
