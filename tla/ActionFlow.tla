----------------------------- MODULE ActionFlow -----------------------------
(***************************************************************************)
(* From an utterance to a call on the client's backend: the confirm-       *)
(* before-mutate path through the gateway's utterance handler, the         *)
(* session store's action_logs rows, the orchestrator's decision and the   *)
(* action executor, for one session.                                       *)
(*                                                                         *)
(* A handler is one activation of processUserUtteranceWithLanguage.  The   *)
(* websocket's message callback is async and nothing serialises it, so     *)
(* several activations of one connection interleave at their awaits; a     *)
(* client that waits for the end of each turn is the special case of one   *)
(* handler.  Rows are numbered in the order of their created_at.           *)
(***************************************************************************)
EXTENDS Naturals, Orchestrator

CONSTANTS
  Handlers,       \* activations of the utterance handler that may overlap
  MaxActions,     \* bound: rows of action_logs in the session
  MaxUtterances,  \* bound: utterances of the session
  Sayings,        \* the utterances the caller chooses from
  Speculation,    \* do partial transcripts prefetch the context?  (voice)
  Operator,       \* REST calls made meanwhile: a subset of {"confirm", "patch"}
  Faults          \* what may fail: a subset of FaultKinds

FaultKinds ==
  {"unreachable",   \* the session store does not answer the context request
   "storeError",    \* it answers it with status 500 and an error body
   "create",        \* it answers the creation of an action row with 500
   "storeLost",     \* the connection to it breaks during another request
   "fallback",      \* /process-stream is refused and /process is not
   "update",        \* the executor's UPDATE of the row throws
   "executor"}      \* the executor or the connection to it is lost mid-call

ASSUME BoundsAssumption   == MaxActions \in Nat /\ MaxUtterances \in Nat
ASSUME SettingsAssumption == /\ Speculation \in BOOLEAN
                             /\ Sayings \subseteq Utterance
                             /\ Operator \subseteq {"confirm", "patch"}
                             /\ Faults \subseteq FaultKinds

Actions == 1 .. MaxActions
Ref     == 0 .. MaxActions     \* a row, or 0 for none (undefined in the code)

VARIABLES
  \* ---- the session store
  rows,       \* status of each row of action_logs, "none" while it is not there
  asks,       \* was the row created for an intent with requiresConfirmation?
  newest,     \* how many rows there are: the newest is the last one
  demo,       \* has the client no webhook, or one that counts as an example?
  \* ---- the gateway: one connection
  prefetch,   \* ws.speculativeContext: the promise, and the row it carries
  pc,         \* where each handler is
  said,       \* its utterance
  ctx,        \* context.pendingAction as it was read, 0 for undefined
  act,        \* the row the handler created or executes
  \* ---- the executor and the client's backend
  answer,     \* what the webhook call of the handler's request came to
  reply,      \* what the caller was last told in the handler's turn
  \* ---- history, read by no action
  effects,    \* how often the backend performed each action
  cancelled,  \* rows whose caller was told that the action is cancelled
  patched,    \* rows an operator has patched
  spoken      \* utterances so far

store   == <<rows, asks, newest, demo>>
turn    == <<said, ctx, answer>>
history == <<effects, cancelled, patched, spoken>>
vars    == <<rows, asks, newest, demo, prefetch, pc, said, ctx, act,
             answer, reply, effects, cancelled, patched, spoken>>

ActionStatus == {"pending", "confirmed", "executed", "failed", "denied"}

(***************************************************************************)
(* Control points of a handler, in the order of the code: reading the      *)
(* context (`context'), waiting for a prefetched one (`await'), fetching   *)
(* although there was a prefetch (`fetch'), the orchestrator has the       *)
(* request (`decide') or one whose context is an error body (`broken'),    *)
(* /execute is on its way (`execute'), the executor calls the webhook      *)
(* (`webhook') and writes the row (`record').  The reply `thrown' is an    *)
(* exception of the turn: the caller gets an error message and no          *)
(* turn.complete.                                                          *)
(***************************************************************************)
Control == {"idle", "context", "await", "fetch", "decide", "broken",
            "execute", "webhook", "record"}

PrefetchState == {"none", "loading", "ready", "null", "broken"}
WebhookAnswer == {"none", "ok", "lost", "refused"}
Reply ==
  {"none", "answer", "prompt", "cancelled", "success", "failure", "error",
   "thrown"}

TypeOK ==
  /\ rows \in [Actions -> ActionStatus \union {"none"}]
  /\ asks \in [Actions -> BOOLEAN]
  /\ newest \in Ref
  /\ demo \in BOOLEAN
  /\ prefetch \in [state : PrefetchState, row : Ref]
  /\ pc \in [Handlers -> Control]
  /\ said \in [Handlers -> Utterance]
  /\ ctx \in [Handlers -> Ref]
  /\ act \in [Handlers -> Ref]
  /\ answer \in [Handlers -> WebhookAnswer]
  /\ reply \in [Handlers -> Reply]
  /\ effects \in [Actions -> Nat]
  /\ cancelled \subseteq Actions
  /\ patched \subseteq Actions
  /\ spoken \in Nat

NoPrefetch == [state |-> "none", row |-> 0]
Silence    == [confirmWord |-> FALSE, denyWord |-> FALSE]

Init ==
  /\ rows = [a \in Actions |-> "none"]
  /\ asks = [a \in Actions |-> FALSE]
  /\ newest = 0
  /\ demo \in BOOLEAN
  /\ prefetch = NoPrefetch
  /\ pc = [h \in Handlers |-> "idle"]
  /\ said = [h \in Handlers |-> Silence]
  /\ ctx = [h \in Handlers |-> 0]
  /\ act = [h \in Handlers |-> 0]
  /\ answer = [h \in Handlers |-> "none"]
  /\ reply = [h \in Handlers |-> "none"]
  /\ effects = [a \in Actions |-> 0]
  /\ cancelled = {}
  /\ patched = {}
  /\ spoken = 0

-----------------------------------------------------------------------------
(* The session store *)

\* Mutant: the status is not looked at.
pendingAction_AnyStatus == newest

\* Mutant: the wrong status is looked for.
pendingAction_Confirmed ==
  IF newest > 0 /\ rows[newest] = "confirmed" THEN newest ELSE 0

\* getConversationContext: only the newest row counts, and only while pending.
pendingAction ==
  IF newest > 0 /\ rows[newest] = "pending" THEN newest ELSE 0

\* createAction; the caller says with which status the row starts.
createAction(status, asking) ==
  /\ newest < MaxActions
  /\ newest' = newest + 1
  /\ rows' = [rows EXCEPT ![newest + 1] = status]
  /\ asks' = [asks EXCEPT ![newest + 1] = asking]
  /\ UNCHANGED demo

\* Every UPDATE of action_logs.status is by id and unconditional.
setStatus(a, status) ==
  /\ rows' = [rows EXCEPT ![a] = status]
  /\ UNCHANGED <<asks, newest, demo>>
-----------------------------------------------------------------------------
(* The turn: an utterance arrives, the context is read *)

\* The turn of h is over, with r the last thing it told the caller; what it
\* knew is gone with the activation.
endTurn(h, r) ==
  /\ pc' = [pc EXCEPT ![h] = "idle"]
  /\ reply' = [reply EXCEPT ![h] = r]
  /\ said' = [said EXCEPT ![h] = Silence]
  /\ ctx' = [ctx EXCEPT ![h] = 0]
  /\ answer' = [answer EXCEPT ![h] = "none"]

goOn(h, point) ==
  /\ pc' = [pc EXCEPT ![h] = point]
  /\ UNCHANGED reply

Utter(h) ==
  /\ pc[h] = "idle"
  /\ spoken < MaxUtterances
  /\ spoken' = spoken + 1
  /\ \E u \in Sayings : said' = [said EXCEPT ![h] = u]
  /\ pc' = [pc EXCEPT ![h] = "context"]
  /\ reply' = [reply EXCEPT ![h] = "none"]
  /\ act' = [act EXCEPT ![h] = 0]
  /\ UNCHANGED <<store, prefetch, ctx, answer, effects, cancelled, patched>>

\* A partial transcript came back, perhaps after its utterance was finished:
\* prefetch the context unless a prefetch is there.
Prefetch ==
  /\ Speculation
  /\ prefetch.state = "none"
  /\ prefetch' = [state |-> "loading", row |-> 0]
  /\ UNCHANGED <<store, turn, pc, act, reply, history>>

\* A handler finds a prefetch under way and awaits it.
AwaitPrefetch(h) ==
  /\ pc[h] = "context" /\ prefetch.state = "loading"
  /\ goOn(h, "await")
  /\ UNCHANGED <<store, prefetch, turn, act, history>>

(***************************************************************************)
(* What a handler does with a settled prefetch p: use what it carries,     *)
(* fetch again if it is null, or go on with an error body.                 *)
(***************************************************************************)
AfterPrefetch(p) ==
  [ready |-> "decide", null |-> "fetch", broken |-> "broken"][p.state]

\* Mutant: only one of the handlers that await the prefetch is woken.
Awaiting_First ==
  LET W == {h \in Handlers : pc[h] = "await"}
  IN  IF W = {} THEN {} ELSE {CHOOSE h \in W : TRUE}

Awaiting == {h \in Handlers : pc[h] = "await"}

FaultBehind == [null |-> "unreachable", broken |-> "storeError"]

Outcomes ==
  {[state |-> "ready", row |-> pendingAction]}
    \union {p \in [state : {"null", "broken"}, row : {0}] :
              FaultBehind[p.state] \in Faults}

\* The prefetch settles; every handler that awaits it goes on in the same
\* turn of the event loop, and the first one clears ws.speculativeContext.
SettlePrefetch ==
  /\ prefetch.state = "loading"
  /\ \E p \in Outcomes :
       /\ prefetch' = IF Awaiting = {} THEN p ELSE NoPrefetch
       /\ pc' = [h \in Handlers |-> IF h \in Awaiting THEN AfterPrefetch(p)
                                                  ELSE pc[h]]
       /\ ctx' = [h \in Handlers |-> IF h \in Awaiting THEN p.row ELSE ctx[h]]
  /\ UNCHANGED <<store, said, act, answer, reply, history>>

TakePrefetch(h) ==
  /\ pc[h] = "context" /\ prefetch.state \in {"ready", "null", "broken"}
  /\ prefetch' = NoPrefetch
  /\ ctx' = [ctx EXCEPT ![h] = prefetch.row]
  /\ goOn(h, AfterPrefetch(prefetch))
  /\ UNCHANGED <<store, said, act, answer, history>>

MayFetch(h) == \/ pc[h] = "fetch"
               \/ pc[h] = "context" /\ prefetch.state = "none"

FetchContext(h) ==
  /\ MayFetch(h)
  /\ ctx' = [ctx EXCEPT ![h] = pendingAction]
  /\ goOn(h, "decide")
  /\ UNCHANGED <<store, prefetch, said, answer, act, history>>

\* No answer from the store: the turn goes on with an empty context.
ContextUnreachable(h) ==
  /\ "unreachable" \in Faults
  /\ MayFetch(h)
  /\ ctx' = [ctx EXCEPT ![h] = 0]
  /\ goOn(h, "decide")
  /\ UNCHANGED <<store, prefetch, said, answer, act, history>>

ContextBroken(h) ==
  /\ "storeError" \in Faults
  /\ MayFetch(h)
  /\ goOn(h, "broken")
  /\ UNCHANGED <<store, prefetch, turn, act, history>>
-----------------------------------------------------------------------------
(* The decision, and what the gateway does with it *)

Request(h, low) ==
  [config |-> TRUE, pending |-> ctx[h] # 0, low |-> low, said |-> said[h]]

(***************************************************************************)
(* What the orchestrator may decide for h.  It reads nothing but the       *)
(* request, so the decision needs no step of its own: it is taken in the   *)
(* step that acts on it.                                                   *)
(***************************************************************************)
Decisions(h) ==
  {processStream(Request(h, low), s, r) :
     low \in BOOLEAN, s \in LlmReply, r \in LlmReply}
    \union IF "fallback" \in Faults
           THEN {process(Request(h, low), r) : low \in BOOLEAN, r \in LlmReply}
           ELSE {}

Decided(h, d) == pc[h] = "decide" /\ d \in Decisions(h)

\* respond, escalate: an answer and no action.
Answer(h) ==
  /\ Decided(h, "respond") \/ Decided(h, "escalate")
  /\ endTurn(h, "answer")
  /\ UNCHANGED <<store, prefetch, act, history>>

\* The orchestrator throws, for one thing because an error body has no
\* dialogueState: the stream ends in an error event, /process answers 500.
Undecided(h) ==
  /\ Decided(h, "throw") \/ pc[h] = "broken"
  /\ endTurn(h, "error")
  /\ UNCHANGED <<store, prefetch, act, history>>

\* An error body has no turns either, which the gateway itself looks at when
\* it has a prior history to merge.
Unmerged(h) ==
  /\ pc[h] = "broken"
  /\ endTurn(h, "thrown")
  /\ UNCHANGED <<store, prefetch, act, history>>

\* An action that must be confirmed: a pending row, and the question.
Propose(h) ==
  /\ Decided(h, "propose")
  /\ createAction("pending", TRUE)
  /\ act' = [act EXCEPT ![h] = newest + 1]
  /\ endTurn(h, "prompt")
  /\ UNCHANGED <<prefetch, history>>

\* The row is not created (action.id is undefined); the question is asked.
ProposeLost(h) ==
  /\ "create" \in Faults
  /\ Decided(h, "propose")
  /\ endTurn(h, "prompt")
  /\ UNCHANGED <<store, prefetch, act, history>>

\* Mutant: the row starts out pending.
CreatePlain_Pending(h) ==
  /\ Decided(h, "act")
  /\ createAction("pending", FALSE)
  /\ act' = [act EXCEPT ![h] = newest + 1]
  /\ goOn(h, "execute")
  /\ UNCHANGED <<prefetch, turn, history>>

\* An action that needs no confirmation: a confirmed row, then /execute.
CreatePlain(h) ==
  /\ Decided(h, "act")
  /\ createAction("confirmed", FALSE)
  /\ act' = [act EXCEPT ![h] = newest + 1]
  /\ goOn(h, "execute")
  /\ UNCHANGED <<prefetch, turn, history>>

\* Without a row there is no actionId, which /execute refuses with 400.
CreatePlainLost(h) ==
  /\ "create" \in Faults
  /\ Decided(h, "act")
  /\ endTurn(h, "failure")
  /\ UNCHANGED <<store, prefetch, act, history>>

(***************************************************************************)
(* The request to the store that follows a decision is rejected: a row is  *)
(* not created, or it is and nobody knows, or the phase is not written.    *)
(* The exception ends the turn; no question was asked.                     *)
(***************************************************************************)
StoreLost(h) ==
  /\ "storeLost" \in Faults
  /\ \/ Decided(h, "propose") /\ createAction("pending", TRUE)
     \/ Decided(h, "act") /\ createAction("confirmed", FALSE)
     \/ /\ \E d \in {"propose", "act", "escalate"} : Decided(h, d)
        /\ UNCHANGED store
  /\ endTurn(h, "thrown")
  /\ UNCHANGED <<prefetch, act, history>>

\* Mutant: `confirmed' is not looked at.
Confirm_AnyReply(h) ==
  /\ Decided(h, "confirmed") \/ Decided(h, "denied")
  /\ act' = [act EXCEPT ![h] = ctx[h]]
  /\ goOn(h, "execute")
  /\ UNCHANGED <<store, prefetch, turn, history>>

\* The caller said yes: execute the action the context carries.
Confirm(h) ==
  /\ Decided(h, "confirmed")
  /\ act' = [act EXCEPT ![h] = ctx[h]]
  /\ goOn(h, "execute")
  /\ UNCHANGED <<store, prefetch, turn, history>>

\* Mutant: the row gets a status the column does not know.
Deny_WritesCancelled(h) ==
  /\ Decided(h, "denied")
  /\ setStatus(ctx[h], "cancelled")
  /\ cancelled' = cancelled \union {ctx[h]}
  /\ endTurn(h, "cancelled")
  /\ UNCHANGED <<prefetch, act, effects, patched, spoken>>

\* The caller did not: "I have cancelled the action".  Nothing is written.
Deny(h) ==
  /\ Decided(h, "denied")
  /\ cancelled' = cancelled \union {ctx[h]}
  /\ endTurn(h, "cancelled")
  /\ UNCHANGED <<store, prefetch, act, effects, patched, spoken>>
-----------------------------------------------------------------------------
(* The executor *)

\* rateLimitCheck lets the call through.
Execute(h) ==
  /\ pc[h] = "execute"
  /\ goOn(h, "webhook")
  /\ UNCHANGED <<store, prefetch, turn, act, history>>

\* It does not: "failed" is answered, the row stays as it is.
RateLimited(h) ==
  /\ pc[h] = "execute"
  /\ endTurn(h, "failure")
  /\ UNCHANGED <<store, prefetch, act, history>>

\* The demo mode: nobody is called, and that counts as a success.
DemoMode(h) ==
  /\ pc[h] = "webhook" /\ demo
  /\ answer' = [answer EXCEPT ![h] = "ok"]
  /\ goOn(h, "record")
  /\ UNCHANGED <<store, prefetch, said, ctx, act, history>>

\* The webhook: performed and answered, performed with the answer lost or
\* unreadable, or refused.
CallWebhook(h) ==
  /\ pc[h] = "webhook" /\ ~ demo
  /\ \E w \in WebhookAnswer \ {"none"} :
       /\ answer' = [answer EXCEPT ![h] = w]
       /\ effects' = IF w = "refused" THEN effects
                     ELSE [effects EXCEPT ![act[h]] = @ + 1]
  /\ goOn(h, "record")
  /\ UNCHANGED <<store, prefetch, said, ctx, act>>
  /\ UNCHANGED <<cancelled, patched, spoken>>

\* Mutant: the row is written on success only.
Record_SuccessOnly(h) ==
  /\ pc[h] = "record"
  /\ IF answer[h] = "ok" THEN setStatus(act[h], "executed") ELSE UNCHANGED store
  /\ endTurn(h, IF answer[h] = "ok" THEN "success" ELSE "failure")
  /\ UNCHANGED <<prefetch, act, history>>

\* Mutant: an answer that is not ok counts as one that is.
Record_Optimistic(h) ==
  /\ pc[h] = "record"
  /\ setStatus(act[h], "executed")
  /\ endTurn(h, "success")
  /\ UNCHANGED <<prefetch, act, history>>

Record(h) ==
  /\ pc[h] = "record"
  /\ setStatus(act[h], IF answer[h] = "ok" THEN "executed" ELSE "failed")
  /\ endTurn(h, IF answer[h] = "ok" THEN "success" ELSE "failure")
  /\ UNCHANGED <<prefetch, act, history>>

\* The UPDATE to `executed' throws; the catch block's UPDATE to `failed' works.
RecordAsFailed(h) ==
  /\ "update" \in Faults
  /\ pc[h] = "record" /\ answer[h] = "ok"
  /\ setStatus(act[h], "failed")
  /\ endTurn(h, "failure")
  /\ UNCHANGED <<prefetch, act, history>>

\* The UPDATE in the catch block throws too: status 500, the row is untouched.
RecordLost(h) ==
  /\ "update" \in Faults
  /\ pc[h] = "record"
  /\ endTurn(h, "failure")
  /\ UNCHANGED <<store, prefetch, act, history>>

\* The executor is gone, before or after the webhook did its work; the
\* exception in the gateway ends the turn.
ExecutorLost(h) ==
  /\ "executor" \in Faults
  /\ pc[h] \in {"execute", "webhook", "record"}
  /\ endTurn(h, "thrown")
  /\ UNCHANGED <<store, prefetch, act, history>>
-----------------------------------------------------------------------------
(* The REST interface, used by an operator or the client's dashboard *)

\* POST .../confirm: sets a status and executes nothing.
OperatorConfirm(a) ==
  /\ "confirm" \in Operator
  /\ a <= newest
  /\ \E status \in {"confirmed", "denied"} : setStatus(a, status)
  /\ UNCHANGED <<turn, prefetch, pc, act, reply, history>>

\* PATCH /v1/actions/:actionId: any status the column's CHECK accepts.
OperatorPatch(a) ==
  /\ "patch" \in Operator
  /\ a <= newest
  /\ \E status \in ActionStatus : setStatus(a, status)
  /\ patched' = patched \union {a}
  /\ UNCHANGED <<turn, prefetch, pc, act, reply>>
  /\ UNCHANGED <<effects, cancelled, spoken>>
-----------------------------------------------------------------------------
\* Everything the services do for an utterance once it has arrived.
Turn(h) ==
  \/ AwaitPrefetch(h) \/ TakePrefetch(h)
  \/ FetchContext(h) \/ ContextUnreachable(h) \/ ContextBroken(h)
  \/ Answer(h) \/ Undecided(h) \/ Unmerged(h)
  \/ Propose(h) \/ ProposeLost(h) \/ CreatePlain(h) \/ CreatePlainLost(h)
  \/ StoreLost(h) \/ Confirm(h) \/ Deny(h)
  \/ Execute(h) \/ RateLimited(h) \/ DemoMode(h) \/ CallWebhook(h)
  \/ Record(h) \/ RecordAsFailed(h) \/ RecordLost(h) \/ ExecutorLost(h)

Next ==
  \/ \E h \in Handlers : Utter(h) \/ Turn(h)
  \/ Prefetch \/ SettlePrefetch
  \/ \E a \in Actions : OperatorConfirm(a) \/ OperatorPatch(a)

Spec == Init /\ [][Next]_vars

\* Requests are answered or their connections break; callers owe nothing.
FairSpec ==
  /\ Spec
  /\ \A h \in Handlers : WF_vars(Turn(h))
  /\ WF_vars(SettlePrefetch)
-----------------------------------------------------------------------------
(* Properties *)

\* Handler h is about to have, or has just had, its row executed.
InExecutor(h) == pc[h] \in {"execute", "webhook", "record"}

(***************************************************************************)
(* Confirm-before-mutate (README.md:32, server.ts:1246-1322): whatever     *)
(* overlaps, whatever fails and whatever operators do, the backend         *)
(* performs an action that asks for confirmation only in the turn of an    *)
(* utterance that says yes and does not say no, and whose context carried  *)
(* that very action.                                                       *)
(***************************************************************************)
MutationHasConsent ==
  [][\A a \in Actions :
       effects'[a] > effects[a] /\ asks[a]
         => \E h \in Handlers : /\ pc[h] = "webhook"
                               /\ ctx[h] = a
                               /\ detectConfirmation(said[h])]_vars

(***************************************************************************)
(* The backend performs no action twice: what is executed or failed is no  *)
(* longer offered for confirmation (action-executor-service.ts:56-95,      *)
(* session-store.ts:137).  The executor itself does not look at the row's  *)
(* status, so this rests on who reads the row when.                        *)
(***************************************************************************)
AtMostOnce == \A a \in Actions : effects[a] <= 1

(***************************************************************************)
(* An action without confirmation is performed at most once even when      *)
(* turns overlap and rows are lost: nobody but the turn that created its   *)
(* row executes it (server.ts:1265-1298), unless an operator's PATCH made  *)
(* it pending, so that a yes to another question may perform it again.     *)
(***************************************************************************)
PlainAtMostOnce ==
  \A a \in Actions : ~ asks[a] /\ a \notin patched => effects[a] <= 1

(***************************************************************************)
(* The caller of a client with a webhook is told an action succeeded only  *)
(* if the backend performed it, and a row says executed only then, unless  *)
(* an operator's PATCH wrote that: whatever overlaps, and whatever answer  *)
(* or UPDATE is lost (server.ts:1294-1297,                                 *)
(* action-executor-service.ts:63-98).  In demo mode nobody is called and   *)
(* success is reported all the same (34-61).                               *)
(***************************************************************************)
HonestSuccess ==
  ~ demo =>
    /\ \A h \in Handlers : reply[h] = "success" => effects[act[h]] > 0
    /\ \A a \in Actions :
         rows[a] = "executed" /\ a \notin patched => effects[a] > 0

(***************************************************************************)
(* At most one action awaits confirmation, and it is the newest: the       *)
(* context shows only the newest row (session-store.ts:122), an older      *)
(* pending one could never be confirmed or denied again.                   *)
(***************************************************************************)
OnlyNewestPending ==
  \A a \in Actions : rows[a] = "pending" => a = newest

(***************************************************************************)
(* No turn changes a row that is executed or failed, whatever operators    *)
(* set it to meanwhile: no UPDATE checks the old status, so a second       *)
(* execution or a late answer could overwrite it                           *)
(* (action-executor-service.ts:56, 82, 88).                                *)
(***************************************************************************)
SettledIsFinal ==
  [][(\E h \in Handlers : pc'[h] # pc[h]) =>
       \A a \in Actions :
         rows[a] \in {"executed", "failed"} => rows'[a] = rows[a]]_vars

(***************************************************************************)
(* "I have cancelled the action" (server.ts:1324): once a caller was told  *)
(* so, the backend does not perform that action any more.                  *)
(***************************************************************************)
CancelledStaysCancelled ==
  [][\A a \in cancelled : effects'[a] = effects[a]]_vars

(***************************************************************************)
(* processStream "returns ... same as process()"                           *)
(* (orchestrator-service.ts:331) up to two differences: a confirmation     *)
(* that is due on an utterance too uncertain to trust, because the two     *)
(* early returns are in another order (151-181, 349-378), and a model that *)
(* fails twice, which only process() catches (230, 421).                   *)
(***************************************************************************)
FormsAgree ==
  \A h \in Handlers, low \in BOOLEAN, reached \in LlmReply :
    pc[h] = "decide" =>
      LET r == Request(h, low)
      IN \A streamed \in {reached, "failure"} :
           process(r, reached) # processStream(r, streamed, reached)
             <=> IF r.pending THEN low ELSE ~ low /\ reached = "failure"

(***************************************************************************)
(* Every utterance comes to an end: the turn that awaits a prefetched      *)
(* context is woken with the others, no fault leaves a handler behind      *)
(* (server.ts:1018-1050, 1155-1240).                                       *)
(***************************************************************************)
EveryTurnEnds == \A h \in Handlers : pc[h] # "idle" ~> pc[h] = "idle"
-----------------------------------------------------------------------------
(***************************************************************************)
(* The path implements the contract, for a caller who waits for the end    *)
(* of each turn.  An action is due while a handler has it executed and     *)
(* the webhook has not been called.                                        *)
(***************************************************************************)
Due(a) == \E h \in Handlers : act[h] = a /\ pc[h] \in {"execute", "webhook"}

stageOf ==
  [a \in Actions |-> IF a > newest THEN "absent"
                     ELSE IF Due(a) THEN "due" ELSE "idle"]

Contract == INSTANCE ActionContract WITH stage <- stageOf, performed <- effects

\* The abstract specification, as a property of the detailed one.
KeepsContract == Contract!Spec
=============================================================================
