------------------------- MODULE ActionFlow_proofs --------------------------
(***************************************************************************)
(* Proofs about ActionFlow: for any number of handlers, rows and           *)
(* utterances, and whatever the other parameters are unless a theorem      *)
(* says otherwise.                                                         *)
(***************************************************************************)
EXTENDS ActionFlow, TLAPS

USE BoundsAssumption DEF Actions, Ref

\* The store is as it was.
Kept == UNCHANGED store

\* The record a settled prefetch is.
LEMMA OutcomeType ==
  ASSUME TypeOK
  PROVE  /\ pendingAction \in Ref
         /\ \A p \in Outcomes :
              p \in [state : {"ready", "null", "broken"}, row : Ref]
BY DEF TypeOK, pendingAction, Outcomes

LEMMA AfterPrefetchType ==
  ASSUME NEW p, p.state \in {"ready", "null", "broken"}
  PROVE  AfterPrefetch(p) \in {"decide", "fetch", "broken"}
BY DEF AfterPrefetch

(***************************************************************************)
(* Both forms of the orchestrator confirm or deny only what is pending,    *)
(* and confirm only an affirmative utterance.                              *)
(***************************************************************************)
LEMMA ConfirmationIsDue ==
  ASSUME NEW h \in Handlers
  PROVE  /\ Decided(h, "confirmed") => ctx[h] # 0 /\ detectConfirmation(said[h])
         /\ Decided(h, "denied") => ctx[h] # 0
<1>1. ASSUME NEW low \in BOOLEAN, NEW r \in LlmReply
      PROVE  LET d == process(Request(h, low), r)
             IN  /\ d = "confirmed" => ctx[h] # 0 /\ detectConfirmation(said[h])
                 /\ d = "denied" => ctx[h] # 0
  BY <1>1 DEF process, Request, confirmAction, toolDecision, LlmReply
<1>2. ASSUME NEW low \in BOOLEAN, NEW s \in LlmReply, NEW r \in LlmReply
      PROVE  LET d == processStream(Request(h, low), s, r)
             IN  /\ d = "confirmed" => ctx[h] # 0 /\ detectConfirmation(said[h])
                 /\ d = "denied" => ctx[h] # 0
  <2>1. ASSUME NEW x \in LlmReply, x # "failure"
        PROVE  toolDecision(x) \notin {"confirmed", "denied"}
    BY <2>1 DEF toolDecision, LlmReply
  <2>2. CASE ctx[h] # 0
    BY <2>2 DEF processStream, Request, confirmAction
  <2>3. CASE ctx[h] = 0 /\ low
    BY <2>3 DEF processStream, Request
  <2>4. CASE ctx[h] = 0 /\ ~ low
    BY <2>1, <2>4 DEF processStream, Request
  <2>5. QED
    BY <2>2, <2>3, <2>4
<1>3. QED
  BY <1>1, <1>2 DEF Decided, Decisions

\* The building blocks of the actions keep the types of what they write.
LEMMA EndTurnType ==
  ASSUME TypeOK, NEW h \in Handlers, NEW r \in Reply, endTurn(h, r)
  PROVE  /\ pc' \in [Handlers -> Control]
         /\ reply' \in [Handlers -> Reply]
         /\ said' \in [Handlers -> Utterance]
         /\ ctx' \in [Handlers -> Ref]
         /\ answer' \in [Handlers -> WebhookAnswer]
<1>1. "idle" \in Control /\ "none" \in WebhookAnswer /\ 0 \in Ref
  BY DEF Control, WebhookAnswer
<1>2. Silence \in Utterance
  BY DEF Silence, Utterance
<1>3. QED
  BY <1>1, <1>2 DEF TypeOK, endTurn

LEMMA GoOnType ==
  ASSUME TypeOK, NEW h \in Handlers, NEW point \in Control, goOn(h, point)
  PROVE  /\ pc' \in [Handlers -> Control]
         /\ reply' \in [Handlers -> Reply]
BY DEF TypeOK, goOn

LEMMA SetStatusType ==
  ASSUME TypeOK, NEW a, NEW status \in ActionStatus, setStatus(a, status)
  PROVE  /\ rows' \in [Actions -> ActionStatus \union {"none"}]
         /\ asks' \in [Actions -> BOOLEAN]
         /\ newest' \in Ref /\ demo' \in BOOLEAN
BY DEF TypeOK, setStatus

(***************************************************************************)
(* Every variable of the action path keeps its type: in particular no      *)
(* sequence of turns, faults and REST calls writes a status to action_logs *)
(* that its CHECK constraint refuses, or a row that is not there.          *)
(***************************************************************************)
THEOREM TypeCorrect == Spec => []TypeOK
<1>1. Init => TypeOK
  BY DEF Init, TypeOK, NoPrefetch, Silence, Utterance, PrefetchState, Control,
         WebhookAnswer, Reply
<1>2. TypeOK /\ [Next]_vars => TypeOK'
  <2> SUFFICES ASSUME TypeOK, [Next]_vars
               PROVE  TypeOK'
    OBVIOUS
  <2> USE DEF store, turn, history
  <2>c. /\ {"idle", "context", "await", "fetch", "decide", "broken",
             "execute", "webhook", "record"} \subseteq Control
        /\ {"none", "answer", "prompt", "cancelled", "success", "failure",
             "error", "thrown"} \subseteq Reply
        /\ {"pending", "confirmed", "executed", "failed", "denied"}
             \subseteq ActionStatus
    BY DEF Control, Reply, ActionStatus
  <2>0. CASE UNCHANGED vars
    BY <2>0 DEF vars, TypeOK
  <2>1. ASSUME NEW h \in Handlers, Utter(h)
        PROVE  TypeOK'
    BY <2>1, <2>c, SettingsAssumption DEF Utter, TypeOK
  <2>2. ASSUME NEW h \in Handlers, Turn(h)
        PROVE  TypeOK'
    <3>1. CASE AwaitPrefetch(h)
      BY <3>1, <2>c, GoOnType DEF AwaitPrefetch, TypeOK
    <3>2. CASE TakePrefetch(h)
      <4>1. AfterPrefetch(prefetch) \in Control
        BY <3>2, <2>c, AfterPrefetchType DEF TakePrefetch
      <4>2. QED
        BY <3>2, <4>1, GoOnType
           DEF TakePrefetch, TypeOK, NoPrefetch, PrefetchState
    <3>3. CASE FetchContext(h)
      BY <3>3, <2>c, OutcomeType, GoOnType DEF FetchContext, TypeOK
    <3>4. CASE ContextUnreachable(h)
      <4>1. ctx' = [ctx EXCEPT ![h] = 0] /\ 0 \in Ref /\ goOn(h, "decide")
        BY <3>4 DEF ContextUnreachable, Ref
      <4>2. ctx' \in [Handlers -> Ref]
        BY <4>1 DEF TypeOK
      <4>3. QED
        BY <3>4, <2>c, <4>1, <4>2, GoOnType DEF ContextUnreachable, TypeOK
    <3>5. CASE ContextBroken(h)
      BY <3>5, <2>c, GoOnType DEF ContextBroken, TypeOK
    <3>6. CASE Answer(h)
      BY <3>6, <2>c, EndTurnType DEF Answer, TypeOK
    <3>7. CASE Undecided(h)
      BY <3>7, <2>c, EndTurnType DEF Undecided, TypeOK
    <3>8. CASE Propose(h)
      <4>1. /\ createAction("pending", TRUE) /\ endTurn(h, "prompt")
            /\ act' = [act EXCEPT ![h] = newest + 1]
            /\ UNCHANGED <<prefetch, history>>
        BY <3>8 DEF Propose
      <4>2. /\ rows' \in [Actions -> ActionStatus \union {"none"}]
            /\ asks' \in [Actions -> BOOLEAN]
            /\ newest' \in Ref /\ newest + 1 \in Ref /\ demo' \in BOOLEAN
        BY <4>1, <2>c DEF createAction, TypeOK
      <4>3. QED
        BY <4>1, <4>2, <2>c, EndTurnType DEF TypeOK
    <3>9. CASE ProposeLost(h)
      BY <3>9, <2>c, EndTurnType DEF ProposeLost, TypeOK
    <3>10. CASE CreatePlain(h)
      <4>1. /\ createAction("confirmed", FALSE) /\ goOn(h, "execute")
            /\ act' = [act EXCEPT ![h] = newest + 1]
            /\ UNCHANGED <<prefetch, turn, history>>
        BY <3>10 DEF CreatePlain
      <4>2. /\ rows' \in [Actions -> ActionStatus \union {"none"}]
            /\ asks' \in [Actions -> BOOLEAN]
            /\ newest' \in Ref /\ newest + 1 \in Ref /\ demo' \in BOOLEAN
        BY <4>1, <2>c DEF createAction, TypeOK
      <4>3. QED
        BY <4>1, <4>2, <2>c, GoOnType DEF TypeOK
    <3>11. CASE CreatePlainLost(h)
      BY <3>11, <2>c, EndTurnType DEF CreatePlainLost, TypeOK
    <3>12. CASE Confirm(h)
      BY <3>12, <2>c, GoOnType DEF Confirm, TypeOK
    <3>13. CASE Deny(h)
      <4>1. ctx[h] # 0
        <5>1. Decided(h, "denied")
          BY <3>13 DEF Deny
        <5>2. QED
          BY <5>1, ConfirmationIsDue
      <4>2. cancelled' \subseteq Actions
        <5>1. cancelled' = cancelled \union {ctx[h]}
          BY <3>13 DEF Deny
        <5>2. ctx[h] \in Actions
          BY <4>1 DEF TypeOK
        <5>3. QED
          BY <5>1, <5>2 DEF TypeOK
      <4>3. QED
        BY <3>13, <4>2, <2>c, EndTurnType DEF Deny, TypeOK
    <3>14. CASE Execute(h)
      BY <3>14, <2>c, GoOnType DEF Execute, TypeOK
    <3>15. CASE RateLimited(h)
      BY <3>15, <2>c, EndTurnType DEF RateLimited, TypeOK
    <3>16. CASE CallWebhook(h)
      <4>1. PICK w \in WebhookAnswer \ {"none"} :
              /\ answer' = [answer EXCEPT ![h] = w]
              /\ effects' = IF w = "refused" THEN effects
                            ELSE [effects EXCEPT ![act[h]] = @ + 1]
        BY <3>16 DEF CallWebhook
      <4>2. effects' \in [Actions -> Nat]
        <5>1. CASE act[h] \in Actions
          BY <4>1, <5>1 DEF TypeOK
        <5>2. CASE act[h] \notin Actions
          BY <4>1, <5>2 DEF TypeOK
        <5>3. QED
          BY <5>1, <5>2
      <4>3. QED
        BY <3>16, <4>1, <4>2, <2>c, GoOnType DEF CallWebhook, TypeOK
    <3>17. CASE Record(h)
      BY <3>17, <2>c, EndTurnType, SetStatusType DEF Record, TypeOK
    <3>18. CASE RecordAsFailed(h)
      BY <3>18, <2>c, EndTurnType, SetStatusType DEF RecordAsFailed, TypeOK
    <3>19. CASE RecordLost(h)
      BY <3>19, <2>c, EndTurnType DEF RecordLost, TypeOK
    <3>20. CASE ExecutorLost(h)
      BY <3>20, <2>c, EndTurnType DEF ExecutorLost, TypeOK
    <3>21. CASE Unmerged(h)
      BY <3>21, <2>c, EndTurnType DEF Unmerged, TypeOK
    <3>22. CASE StoreLost(h)
      <4>1. /\ endTurn(h, "thrown") /\ UNCHANGED <<prefetch, act, history>>
            /\ \/ createAction("pending", TRUE)
               \/ createAction("confirmed", FALSE)
               \/ UNCHANGED store
        BY <3>22 DEF StoreLost
      <4>2. /\ rows' \in [Actions -> ActionStatus \union {"none"}]
            /\ asks' \in [Actions -> BOOLEAN]
            /\ newest' \in Ref /\ demo' \in BOOLEAN
        <5>1. CASE createAction("pending", TRUE)
          BY <5>1, <2>c DEF createAction, TypeOK
        <5>2. CASE createAction("confirmed", FALSE)
          BY <5>2, <2>c DEF createAction, TypeOK
        <5>3. CASE UNCHANGED store
          BY <5>3 DEF TypeOK
        <5>4. QED
          BY <4>1, <5>1, <5>2, <5>3
      <4>3. QED
        BY <4>1, <4>2, <2>c, EndTurnType DEF TypeOK
    <3>23. CASE DemoMode(h)
      <4>1. "ok" \in WebhookAnswer
        BY DEF WebhookAnswer
      <4>2. QED
        BY <3>23, <4>1, <2>c, GoOnType DEF DemoMode, TypeOK
    <3>24. QED
      BY <2>2, <3>1, <3>2, <3>3, <3>4, <3>5, <3>6, <3>7, <3>8, <3>9, <3>10,
         <3>11, <3>12, <3>13, <3>14, <3>15, <3>16, <3>17, <3>18, <3>19, <3>20,
         <3>21, <3>22, <3>23
         DEF Turn
  <2>3. CASE Prefetch
    BY <2>3 DEF Prefetch, PrefetchState, TypeOK
  <2>4. CASE SettlePrefetch
    <3>1. PICK p \in Outcomes :
            /\ prefetch' = IF Awaiting = {} THEN p ELSE NoPrefetch
            /\ pc' = [h \in Handlers |-> IF h \in Awaiting THEN AfterPrefetch(p)
                                                   ELSE pc[h]]
            /\ ctx' = [h \in Handlers |-> IF h \in Awaiting THEN p.row
                                                    ELSE ctx[h]]
      BY <2>4 DEF SettlePrefetch
    <3>2. p \in [state : {"ready", "null", "broken"}, row : Ref]
      BY OutcomeType
    <3>3. AfterPrefetch(p) \in Control
      BY <3>2, <2>c, AfterPrefetchType
    <3>4. QED
      BY <2>4, <3>1, <3>2, <3>3
      DEF SettlePrefetch, NoPrefetch, PrefetchState, TypeOK
  <2>5. ASSUME NEW a \in Actions, OperatorConfirm(a)
        PROVE  TypeOK'
    BY <2>5, <2>c, SetStatusType DEF OperatorConfirm, TypeOK
  <2>6. ASSUME NEW a \in Actions, OperatorPatch(a)
        PROVE  TypeOK'
    BY <2>6, SetStatusType DEF OperatorPatch, TypeOK
  <2>7. QED
    BY <2>0, <2>1, <2>2, <2>3, <2>4, <2>5, <2>6 DEF Next
<1>3. QED
  BY <1>1, <1>2, PTL DEF Spec
-----------------------------------------------------------------------------
(***************************************************************************)
(* Confirm before mutate.  The step that performs an action sees only the  *)
(* row the handler holds, so the argument is an invariant about every      *)
(* handler inside the executor: its row exists (a row created meanwhile is *)
(* another one), and if it asks for consent, it is the row the handler's   *)
(* context carried and the utterance says yes.                             *)
(***************************************************************************)
RowsExist ==
  /\ prefetch.row <= newest
  /\ \A h \in Handlers : ctx[h] <= newest /\ act[h] <= newest
  /\ \A h \in Handlers : InExecutor(h) => act[h] # 0

Consented ==
  \A h \in Handlers :
    InExecutor(h) /\ asks[act[h]]
      => ctx[h] = act[h] /\ detectConfirmation(said[h])

ConsentInv == RowsExist /\ Consented

LEMMA ConsentInvariant == Spec => []ConsentInv
<1>1. Init => ConsentInv
  BY DEF Init, ConsentInv, RowsExist, Consented, InExecutor, NoPrefetch
<1>2. ConsentInv /\ TypeOK /\ TypeOK' /\ [Next]_vars => ConsentInv'
  <2> SUFFICES ASSUME ConsentInv, TypeOK, TypeOK', [Next]_vars
               PROVE  ConsentInv'
    OBVIOUS
  <2> USE DEF store, turn, history, TypeOK, ConsentInv, RowsExist, Consented,
              InExecutor
  <2>0. CASE UNCHANGED vars
    BY <2>0 DEF vars
  <2>1. ASSUME NEW h \in Handlers, Utter(h)
        PROVE  ConsentInv'
    BY <2>1 DEF Utter
  <2>2. ASSUME NEW h \in Handlers, Turn(h)
        PROVE  ConsentInv'
    <3> USE DEF endTurn, goOn
    <3>1. CASE AwaitPrefetch(h)
      BY <3>1 DEF AwaitPrefetch
    <3>2. CASE TakePrefetch(h)
      <4>1. AfterPrefetch(prefetch) \in {"decide", "fetch", "broken"}
        BY <3>2, AfterPrefetchType DEF TakePrefetch
      <4>2. QED
        BY <3>2, <4>1 DEF TakePrefetch, NoPrefetch
    <3>3. CASE FetchContext(h)
      BY <3>3 DEF FetchContext, pendingAction
    <3>4. CASE ContextUnreachable(h)
      BY <3>4 DEF ContextUnreachable
    <3>5. CASE ContextBroken(h)
      BY <3>5 DEF ContextBroken
    <3>6. CASE Answer(h)
      BY <3>6 DEF Answer
    <3>7. CASE Undecided(h)
      BY <3>7 DEF Undecided
    <3>8. CASE Propose(h)
      BY <3>8 DEF Propose, createAction
    <3>9. CASE ProposeLost(h)
      BY <3>9 DEF ProposeLost
    <3>10. CASE CreatePlain(h)
      BY <3>10 DEF CreatePlain, createAction
    <3>11. CASE CreatePlainLost(h)
      BY <3>11 DEF CreatePlainLost
    <3>12. CASE Confirm(h)
      <4>1. ctx[h] # 0 /\ detectConfirmation(said[h])
        BY <3>12, ConfirmationIsDue DEF Confirm
      <4>2. QED
        BY <3>12, <4>1 DEF Confirm
    <3>13. CASE Deny(h)
      BY <3>13 DEF Deny
    <3>14. CASE Execute(h)
      BY <3>14 DEF Execute
    <3>15. CASE RateLimited(h)
      BY <3>15 DEF RateLimited
    <3>16. CASE CallWebhook(h)
      BY <3>16 DEF CallWebhook
    <3>17. CASE Record(h)
      BY <3>17 DEF Record, setStatus
    <3>18. CASE RecordAsFailed(h)
      BY <3>18 DEF RecordAsFailed, setStatus
    <3>19. CASE RecordLost(h)
      BY <3>19 DEF RecordLost
    <3>20. CASE ExecutorLost(h)
      BY <3>20 DEF ExecutorLost
    <3>21. CASE Unmerged(h)
      BY <3>21 DEF Unmerged
    <3>22. CASE StoreLost(h)
      BY <3>22 DEF StoreLost, Decided, createAction
    <3>23. CASE DemoMode(h)
      BY <3>23 DEF DemoMode
    <3>24. QED
      BY <2>2, <3>1, <3>2, <3>3, <3>4, <3>5, <3>6, <3>7, <3>8, <3>9, <3>10,
         <3>11, <3>12, <3>13, <3>14, <3>15, <3>16, <3>17, <3>18, <3>19, <3>20,
         <3>21, <3>22, <3>23
         DEF Turn
  <2>3. CASE Prefetch
    BY <2>3 DEF Prefetch
  <2>4. CASE SettlePrefetch
    <3>1. PICK p \in Outcomes :
            /\ prefetch' = IF Awaiting = {} THEN p ELSE NoPrefetch
            /\ pc' = [h \in Handlers |-> IF h \in Awaiting THEN AfterPrefetch(p)
                                                   ELSE pc[h]]
            /\ ctx' = [h \in Handlers |-> IF h \in Awaiting THEN p.row
                                                    ELSE ctx[h]]
      BY <2>4 DEF SettlePrefetch
    <3>2. AfterPrefetch(p) \in {"decide", "fetch", "broken"}
      BY OutcomeType, AfterPrefetchType
    <3>3. p.row <= newest
      BY DEF Outcomes, pendingAction
    <3>4. prefetch'.row <= newest /\ UNCHANGED <<newest, act, asks, said>>
      BY <2>4, <3>1, <3>3 DEF SettlePrefetch, NoPrefetch
    <3>5. \A h \in Handlers : ctx'[h] <= newest
      BY <3>1, <3>3
    <3>6. \A h \in Handlers :
            InExecutor(h)' => InExecutor(h) /\ ctx'[h] = ctx[h]
      BY <3>1, <3>2 DEF Awaiting
    <3>7. QED
      BY <3>4, <3>5, <3>6
  <2>5. ASSUME NEW a \in Actions, OperatorConfirm(a)
        PROVE  ConsentInv'
    BY <2>5 DEF OperatorConfirm, setStatus
  <2>6. ASSUME NEW a \in Actions, OperatorPatch(a)
        PROVE  ConsentInv'
    BY <2>6 DEF OperatorPatch, setStatus
  <2>7. QED
    BY <2>0, <2>1, <2>2, <2>3, <2>4, <2>5, <2>6 DEF Next
<1>3. QED
  BY <1>1, <1>2, TypeCorrect, PTL DEF Spec

(***************************************************************************)
(* README.md:32, "confirm-before-mutate": for any number of overlapping    *)
(* turns, with or without prefetched contexts, whatever fails and whatever *)
(* operators write, the backend performs an action that asks for           *)
(* confirmation only in the turn of an affirmative utterance whose context *)
(* carried that action.                                                    *)
(***************************************************************************)
THEOREM ConsentBeforeMutation == Spec => MutationHasConsent
<1> DEFINE Step == \A a \in Actions :
                     effects'[a] > effects[a] /\ asks[a]
                       => \E h \in Handlers : /\ pc[h] = "webhook"
                                             /\ ctx[h] = a
                                             /\ detectConfirmation(said[h])
<1>1. TypeOK /\ ConsentInv /\ [Next]_vars => [Step]_vars
  <2> SUFFICES ASSUME TypeOK, ConsentInv, Next,
                      NEW a \in Actions, effects'[a] > effects[a], asks[a]
               PROVE  \E h \in Handlers : /\ pc[h] = "webhook"
                                        /\ ctx[h] = a
                                        /\ detectConfirmation(said[h])
    OBVIOUS
  <2>1. PICK h \in Handlers : CallWebhook(h)
    <3>1. effects' # effects
      BY DEF TypeOK
    <3> USE DEF history, store, turn
    <3>2. ASSUME NEW h \in Handlers, Turn(h), ~ CallWebhook(h)
          PROVE  effects' = effects
      BY <3>2 DEF Turn, AwaitPrefetch, TakePrefetch, FetchContext,
           ContextUnreachable, ContextBroken, Answer, Undecided, Propose,
           ProposeLost, CreatePlain, CreatePlainLost, Confirm, Deny, Execute,
           RateLimited, Record, RecordAsFailed, RecordLost, ExecutorLost,
           Unmerged, StoreLost, DemoMode
    <3>3. QED
      BY <3>1, <3>2 DEF Next, Utter, Prefetch, SettlePrefetch, OperatorConfirm,
           OperatorPatch
  <2>2. act[h] = a
    BY <2>1 DEF CallWebhook, TypeOK
  <2>3. QED
    BY <2>1, <2>2 DEF CallWebhook, ConsentInv, Consented, InExecutor
<1>2. QED
  BY <1>1, TypeCorrect, ConsentInvariant, PTL DEF Spec, MutationHasConsent
-----------------------------------------------------------------------------
(***************************************************************************)
(* The backend performs no action twice, for a caller who waits for the    *)
(* end of each turn.  The settings say what that needs: one turn at a time *)
(* (any handler is the only one), no prefetched contexts, nobody who sets  *)
(* a row back to pending, and an executor whose UPDATE is not lost.  That  *)
(* the context may be missing, an error body, or that rows are not         *)
(* created, does no harm.                                                  *)
(*                                                                         *)
(* Fresh says why: an action that has been performed is no longer pending, *)
(* except while its handler is about to write that down, and then no other *)
(* handler can read the row.  So what a context carries was not performed. *)
(***************************************************************************)
SerialSettings ==
  /\ \A g, h \in Handlers : g = h
  /\ ~ Speculation
  /\ "patch" \notin Operator
  /\ Faults \cap {"update", "executor"} = {}

Fresh ==
  /\ prefetch = NoPrefetch
  /\ \A h \in Handlers : pc[h] # "await"
  /\ \A a \in Actions : effects[a] > 0 => a <= newest
  /\ \A a \in Actions, h \in Handlers :
       effects[a] > 0 /\ rows[a] = "pending" => pc[h] = "record" /\ act[h] = a
  /\ \A h \in Handlers : pc[h] = "decide" /\ ctx[h] # 0 => effects[ctx[h]] = 0
  /\ \A h \in Handlers : pc[h] \in {"execute", "webhook"} => effects[act[h]] = 0

OnceInv == Fresh /\ AtMostOnce

\* Handler h gives its turn up, or hands its row from the rate limiter on to
\* the webhook; the rows and the backend stay as they are.
Quiet(h) ==
  /\ UNCHANGED <<rows, newest, prefetch, effects, act>>
  /\ pc[h] # "record"
  /\ pc'[h] \in {"idle", "broken", "webhook"}
  /\ pc'[h] = "webhook" => pc[h] = "execute"

LEMMA QuietStep ==
  ASSUME OnceInv, TypeOK, NEW h \in Handlers,
         \A g \in Handlers : g = h, Quiet(h)
  PROVE  OnceInv'
<1> USE DEF OnceInv, Fresh, AtMostOnce, TypeOK, Quiet
<1>1. prefetch' = NoPrefetch /\ \A g \in Handlers : pc'[g] # "await"
  OBVIOUS
<1>2. \A a \in Actions : effects'[a] > 0 => a <= newest'
  OBVIOUS
<1>3. \A a \in Actions, g \in Handlers :
        effects'[a] > 0 /\ rows'[a] = "pending"
          => pc'[g] = "record" /\ act'[g] = a
  OBVIOUS
<1>4. \A g \in Handlers :
        pc'[g] \in {"execute", "webhook"} => effects'[act'[g]] = 0
  OBVIOUS
<1>5. QED
  BY <1>1, <1>2, <1>3, <1>4

\* Handler h decides: a row that becomes pending, or is handed to the
\* executor, was not performed.
Decisive(h) ==
  /\ UNCHANGED <<prefetch, effects>>
  /\ newest <= newest'
  /\ pc[h] = "decide"
  /\ pc'[h] \in {"idle", "execute"}
  /\ pc'[h] = "execute" => effects[act'[h]] = 0
  /\ \A a \in Actions :
       rows'[a] = "pending" => rows[a] = "pending" \/ effects[a] = 0

LEMMA DecisiveStep ==
  ASSUME OnceInv, TypeOK, TypeOK', NEW h \in Handlers,
         \A g \in Handlers : g = h, Decisive(h)
  PROVE  OnceInv'
<1> USE DEF OnceInv, Fresh, AtMostOnce, Decisive
<1>1. prefetch' = NoPrefetch /\ \A g \in Handlers : pc'[g] # "await"
  OBVIOUS
<1>2. \A a \in Actions : effects'[a] > 0 => a <= newest'
  BY DEF TypeOK
<1>3. \A a \in Actions, g \in Handlers :
        effects'[a] > 0 /\ rows'[a] = "pending"
          => pc'[g] = "record" /\ act'[g] = a
  <2> SUFFICES ASSUME NEW a \in Actions, effects[a] > 0, rows'[a] = "pending"
               PROVE  FALSE
    OBVIOUS
  <2>1. rows[a] = "pending"
    OBVIOUS
  <2>2. QED
    BY <2>1
<1>4. \A g \in Handlers :
        pc'[g] \in {"execute", "webhook"} => effects'[act'[g]] = 0
  OBVIOUS
<1>5. QED
  BY <1>1, <1>2, <1>3, <1>4

\* A new row was never performed, and no other row becomes pending.
LEMMA NewRow ==
  ASSUME OnceInv, TypeOK, NEW status, NEW asking, createAction(status, asking)
  PROVE  /\ newest + 1 \in Actions /\ newest <= newest'
         /\ effects[newest + 1] = 0
         /\ \A a \in Actions :
              rows'[a] = "pending" => rows[a] = "pending" \/ effects[a] = 0
<1>1. newest + 1 \in Actions /\ newest' = newest + 1
  BY DEF createAction, TypeOK
<1>2. effects[newest + 1] = 0
  BY <1>1 DEF TypeOK, OnceInv, Fresh
<1>3. \A a \in Actions : a # newest + 1 => rows'[a] = rows[a]
  BY DEF createAction, TypeOK
<1>4. QED
  BY <1>1, <1>2, <1>3 DEF TypeOK

LEMMA OnceInvariant ==
  ASSUME SerialSettings
  PROVE  Spec => []OnceInv
<1>0. /\ ~ Speculation /\ "patch" \notin Operator
      /\ "update" \notin Faults /\ "executor" \notin Faults
  BY DEF SerialSettings
<1>1. Init => OnceInv
  BY DEF Init, OnceInv, Fresh, AtMostOnce
<1>2. OnceInv /\ RowsExist /\ TypeOK /\ TypeOK' /\ [Next]_vars => OnceInv'
  <2> SUFFICES ASSUME OnceInv, RowsExist, TypeOK, TypeOK', [Next]_vars
               PROVE  OnceInv'
    OBVIOUS
  <2> USE DEF store, turn, history
  <2>0. CASE UNCHANGED vars
    BY <2>0 DEF vars, OnceInv, Fresh, AtMostOnce
  <2>1. ASSUME NEW h \in Handlers, Utter(h)
        PROVE  OnceInv'
    BY <2>1 DEF Utter, TypeOK, OnceInv, Fresh, AtMostOnce
  <2>2. ASSUME NEW h \in Handlers, Turn(h)
        PROVE  OnceInv'
    <3>a. \A g \in Handlers : g = h
      BY DEF SerialSettings
    <3>b. ASSUME Quiet(h)
          PROVE  OnceInv'
      BY <3>a, <3>b, QuietStep
    <3>c. ASSUME Decisive(h)
          PROVE  OnceInv'
      BY <3>a, <3>c, DecisiveStep
    <3> USE DEF endTurn, goOn
    <3>1. CASE AwaitPrefetch(h)
      BY <3>1 DEF AwaitPrefetch, NoPrefetch, OnceInv, Fresh
    <3>2. CASE TakePrefetch(h)
      BY <3>2 DEF TakePrefetch, NoPrefetch, OnceInv, Fresh
    <3>3. CASE FetchContext(h)
      <4>1. pendingAction # 0 => effects[pendingAction] = 0
        <5>1. pc[h] # "record"
          BY <3>3 DEF FetchContext, MayFetch
        <5>2. ASSUME newest \in Actions, rows[newest] = "pending"
              PROVE  effects[newest] = 0
          BY <5>1, <5>2 DEF TypeOK, OnceInv, Fresh
        <5>3. QED
          BY <5>2 DEF pendingAction, Actions, Ref, TypeOK
      <4>2. /\ ctx'[h] = pendingAction /\ pc'[h] = "decide"
            /\ pc[h] # "record"
            /\ UNCHANGED <<rows, newest, prefetch, effects, act>>
        BY <3>3 DEF FetchContext, MayFetch, TypeOK
      <4>3. QED
        BY <3>a, <4>1, <4>2 DEF TypeOK, OnceInv, Fresh, AtMostOnce
    <3>4. CASE ContextUnreachable(h)
      BY <3>4, <3>a DEF ContextUnreachable, MayFetch, TypeOK, OnceInv, Fresh,
                        AtMostOnce
    <3>5. CASE ContextBroken(h)
      <4>1. Quiet(h)
        BY <3>5 DEF Quiet, ContextBroken, MayFetch, TypeOK
      <4>2. QED
        BY <4>1, <3>b
    <3>6. CASE Answer(h)
      <4>1. Quiet(h)
        BY <3>6 DEF Quiet, Answer, Decided, TypeOK
      <4>2. QED
        BY <4>1, <3>b
    <3>7. CASE Undecided(h)
      <4>1. Quiet(h)
        BY <3>7 DEF Quiet, Undecided, Decided, TypeOK
      <4>2. QED
        BY <4>1, <3>b
    <3>8. CASE Propose(h)
      <4>1. createAction("pending", TRUE)
        BY <3>8 DEF Propose
      <4>2. Decisive(h)
        BY <3>8, <4>1, NewRow DEF Decisive, Propose, Decided, TypeOK
      <4>3. QED
        BY <4>2, <3>c
    <3>9. CASE ProposeLost(h)
      <4>1. Quiet(h)
        BY <3>9 DEF Quiet, ProposeLost, Decided, TypeOK
      <4>2. QED
        BY <4>1, <3>b
    <3>10. CASE CreatePlain(h)
      <4>1. createAction("confirmed", FALSE)
        BY <3>10 DEF CreatePlain
      <4>2. Decisive(h)
        BY <3>10, <4>1, NewRow DEF Decisive, CreatePlain, Decided, TypeOK
      <4>3. QED
        BY <4>2, <3>c
    <3>11. CASE CreatePlainLost(h)
      <4>1. Quiet(h)
        BY <3>11 DEF Quiet, CreatePlainLost, Decided, TypeOK
      <4>2. QED
        BY <4>1, <3>b
    <3>12. CASE Confirm(h)
      <4>1. ctx[h] # 0
        BY <3>12, ConfirmationIsDue DEF Confirm
      <4>2. effects[ctx[h]] = 0
        BY <3>12, <4>1 DEF Confirm, Decided, OnceInv, Fresh
      <4>3. Decisive(h)
        BY <3>12, <4>2 DEF Decisive, Confirm, Decided, TypeOK
      <4>4. QED
        BY <4>3, <3>c
    <3>13. CASE Deny(h)
      <4>1. Quiet(h)
        BY <3>13 DEF Quiet, Deny, Decided, TypeOK
      <4>2. QED
        BY <4>1, <3>b
    <3>14. CASE Execute(h)
      <4>1. Quiet(h)
        BY <3>14 DEF Quiet, Execute, TypeOK
      <4>2. QED
        BY <4>1, <3>b
    <3>15. CASE RateLimited(h)
      <4>1. Quiet(h)
        BY <3>15 DEF Quiet, RateLimited, TypeOK
      <4>2. QED
        BY <4>1, <3>b
    <3>16. CASE CallWebhook(h)
      BY <3>16, <3>a DEF CallWebhook, RowsExist, InExecutor, TypeOK, OnceInv,
                         Fresh, AtMostOnce
    <3>17. CASE Record(h)
      BY <3>17, <3>a DEF Record, setStatus, RowsExist, InExecutor, TypeOK,
                         OnceInv, Fresh, AtMostOnce
    <3>18. CASE RecordAsFailed(h)
      BY <3>18, <1>0 DEF RecordAsFailed
    <3>19. CASE RecordLost(h)
      BY <3>19, <1>0 DEF RecordLost
    <3>20. CASE ExecutorLost(h)
      BY <3>20, <1>0 DEF ExecutorLost
    <3>21. CASE Unmerged(h)
      <4>1. Quiet(h)
        BY <3>21 DEF Quiet, Unmerged, TypeOK
      <4>2. QED
        BY <4>1, <3>b
    <3>22. CASE StoreLost(h)
      <4>1. CASE UNCHANGED store
        <5>1. Quiet(h)
          BY <3>22, <4>1 DEF Quiet, StoreLost, Decided, TypeOK
        <5>2. QED
          BY <5>1, <3>b
      <4>2. CASE createAction("pending", TRUE)
        <5>1. Decisive(h)
          BY <3>22, <4>2, NewRow DEF Decisive, StoreLost, Decided, TypeOK
        <5>2. QED
          BY <5>1, <3>c
      <4>3. CASE createAction("confirmed", FALSE)
        <5>1. Decisive(h)
          BY <3>22, <4>3, NewRow DEF Decisive, StoreLost, Decided, TypeOK
        <5>2. QED
          BY <5>1, <3>c
      <4>4. QED
        BY <3>22, <4>1, <4>2, <4>3 DEF StoreLost
    <3>23. CASE DemoMode(h)
      BY <3>23, <3>a DEF DemoMode, TypeOK, OnceInv, Fresh, AtMostOnce
    <3>24. QED
      BY <2>2, <3>1, <3>2, <3>3, <3>4, <3>5, <3>6, <3>7, <3>8, <3>9, <3>10,
         <3>11, <3>12, <3>13, <3>14, <3>15, <3>16, <3>17, <3>18, <3>19, <3>20,
         <3>21, <3>22, <3>23
         DEF Turn
  <2>3. CASE Prefetch
    BY <2>3, <1>0 DEF Prefetch
  <2>4. CASE SettlePrefetch
    BY <2>4 DEF SettlePrefetch, NoPrefetch, OnceInv, Fresh
  <2>5. ASSUME NEW a \in Actions, OperatorConfirm(a)
        PROVE  OnceInv'
    BY <2>5 DEF OperatorConfirm, setStatus, TypeOK, OnceInv, Fresh, AtMostOnce
  <2>6. ASSUME NEW a \in Actions, OperatorPatch(a)
        PROVE  OnceInv'
    BY <2>6, <1>0 DEF OperatorPatch
  <2>7. QED
    BY <2>0, <2>1, <2>2, <2>3, <2>4, <2>5, <2>6 DEF Next
<1>3. QED
  BY <1>1, <1>2, TypeCorrect, ConsentInvariant, PTL DEF Spec, ConsentInv

THEOREM PerformedOnce ==
  ASSUME SerialSettings
  PROVE  Spec => []AtMostOnce
BY OnceInvariant, PTL DEF OnceInv
-----------------------------------------------------------------------------
(***************************************************************************)
(* Success is reported only of what was performed.  The evidence is what   *)
(* the handler holds: an "ok" it is about to write down was preceded by    *)
(* the effect on its own row, unless it comes from the demo mode, and a    *)
(* turn that is going on has not reported success yet, so that its row is  *)
(* still the one a success was about.  What was patched stays patched.     *)
(***************************************************************************)
Evidence ==
  /\ \A h \in Handlers : pc[h] # "idle" => reply[h] # "success"
  /\ \A h \in Handlers :
       pc[h] = "record" /\ answer[h] = "ok" => demo \/ effects[act[h]] > 0
  /\ \A h \in Handlers : reply[h] = "success" => act[h] # 0

HonestInv == Evidence /\ HonestSuccess

(***************************************************************************)
(* For a client with a webhook, success is reported, and a row that no     *)
(* operator patched says executed, only after the backend performed the    *)
(* action: for any number of overlapping turns, with or without prefetched *)
(* contexts, and whatever is lost.                                         *)
(***************************************************************************)
THEOREM SuccessIsHonest == Spec => []HonestSuccess
<1>1. Init => HonestInv
  BY DEF Init, HonestInv, Evidence, HonestSuccess
<1>2. HonestInv /\ RowsExist /\ TypeOK /\ TypeOK' /\ [Next]_vars => HonestInv'
  <2> SUFFICES ASSUME HonestInv, RowsExist, TypeOK, TypeOK', [Next]_vars
               PROVE  HonestInv'
    OBVIOUS
  <2> USE DEF store, turn, history, TypeOK, HonestInv, Evidence, HonestSuccess
  <2>0. CASE UNCHANGED vars
    BY <2>0 DEF vars
  <2>1. ASSUME NEW h \in Handlers, Utter(h)
        PROVE  HonestInv'
    BY <2>1 DEF Utter
  <2>2. ASSUME NEW h \in Handlers, Turn(h)
        PROVE  HonestInv'
    <3> USE DEF endTurn, goOn, RowsExist, InExecutor
    <3>1. CASE AwaitPrefetch(h)
      BY <3>1 DEF AwaitPrefetch
    <3>2. CASE TakePrefetch(h)
      <4>1. AfterPrefetch(prefetch) \in {"decide", "fetch", "broken"}
        BY <3>2, AfterPrefetchType DEF TakePrefetch
      <4>2. QED
        BY <3>2, <4>1 DEF TakePrefetch, NoPrefetch
    <3>3. CASE FetchContext(h)
      BY <3>3 DEF FetchContext, MayFetch
    <3>4. CASE ContextUnreachable(h)
      BY <3>4 DEF ContextUnreachable, MayFetch
    <3>5. CASE ContextBroken(h)
      BY <3>5 DEF ContextBroken, MayFetch
    <3>6. CASE Answer(h)
      BY <3>6 DEF Answer, Decided
    <3>7. CASE Undecided(h)
      BY <3>7 DEF Undecided, Decided
    <3>8. CASE Propose(h)
      BY <3>8 DEF Propose, Decided, createAction
    <3>9. CASE ProposeLost(h)
      BY <3>9 DEF ProposeLost, Decided
    <3>10. CASE CreatePlain(h)
      BY <3>10 DEF CreatePlain, Decided, createAction
    <3>11. CASE CreatePlainLost(h)
      BY <3>11 DEF CreatePlainLost, Decided
    <3>12. CASE Confirm(h)
      BY <3>12 DEF Confirm, Decided
    <3>13. CASE Deny(h)
      BY <3>13 DEF Deny, Decided
    <3>14. CASE Execute(h)
      BY <3>14 DEF Execute
    <3>15. CASE RateLimited(h)
      BY <3>15 DEF RateLimited
    <3>16. CASE CallWebhook(h)
      BY <3>16 DEF CallWebhook
    <3>17. CASE Record(h)
      BY <3>17 DEF Record, setStatus
    <3>18. CASE RecordAsFailed(h)
      BY <3>18 DEF RecordAsFailed, setStatus
    <3>19. CASE RecordLost(h)
      BY <3>19 DEF RecordLost
    <3>20. CASE ExecutorLost(h)
      BY <3>20 DEF ExecutorLost
    <3>21. CASE Unmerged(h)
      BY <3>21 DEF Unmerged
    <3>22. CASE StoreLost(h)
      <4>1. /\ endTurn(h, "thrown") /\ UNCHANGED <<act, history, demo>>
            /\ \A a \in Actions :
                 rows'[a] \in {rows[a], "pending", "confirmed"}
        BY <3>22 DEF StoreLost, createAction
      <4>2. QED
        BY <4>1
    <3>23. CASE DemoMode(h)
      BY <3>23 DEF DemoMode
    <3>24. QED
      BY <2>2, <3>1, <3>2, <3>3, <3>4, <3>5, <3>6, <3>7, <3>8, <3>9, <3>10,
         <3>11, <3>12, <3>13, <3>14, <3>15, <3>16, <3>17, <3>18, <3>19, <3>20,
         <3>21, <3>22, <3>23
         DEF Turn
  <2>3. CASE Prefetch
    BY <2>3 DEF Prefetch
  <2>4. CASE SettlePrefetch
    <3>1. PICK p \in Outcomes :
            /\ pc' = [h \in Handlers |-> IF h \in Awaiting THEN AfterPrefetch(p)
                                                   ELSE pc[h]]
      BY <2>4 DEF SettlePrefetch
    <3>2. AfterPrefetch(p) \in {"decide", "fetch", "broken"}
      BY OutcomeType, AfterPrefetchType
    <3>3. QED
      BY <2>4, <3>1, <3>2 DEF SettlePrefetch, Awaiting
  <2>5. ASSUME NEW a \in Actions, OperatorConfirm(a)
        PROVE  HonestInv'
    BY <2>5 DEF OperatorConfirm, setStatus
  <2>6. ASSUME NEW a \in Actions, OperatorPatch(a)
        PROVE  HonestInv'
    BY <2>6 DEF OperatorPatch, setStatus
  <2>7. QED
    BY <2>0, <2>1, <2>2, <2>3, <2>4, <2>5, <2>6 DEF Next
<1>3. QED
  BY <1>1, <1>2, TypeCorrect, ConsentInvariant, PTL
     DEF Spec, ConsentInv, HonestInv
-----------------------------------------------------------------------------
(***************************************************************************)
(* An action without confirmation is performed once, for any number of     *)
(* overlapping turns and any faults.  Its row is never pending, unless an  *)
(* operator patches it, so no context carries it and the turn that created *)
(* it is the only one that holds it.                                       *)
(***************************************************************************)
Plain(a) == a <= newest /\ ~ asks[a] /\ a \notin patched

Unoffered ==
  \A a \in Actions :
    Plain(a) => /\ rows[a] # "pending" /\ prefetch.row # a
                /\ \A h \in Handlers : ctx[h] # a

OneOwner ==
  \A a \in Actions, h \in Handlers :
    Plain(a) /\ InExecutor(h) /\ act[h] = a
      => /\ \A g \in Handlers : InExecutor(g) /\ act[g] = a => g = h
         /\ pc[h] # "record" => effects[a] = 0

PlainInv ==
  /\ \A a \in Actions : effects[a] > 0 => a <= newest
  /\ Unoffered /\ OneOwner /\ PlainAtMostOnce

\* A step that creates no row, performs nothing, makes no row pending and lets
\* nobody into the executor; contexts come from the prefetch or the store.
Modest ==
  /\ UNCHANGED <<asks, newest, effects, patched>>
  /\ \A a \in Actions : rows'[a] = "pending" => rows[a] = "pending"
  /\ prefetch'.row \in {prefetch.row, 0, pendingAction}
  /\ \A g \in Handlers : ctx'[g] \in {ctx[g], 0, prefetch.row, pendingAction}
  /\ \A g \in Handlers :
       InExecutor(g)' => /\ InExecutor(g) /\ act'[g] = act[g]
                         /\ pc'[g] # "record" => pc[g] # "record"

LEMMA ModestStep == ASSUME PlainInv, TypeOK, Modest PROVE PlainInv'
<1>1. \A a \in Actions : Plain(a)' <=> Plain(a)
  BY DEF Plain, Modest
<1>2. \A a \in Actions : Plain(a) => pendingAction # a /\ a # 0
  BY DEF PlainInv, Unoffered, pendingAction, Actions
<1>3. Unoffered'
  BY <1>1, <1>2 DEF PlainInv, Unoffered, Modest
<1>4. OneOwner'
  BY <1>1 DEF PlainInv, OneOwner, Modest
<1>5. QED
  BY <1>3, <1>4 DEF PlainInv, PlainAtMostOnce, Modest

LEMMA PlainInvariant == Spec => []PlainInv
<1>1. Init => PlainInv
  BY DEF Init, PlainInv, Unoffered, OneOwner, PlainAtMostOnce, Plain, Actions
<1>2. PlainInv /\ RowsExist /\ TypeOK /\ TypeOK' /\ [Next]_vars => PlainInv'
  <2> SUFFICES ASSUME PlainInv, RowsExist, TypeOK, TypeOK', [Next]_vars
               PROVE  PlainInv'
    OBVIOUS
  <2> USE DEF store, turn, history
  <2>0. CASE UNCHANGED vars
    BY <2>0 DEF vars, PlainInv, Unoffered, OneOwner, PlainAtMostOnce, Plain,
       InExecutor
  <2>1. ASSUME NEW h \in Handlers, Utter(h)
        PROVE  PlainInv'
    <3>1. Modest
      BY <2>1 DEF Utter, Modest, TypeOK, InExecutor
    <3>2. QED
      BY <3>1, ModestStep
  <2>2. ASSUME NEW h \in Handlers, Turn(h)
        PROVE  PlainInv'
    <3>m. ASSUME Modest PROVE PlainInv'
      BY <3>m, ModestStep
    <3> USE DEF endTurn, goOn
    <3>1. CASE AwaitPrefetch(h) \/ FetchContext(h) \/ ContextUnreachable(h)
                 \/ ContextBroken(h)
      BY <3>1, <3>m DEF AwaitPrefetch, FetchContext, ContextUnreachable,
         ContextBroken, Modest, TypeOK, InExecutor
    <3>2. CASE TakePrefetch(h)
      <4>1. AfterPrefetch(prefetch) \in {"decide", "fetch", "broken"}
        BY <3>2, AfterPrefetchType DEF TakePrefetch, TypeOK
      <4>2. QED
        BY <3>2, <4>1, <3>m DEF TakePrefetch, NoPrefetch, Modest, TypeOK,
                                InExecutor
    <3>3. CASE \/ Answer(h) \/ Undecided(h) \/ Unmerged(h) \/ ProposeLost(h)
               \/ CreatePlainLost(h) \/ (StoreLost(h) /\ Kept)
      BY <3>3, <3>m DEF Answer, Undecided, Unmerged, ProposeLost,
         CreatePlainLost, StoreLost, Kept, Modest, TypeOK, InExecutor
    <3>4. CASE Deny(h) \/ Execute(h) \/ RateLimited(h) \/ RecordLost(h)
                 \/ ExecutorLost(h)
      BY <3>4, <3>m DEF Deny, Execute, RateLimited, RecordLost, ExecutorLost,
         Modest, TypeOK, InExecutor
    <3>5. CASE Record(h) \/ RecordAsFailed(h)
      BY <3>5, <3>m DEF Record, RecordAsFailed, setStatus, Modest, TypeOK,
         InExecutor
    <3>6. CASE Propose(h) \/ (StoreLost(h) /\ ~ Kept)
      <4>a. createAction("pending", TRUE) \/ createAction("confirmed", FALSE)
        BY <3>6 DEF Propose, StoreLost, Kept
      <4>b. /\ endTurn(h, "prompt") \/ endTurn(h, "thrown")
            /\ act' = [act EXCEPT ![h] = newest + 1] \/ act' = act
            /\ UNCHANGED <<prefetch, effects, patched>>
        BY <3>6 DEF Propose, StoreLost
      <4>1. /\ newest' = newest + 1 /\ newest + 1 \in Actions
            /\ \A a \in Actions : a # newest + 1 =>
                 rows'[a] = rows[a] /\ asks'[a] = asks[a]
            /\ asks'[newest + 1] \/ rows'[newest + 1] = "confirmed"
            /\ pc' = [pc EXCEPT ![h] = "idle"] /\ ctx' = [ctx EXCEPT ![h] = 0]
            /\ \A g \in Handlers \ {h} : act'[g] = act[g]
            /\ UNCHANGED <<prefetch, effects, patched>>
        <5>1. newest' = newest + 1 /\ newest + 1 \in Actions
          BY <4>a DEF createAction, TypeOK
        <5>2. CASE createAction("pending", TRUE)
          BY <4>b, <5>1, <5>2 DEF createAction, TypeOK
        <5>3. CASE createAction("confirmed", FALSE)
          BY <4>b, <5>1, <5>3 DEF createAction, TypeOK
        <5>4. QED
          BY <4>a, <5>2, <5>3
      <4>2. /\ \A g \in Handlers : ctx[g] # newest + 1 /\ act[g] # newest + 1
            /\ prefetch.row # newest + 1
        BY DEF RowsExist, TypeOK, Ref
      <4>3. \A a \in Actions : Plain(a)' =>
               \/ Plain(a) /\ a # newest + 1
               \/ a = newest + 1 /\ rows'[a] = "confirmed"
        <5>1. ASSUME NEW a \in Actions, Plain(a)', a # newest + 1
              PROVE  Plain(a)
          <6>1. a <= newest
            BY <4>1, <5>1 DEF Plain, TypeOK, Actions, Ref
          <6>2. QED
            BY <4>1, <5>1, <6>1 DEF Plain
        <5>2. ASSUME NEW a \in Actions, Plain(a)', a = newest + 1
              PROVE  rows'[a] = "confirmed"
          BY <4>1, <5>2 DEF Plain
        <5>3. QED
          BY <5>1, <5>2
      <4>4. effects[newest + 1] = 0
        <5>1. effects[newest + 1] \in Nat /\ newest \in Nat
          BY <4>1 DEF TypeOK, Ref
        <5>2. effects[newest + 1] > 0 => newest + 1 <= newest
          BY <4>1 DEF PlainInv
        <5>3. QED
          BY <5>1, <5>2
      <4>5. Unoffered'
        BY <4>1, <4>2, <4>3 DEF PlainInv, Unoffered, TypeOK, Actions
      <4>6. OneOwner'
        BY <4>1, <4>2, <4>3 DEF PlainInv, OneOwner, InExecutor, TypeOK
      <4>7. QED
        BY <4>1, <4>4, <4>5, <4>6
           DEF PlainInv, PlainAtMostOnce, TypeOK, Actions, Ref
    <3>7. CASE CreatePlain(h)
      <4>1. /\ newest' = newest + 1 /\ newest + 1 \in Actions
            /\ rows' = [rows EXCEPT ![newest + 1] = "confirmed"]
            /\ asks' = [asks EXCEPT ![newest + 1] = FALSE]
            /\ pc' = [pc EXCEPT ![h] = "execute"] /\ pc[h] = "decide"
            /\ act' = [act EXCEPT ![h] = newest + 1]
            /\ UNCHANGED <<prefetch, ctx, effects, patched>>
        BY <3>7 DEF CreatePlain, Decided, createAction, TypeOK, Actions, Ref
      <4>2. \A a \in Actions : Plain(a)' => Plain(a) \/ a = newest + 1
        BY <4>1 DEF Plain, TypeOK, Actions, Ref
      <4>3. \A g \in Handlers : /\ ctx[g] # newest + 1 /\ act[g] # newest + 1
                               /\ prefetch.row # newest + 1
        BY DEF RowsExist, TypeOK, Ref
      <4>4. effects[newest + 1] = 0
        <5>1. effects[newest + 1] \in Nat /\ newest \in Nat
          BY <4>1 DEF TypeOK, Ref
        <5>2. effects[newest + 1] > 0 => newest + 1 <= newest
          BY <4>1 DEF PlainInv
        <5>3. QED
          BY <5>1, <5>2
      <4>5. Unoffered'
        BY <4>1, <4>2, <4>3 DEF PlainInv, Unoffered, TypeOK, Actions
      <4>6. OneOwner'
        BY <4>1, <4>2, <4>3, <4>4 DEF PlainInv, OneOwner, InExecutor, TypeOK
      <4>7. QED
        BY <4>1, <4>4, <4>5, <4>6
           DEF PlainInv, PlainAtMostOnce, TypeOK, Actions, Ref
    <3>8. CASE Confirm(h)
      <4>1. /\ act' = [act EXCEPT ![h] = ctx[h]]
            /\ pc' = [pc EXCEPT ![h] = "execute"]
            /\ UNCHANGED <<store, prefetch, ctx, effects, patched>>
        BY <3>8 DEF Confirm
      <4>2. \A a \in Actions : Plain(a)' <=> Plain(a)
        BY <4>1 DEF Plain
      <4>3. OneOwner'
        BY <4>1, <4>2 DEF PlainInv, Unoffered, OneOwner, InExecutor, TypeOK
      <4>4. QED
        BY <4>1, <4>2, <4>3 DEF PlainInv, Unoffered, PlainAtMostOnce
    <3>9. CASE CallWebhook(h) \/ DemoMode(h)
      <4>1. /\ pc[h] = "webhook" /\ pc' = [pc EXCEPT ![h] = "record"]
            /\ \/ effects' = effects
               \/ effects' = [effects EXCEPT ![act[h]] = @ + 1]
            /\ UNCHANGED <<store, prefetch, ctx, act, patched>>
        BY <3>9 DEF CallWebhook, DemoMode
      <4>2. \A a \in Actions : Plain(a)' <=> Plain(a)
        BY <4>1 DEF Plain
      <4>3. act[h] \in Actions /\ act[h] <= newest
        BY <4>1 DEF RowsExist, InExecutor, TypeOK, Actions, Ref
      <4>4. \A a \in Actions : a # act[h] => effects'[a] = effects[a]
        BY <4>1 DEF TypeOK
      <4>5. \A g \in Handlers :
              InExecutor(g)' => /\ InExecutor(g)
                                /\ pc'[g] # "record" =>
                                     pc[g] # "record" /\ g # h
        BY <4>1 DEF InExecutor, TypeOK
      <4>6. OneOwner'
        BY <4>1, <4>2, <4>4, <4>5 DEF PlainInv, OneOwner, InExecutor
      <4>7. PlainAtMostOnce'
        <5>1. Plain(act[h]) => effects'[act[h]] <= 1
          <6>1. Plain(act[h]) => effects[act[h]] = 0
            BY <4>1, <4>3 DEF PlainInv, OneOwner, InExecutor
          <6>2. QED
            BY <4>1, <4>3, <6>1 DEF TypeOK
        <5>2. \A a \in Actions :
                ~ asks'[a] /\ a \notin patched' => effects'[a] <= 1
          BY <4>1, <4>3, <4>4, <5>1 DEF PlainInv, PlainAtMostOnce, Plain
        <5>3. QED
          BY <5>2 DEF PlainAtMostOnce
      <4>8. \A a \in Actions : effects'[a] > 0 => a <= newest
        BY <4>3, <4>4 DEF PlainInv
      <4>9. QED
        BY <4>1, <4>2, <4>6, <4>7, <4>8 DEF PlainInv, Unoffered
    <3>10. QED
      BY <2>2, <3>1, <3>2, <3>3, <3>4, <3>5, <3>6, <3>7, <3>8, <3>9 DEF Turn
  <2>3. CASE Prefetch
    <3>1. Modest
      BY <2>3 DEF Prefetch, Modest, TypeOK, InExecutor
    <3>2. QED
      BY <3>1, ModestStep
  <2>4. CASE SettlePrefetch
    <3>1. PICK p \in Outcomes :
            /\ prefetch' = IF Awaiting = {} THEN p ELSE NoPrefetch
            /\ pc' = [h \in Handlers |-> IF h \in Awaiting THEN AfterPrefetch(p)
                                                   ELSE pc[h]]
            /\ ctx' = [h \in Handlers |-> IF h \in Awaiting THEN p.row
                                                    ELSE ctx[h]]
      BY <2>4 DEF SettlePrefetch
    <3>2. AfterPrefetch(p) \in {"decide", "fetch", "broken"}
      BY OutcomeType, AfterPrefetchType
    <3>3. p.row \in {0, pendingAction}
      BY DEF Outcomes
    <3>4. Modest
      BY <2>4, <3>1, <3>2, <3>3
         DEF SettlePrefetch, NoPrefetch, Awaiting, Modest, InExecutor
    <3>5. QED
      BY <3>4, ModestStep
  <2>5. ASSUME NEW a \in Actions, OperatorConfirm(a)
        PROVE  PlainInv'
    <3>1. Modest
      BY <2>5 DEF OperatorConfirm, setStatus, Modest, TypeOK, InExecutor
    <3>2. QED
      BY <3>1, ModestStep
  <2>6. ASSUME NEW a \in Actions, OperatorPatch(a)
        PROVE  PlainInv'
    <3>1. /\ \A b \in Actions : b # a => rows'[b] = rows[b]
          /\ patched' = patched \union {a}
          /\ UNCHANGED <<asks, newest, prefetch, pc, ctx, act, effects>>
      BY <2>6 DEF OperatorPatch, setStatus, TypeOK
    <3>2. \A b \in Actions : Plain(b)' <=> Plain(b) /\ b # a
      BY <3>1 DEF Plain
    <3>3. Unoffered' /\ OneOwner'
      BY <3>1, <3>2 DEF PlainInv, Unoffered, OneOwner, InExecutor
    <3>4. QED
      BY <3>1, <3>3 DEF PlainInv, PlainAtMostOnce
  <2>7. QED
    BY <2>0, <2>1, <2>2, <2>3, <2>4, <2>5, <2>6 DEF Next
<1>3. QED
  BY <1>1, <1>2, TypeCorrect, ConsentInvariant, PTL DEF Spec, ConsentInv

(***************************************************************************)
(* Whatever overlaps and whatever is lost, an action that needs no         *)
(* confirmation is performed at most once, unless an operator patched its  *)
(* row.                                                                    *)
(***************************************************************************)
THEOREM PlainPerformedOnce == Spec => []PlainAtMostOnce
BY PlainInvariant, PTL DEF PlainInv
-----------------------------------------------------------------------------
(***************************************************************************)
(* The two forms of the orchestrator.  Not an invariant that needs the     *)
(* behaviours: it holds of every request that has its configuration, and   *)
(* every request of a handler has.                                         *)
(***************************************************************************)
LEMMA FormsDiffer ==
  ASSUME NEW r \in OrchestratorRequest, r.config,
         NEW reached \in LlmReply, NEW streamed \in {reached, "failure"}
  PROVE  process(r, reached) # processStream(r, streamed, reached)
           <=> IF r.pending THEN r.low ELSE ~ r.low /\ reached = "failure"
<1>1. \A x \in LlmReply \ {"failure"} :
        toolDecision(x) \in {"respond", "escalate", "propose", "act"}
  BY DEF toolDecision, LlmReply
<1>2. confirmAction(r) \in {"confirmed", "denied"}
  BY DEF confirmAction
<1>3. CASE r.pending
  BY <1>2, <1>3 DEF process, processStream, OrchestratorRequest
<1>4. CASE ~ r.pending /\ r.low
  BY <1>4 DEF process, processStream, OrchestratorRequest
<1>5. CASE ~ r.pending /\ ~ r.low
  <2>1. process(r, reached) =
          IF reached = "failure" THEN "respond" ELSE toolDecision(reached)
    BY <1>5 DEF process, OrchestratorRequest
  <2>2. processStream(r, streamed, reached) =
          IF reached = "failure" THEN "throw" ELSE toolDecision(reached)
    BY <1>5 DEF processStream, OrchestratorRequest
  <2>3. QED
    BY <1>5, <2>1, <2>2
<1>6. QED
  BY <1>3, <1>4, <1>5 DEF OrchestratorRequest

(***************************************************************************)
(* processStream and process decide the same of every request a handler    *)
(* can make, but for the two differences FormsAgree names.                 *)
(***************************************************************************)
THEOREM FormsAgreeAlways == Spec => []FormsAgree
<1>1. TypeOK => FormsAgree
  <2> SUFFICES ASSUME TypeOK, NEW h \in Handlers, NEW low \in BOOLEAN,
                      NEW reached \in LlmReply,
                      NEW streamed \in {reached, "failure"}
               PROVE  LET r == Request(h, low)
                      IN process(r, reached)
                           # processStream(r, streamed, reached)
                           <=> IF r.pending THEN low
                               ELSE ~ low /\ reached = "failure"
    BY DEF FormsAgree
  <2>1. /\ Request(h, low) \in OrchestratorRequest
        /\ Request(h, low).config /\ Request(h, low).low = low
    BY DEF Request, OrchestratorRequest, TypeOK
  <2>2. QED
    BY <2>1, FormsDiffer
<1>2. QED
  BY <1>1, TypeCorrect, PTL

\* What else than an answer to a question needs that none is pending.
LEMMA NewActionIsAlone ==
  ASSUME NEW h \in Handlers, Decided(h, "propose") \/ Decided(h, "act")
  PROVE  pc[h] = "decide" /\ ctx[h] = 0
<1>1. ASSUME NEW r, r.config = TRUE, r.pending = TRUE, r.low \in BOOLEAN
      PROVE  /\ \A x \in LlmReply : process(r, x) \notin {"propose", "act"}
             /\ \A s, x \in LlmReply :
                  processStream(r, s, x) \notin {"propose", "act"}
  BY <1>1 DEF process, processStream, confirmAction
<1>2. ASSUME ctx[h] # 0, NEW low \in BOOLEAN
      PROVE  /\ Request(h, low).config = TRUE
             /\ Request(h, low).pending = TRUE
             /\ Request(h, low).low \in BOOLEAN
  BY <1>2 DEF Request
<1>3. ASSUME ctx[h] # 0, NEW d \in Decisions(h)
      PROVE  d \notin {"propose", "act"}
  <2>1. CASE \E low \in BOOLEAN, s, x \in LlmReply :
               d = processStream(Request(h, low), s, x)
    BY <1>1, <1>2, <1>3, <2>1
  <2>2. CASE \E low \in BOOLEAN, x \in LlmReply :
               d = process(Request(h, low), x)
    BY <1>1, <1>2, <1>3, <2>2
  <2>3. QED
    BY <1>3, <2>1, <2>2 DEF Decisions
<1>4. QED
  BY <1>3 DEF Decided
-----------------------------------------------------------------------------
\* One turn at a time: the caller, or the client, waits for the end of each.
OneAtATime == \A g, h \in Handlers : g = h
-----------------------------------------------------------------------------
\* Without prefetched contexts there is nothing to await.
NoneFetched == prefetch = NoPrefetch /\ \A h \in Handlers : pc[h] # "await"

LEMMA NothingFetched ==
  ASSUME ~ Speculation
  PROVE  Spec => []NoneFetched
<1>1. Init => NoneFetched
  BY DEF Init, NoneFetched
<1>2. NoneFetched /\ TypeOK /\ [Next]_vars => NoneFetched'
  <2> SUFFICES ASSUME NoneFetched, TypeOK, [Next]_vars
               PROVE  NoneFetched'
    OBVIOUS
  <2> USE DEF NoneFetched, NoPrefetch, TypeOK
  <2>0. CASE UNCHANGED vars
    BY <2>0 DEF vars
  <2>1. ASSUME NEW h \in Handlers, Utter(h) PROVE NoneFetched'
    BY <2>1 DEF Utter
  <2>2. ASSUME NEW h \in Handlers, Turn(h) PROVE NoneFetched'
    <3>1. ~ AwaitPrefetch(h) /\ ~ TakePrefetch(h)
      BY DEF AwaitPrefetch, TakePrefetch
    <3> USE DEF endTurn, goOn
    <3>2. CASE FetchContext(h) \/ ContextUnreachable(h) \/ ContextBroken(h)
      BY <3>2 DEF FetchContext, ContextUnreachable, ContextBroken
    <3>3. CASE \/ Answer(h) \/ Undecided(h) \/ Unmerged(h) \/ ProposeLost(h)
               \/ CreatePlainLost(h) \/ Confirm(h) \/ Deny(h)
      BY <3>3 DEF Answer, Undecided, Unmerged, ProposeLost, CreatePlainLost,
         Confirm, Deny
    <3>4. CASE Propose(h) \/ CreatePlain(h) \/ StoreLost(h)
      BY <3>4 DEF Propose, CreatePlain, StoreLost
    <3>5. CASE \/ Execute(h) \/ RateLimited(h) \/ CallWebhook(h)
               \/ DemoMode(h)
      BY <3>5 DEF Execute, RateLimited, CallWebhook, DemoMode
    <3>6. CASE \/ Record(h) \/ RecordAsFailed(h) \/ RecordLost(h)
               \/ ExecutorLost(h)
      BY <3>6 DEF Record, RecordAsFailed, RecordLost, ExecutorLost
    <3>7. QED
      BY <2>2, <3>1, <3>2, <3>3, <3>4, <3>5, <3>6 DEF Turn
  <2>3. ~ Prefetch /\ ~ SettlePrefetch
    BY DEF Prefetch, SettlePrefetch
  <2>4. CASE \E a \in Actions : OperatorConfirm(a) \/ OperatorPatch(a)
    BY <2>4 DEF OperatorConfirm, OperatorPatch
  <2>5. QED
    BY <2>0, <2>1, <2>2, <2>3, <2>4 DEF Next
<1>3. QED
  BY <1>1, <1>2, TypeCorrect, PTL DEF Spec
-----------------------------------------------------------------------------
(***************************************************************************)
(* Only the newest row is pending.  A turn creates a row only when its     *)
(* context carries none, and with one turn at a time that still means at   *)
(* the decision that none is pending.  It needs the store to be reachable: *)
(* a context that is empty because the store did not answer hides the row  *)
(* that is pending.                                                        *)
(***************************************************************************)
PendingInv ==
  /\ OnlyNewestPending
  /\ \A h \in Handlers : pc[h] = "decide" /\ ctx[h] = 0 => pendingAction = 0

\* A new row pushes no pending row aside.
LEMMA NewRowAlone ==
  ASSUME PendingInv, TypeOK, pendingAction = 0,
         NEW status, NEW asking, createAction(status, asking)
  PROVE  OnlyNewestPending'
<1>1. newest + 1 \in Actions /\ newest' = newest + 1
  BY DEF createAction, TypeOK
<1>2. \A a \in Actions : a # newest + 1 => rows'[a] = rows[a]
  BY DEF createAction, TypeOK
<1>3. \A a \in Actions : rows[a] # "pending"
  BY DEF PendingInv, OnlyNewestPending, pendingAction, TypeOK
<1>4. QED
  BY <1>1, <1>2, <1>3 DEF OnlyNewestPending

LEMMA PendingInvariant ==
  ASSUME OneAtATime, ~ Speculation, "patch" \notin Operator,
         "unreachable" \notin Faults
  PROVE  Spec => []PendingInv
<1>1. Init => PendingInv
  BY DEF Init, PendingInv, OnlyNewestPending
<1>2. PendingInv /\ NoneFetched /\ TypeOK /\ TypeOK' /\ [Next]_vars
        => PendingInv'
  <2> SUFFICES ASSUME PendingInv, NoneFetched, TypeOK, TypeOK', [Next]_vars
               PROVE  PendingInv'
    OBVIOUS
  <2> USE DEF store, turn, history
  <2>0. CASE UNCHANGED vars
    BY <2>0 DEF vars, PendingInv, OnlyNewestPending, pendingAction
  <2>1. ASSUME NEW h \in Handlers, Utter(h)
        PROVE  PendingInv'
    BY <2>1 DEF Utter, PendingInv, OnlyNewestPending, pendingAction, TypeOK
  <2>2. ASSUME NEW h \in Handlers, Turn(h)
        PROVE  PendingInv'
    <3> USE DEF endTurn, goOn
    <3>0. \A g \in Handlers : g = h
      BY DEF OneAtATime
    <3>a. ASSUME OnlyNewestPending', pc'[h] # "decide" \/ ctx'[h] # 0
          PROVE  PendingInv'
      BY <3>0, <3>a DEF PendingInv
    <3>b. ASSUME UNCHANGED <<rows, newest>>
          PROVE  OnlyNewestPending' /\ pendingAction' = pendingAction
      BY <3>b DEF PendingInv, OnlyNewestPending, pendingAction
    <3>1. ~ AwaitPrefetch(h) /\ ~ TakePrefetch(h)
      BY DEF AwaitPrefetch, TakePrefetch, NoneFetched, NoPrefetch
    <3>2. CASE FetchContext(h)
      <4>1. ctx'[h] = pendingAction /\ UNCHANGED <<rows, newest>>
        BY <3>2 DEF FetchContext, TypeOK
      <4>2. QED
        BY <3>0, <3>b, <4>1 DEF PendingInv
    <3>3. ~ ContextUnreachable(h)
      BY DEF ContextUnreachable
    <3>4. CASE \/ ContextBroken(h) \/ Execute(h) \/ CallWebhook(h)
               \/ DemoMode(h) \/ Confirm(h)
      <4>1. pc'[h] # "decide" /\ UNCHANGED <<rows, newest>>
        BY <3>4 DEF ContextBroken, Execute, CallWebhook, DemoMode, Confirm,
           TypeOK
      <4>2. QED
        BY <3>a, <3>b, <4>1
    <3>5. CASE \/ Answer(h) \/ Undecided(h) \/ Unmerged(h) \/ ProposeLost(h)
               \/ CreatePlainLost(h) \/ (StoreLost(h) /\ Kept)
               \/ Deny(h) \/ RateLimited(h) \/ RecordLost(h)
               \/ ExecutorLost(h)
      <4>1. pc'[h] = "idle" /\ UNCHANGED <<rows, newest>>
        BY <3>5 DEF Answer, Undecided, Unmerged, ProposeLost, CreatePlainLost,
           StoreLost, Kept, Deny, RateLimited, RecordLost, ExecutorLost, TypeOK
      <4>2. QED
        BY <3>a, <3>b, <4>1
    <3>6. CASE \/ Propose(h) \/ CreatePlain(h)
               \/ (StoreLost(h) /\ ~ Kept)
      <4>1. pendingAction = 0
        BY <3>6, NewActionIsAlone DEF Propose, CreatePlain, StoreLost, Kept,
           PendingInv
      <4>2. createAction("pending", TRUE) \/ createAction("confirmed", FALSE)
        BY <3>6 DEF Propose, CreatePlain, StoreLost, Kept
      <4>3. OnlyNewestPending'
        BY <4>1, <4>2, NewRowAlone
      <4>4. pc'[h] # "decide"
        BY <3>6 DEF Propose, CreatePlain, StoreLost, TypeOK
      <4>5. QED
        BY <3>a, <4>3, <4>4
    <3>7. CASE Record(h) \/ RecordAsFailed(h)
      <4>1. PICK status \in {"executed", "failed"} : setStatus(act[h], status)
        BY <3>7 DEF Record, RecordAsFailed
      <4>2. \A a \in Actions : rows'[a] \in {rows[a], "executed", "failed"}
        BY <4>1 DEF setStatus, TypeOK
      <4>3. OnlyNewestPending'
        BY <4>1, <4>2 DEF setStatus, PendingInv, OnlyNewestPending
      <4>4. pc'[h] = "idle"
        BY <3>7 DEF Record, RecordAsFailed, TypeOK
      <4>5. QED
        BY <3>a, <4>3, <4>4
    <3>8. QED
      BY <2>2, <3>1, <3>2, <3>3, <3>4, <3>5, <3>6, <3>7 DEF Turn
  <2>3. ~ Prefetch /\ ~ SettlePrefetch
    BY DEF Prefetch, SettlePrefetch, NoneFetched, NoPrefetch
  <2>4. ASSUME NEW a \in Actions, OperatorConfirm(a)
        PROVE  PendingInv'
    <3>1. PICK status \in {"confirmed", "denied"} : setStatus(a, status)
      BY <2>4 DEF OperatorConfirm
    <3>2. /\ newest' = newest
          /\ \A b \in Actions : rows'[b] \in {rows[b], "confirmed", "denied"}
      BY <3>1 DEF setStatus, TypeOK
    <3>3. OnlyNewestPending' /\ (pendingAction = 0 => pendingAction' = 0)
      <4>1. OnlyNewestPending'
        BY <3>2 DEF PendingInv, OnlyNewestPending
      <4>2. CASE newest = 0
        BY <3>2, <4>1, <4>2 DEF pendingAction
      <4>3. CASE newest > 0
        <5>1. newest \in Actions
          BY <4>3 DEF TypeOK
        <5>2. rows'[newest'] = "pending" => rows[newest] = "pending"
          BY <3>2, <5>1
        <5>3. QED
          BY <3>2, <4>1, <4>3, <5>2 DEF pendingAction
      <4>4. QED
        BY <4>2, <4>3 DEF TypeOK
    <3>4. UNCHANGED <<pc, ctx>>
      BY <2>4 DEF OperatorConfirm
    <3>5. QED
      BY <3>3, <3>4 DEF PendingInv
  <2>5. ASSUME NEW a \in Actions
        PROVE  ~ OperatorPatch(a)
    BY DEF OperatorPatch
  <2>6. QED
    BY <2>0, <2>1, <2>2, <2>3, <2>4, <2>5 DEF Next
<1>3. QED
  BY <1>1, <1>2, TypeCorrect, NothingFetched, PTL DEF Spec

(***************************************************************************)
(* No row is left pending behind a newer one, where no lookup could find   *)
(* it again: for one turn at a time, without prefetched contexts, nobody   *)
(* who sets a row back to pending, and a store that answers.  It may       *)
(* answer with errors, and the executor may be lost.                       *)
(***************************************************************************)
THEOREM NoPendingRowIsBuried ==
  ASSUME OneAtATime, ~ Speculation, "patch" \notin Operator,
         "unreachable" \notin Faults
  PROVE  Spec => []OnlyNewestPending
BY PendingInvariant, PTL DEF PendingInv
-----------------------------------------------------------------------------
(***************************************************************************)
(* A settled row is final.  No UPDATE looks at the old status, so it takes *)
(* the fact that a row is handed on only while it is not settled: what the *)
(* context carries was pending when it was read, and with one turn at a    *)
(* time only operators write meanwhile, who settle nothing.                *)
(***************************************************************************)
Settled(a) == rows[a] \in {"executed", "failed"}

SettledInv ==
  /\ \A a \in Actions : a > newest => rows[a] = "none"
  /\ \A h \in Handlers : pc[h] = "decide" /\ ctx[h] # 0 => ~ Settled(ctx[h])
  /\ \A h \in Handlers : InExecutor(h) => ~ Settled(act[h])

LEMMA SettledInvariant ==
  ASSUME OneAtATime, ~ Speculation, "patch" \notin Operator
  PROVE  Spec => []SettledInv
<1>1. Init => SettledInv
  BY DEF Init, SettledInv, InExecutor
<1>2. SettledInv /\ RowsExist /\ NoneFetched /\ TypeOK /\ TypeOK'
        /\ [Next]_vars => SettledInv'
  <2> SUFFICES ASSUME SettledInv, RowsExist, NoneFetched, TypeOK, TypeOK',
                      [Next]_vars
               PROVE  SettledInv'
    OBVIOUS
  <2> USE DEF store, turn, history
  <2>0. CASE UNCHANGED vars
    BY <2>0 DEF vars, SettledInv, Settled, InExecutor
  <2>1. ASSUME NEW h \in Handlers, Utter(h)
        PROVE  SettledInv'
    BY <2>1 DEF Utter, SettledInv, Settled, InExecutor, TypeOK
  <2>2. ASSUME NEW h \in Handlers, Turn(h)
        PROVE  SettledInv'
    <3> USE DEF endTurn, goOn
    <3>0. \A g \in Handlers : g = h
      BY DEF OneAtATime
    <3>a. ASSUME UNCHANGED <<rows, newest>>, pc'[h] \in {"idle", "broken"}
          PROVE  SettledInv'
      BY <3>0, <3>a DEF SettledInv, InExecutor
    <3>1. ~ AwaitPrefetch(h) /\ ~ TakePrefetch(h)
      BY DEF AwaitPrefetch, TakePrefetch, NoneFetched, NoPrefetch
    <3>2. CASE FetchContext(h) \/ ContextUnreachable(h)
      <4>1. /\ ctx'[h] \in {0, pendingAction} /\ pc'[h] = "decide"
            /\ UNCHANGED <<rows, newest>>
        BY <3>2 DEF FetchContext, ContextUnreachable, TypeOK
      <4>2. pendingAction # 0 => ~ Settled(pendingAction)
        BY DEF pendingAction, Settled
      <4>3. QED
        BY <3>0, <4>1, <4>2 DEF SettledInv, Settled, InExecutor
    <3>3. CASE \/ ContextBroken(h) \/ Answer(h) \/ Undecided(h)
               \/ Unmerged(h) \/ (StoreLost(h) /\ Kept)
               \/ ProposeLost(h) \/ CreatePlainLost(h) \/ Deny(h)
               \/ RateLimited(h) \/ RecordLost(h) \/ ExecutorLost(h)
      <4>1. pc'[h] \in {"idle", "broken"} /\ UNCHANGED <<rows, newest>>
        BY <3>3 DEF ContextBroken, Answer, Undecided, Unmerged, StoreLost, Kept,
           ProposeLost, CreatePlainLost, Deny, RateLimited, RecordLost,
           ExecutorLost, TypeOK
      <4>2. QED
        BY <3>a, <4>1
    <3>4. CASE \/ Propose(h) \/ CreatePlain(h)
               \/ (StoreLost(h) /\ ~ Kept)
      <4>1. PICK status \in {"pending", "confirmed"} :
              /\ newest + 1 \in Actions /\ newest' = newest + 1
              /\ rows' = [rows EXCEPT ![newest + 1] = status]
        BY <3>4 DEF Propose, CreatePlain, StoreLost, Kept, createAction, TypeOK
      <4>2. ASSUME NEW a \in Actions, a > newest'
            PROVE  rows'[a] = "none"
        <5>1. a \in Nat /\ newest \in Nat
          BY DEF Actions, Ref, TypeOK
        <5>2. a > newest /\ a # newest + 1
          BY <4>1, <4>2, <5>1
        <5>3. rows[a] = "none" /\ rows'[a] = rows[a]
          BY <4>1, <5>2 DEF SettledInv, TypeOK
        <5>4. QED
          BY <5>3
      <4>3. pc'[h] \in {"idle", "execute"}
        BY <3>4 DEF Propose, CreatePlain, StoreLost, TypeOK
      <4>4. pc'[h] = "execute" => act'[h] = newest + 1
        BY <3>4 DEF Propose, CreatePlain, StoreLost, TypeOK
      <4>5. InExecutor(h)' => rows'[act'[h]] = status
        BY <4>1, <4>3, <4>4 DEF InExecutor, TypeOK
      <4>6. QED
        BY <3>0, <4>2, <4>3, <4>5 DEF SettledInv, Settled
    <3>5. CASE Confirm(h)
      <4>1. ctx[h] # 0 /\ pc[h] = "decide"
        BY <3>5, ConfirmationIsDue DEF Confirm, Decided
      <4>2. act'[h] = ctx[h] /\ pc'[h] = "execute" /\ UNCHANGED <<rows, newest>>
        BY <3>5 DEF Confirm, TypeOK
      <4>3. QED
        BY <3>0, <4>1, <4>2 DEF SettledInv, Settled
    <3>6. CASE Execute(h) \/ CallWebhook(h) \/ DemoMode(h)
      <4>1. /\ InExecutor(h) /\ pc'[h] # "decide"
            /\ UNCHANGED <<rows, newest, act>>
        BY <3>6 DEF Execute, CallWebhook, DemoMode, InExecutor, TypeOK
      <4>2. QED
        BY <3>0, <4>1 DEF SettledInv, Settled
    <3>7. CASE Record(h) \/ RecordAsFailed(h)
      <4>1. /\ InExecutor(h) /\ pc'[h] = "idle" /\ newest' = newest
            /\ \A a \in Actions : a # act[h] => rows'[a] = rows[a]
        BY <3>7 DEF Record, RecordAsFailed, setStatus, InExecutor, TypeOK
      <4>2. act[h] <= newest
        BY DEF RowsExist
      <4>3. QED
        BY <3>0, <4>1, <4>2 DEF SettledInv, InExecutor, TypeOK
    <3>8. QED
      BY <2>2, <3>1, <3>2, <3>3, <3>4, <3>5, <3>6, <3>7 DEF Turn
  <2>3. ~ Prefetch /\ ~ SettlePrefetch
    BY DEF Prefetch, SettlePrefetch, NoneFetched, NoPrefetch
  <2>4. ASSUME NEW a \in Actions, OperatorConfirm(a)
        PROVE  SettledInv'
    <3>1. PICK status \in {"confirmed", "denied"} :
            /\ a <= newest /\ newest' = newest
            /\ rows' = [rows EXCEPT ![a] = status]
      BY <2>4 DEF OperatorConfirm, setStatus
    <3>2. UNCHANGED <<pc, ctx, act>>
      BY <2>4 DEF OperatorConfirm
    <3>3. \A b \in Ref : ~ Settled(b) => ~ Settled(b)'
      BY <3>1 DEF Settled, TypeOK
    <3>4. \A b \in Actions : b > newest => rows'[b] = "none"
      BY <3>1 DEF SettledInv, TypeOK
    <3>5. QED
      BY <3>1, <3>2, <3>3, <3>4 DEF SettledInv, InExecutor, TypeOK
  <2>5. ASSUME NEW a \in Actions
        PROVE  ~ OperatorPatch(a)
    BY DEF OperatorPatch
  <2>6. QED
    BY <2>0, <2>1, <2>2, <2>3, <2>4, <2>5 DEF Next
<1>3. QED
  BY <1>1, <1>2, TypeCorrect, NothingFetched, ConsentInvariant, PTL
     DEF Spec, ConsentInv

(***************************************************************************)
(* For one turn at a time, without prefetched contexts and without a PATCH *)
(* of a row, and whatever fails, no turn changes a row that is executed or *)
(* failed.                                                                 *)
(***************************************************************************)
THEOREM SettledRowsStay ==
  ASSUME OneAtATime, ~ Speculation, "patch" \notin Operator
  PROVE  Spec => SettledIsFinal
<1> DEFINE Step == (\E h \in Handlers : pc'[h] # pc[h]) =>
                     \A a \in Actions :
                       rows[a] \in {"executed", "failed"} => rows'[a] = rows[a]
<1>1. SettledInv /\ NoneFetched /\ TypeOK /\ [Next]_vars => [Step]_vars
  <2> SUFFICES ASSUME SettledInv, NoneFetched, TypeOK, Next,
                      NEW g \in Handlers, pc'[g] # pc[g],
                      NEW a \in Actions, Settled(a)
               PROVE  rows'[a] = rows[a]
    BY DEF Settled
  <2> USE DEF store, turn, history
  <2>1. CASE \E h \in Handlers : Utter(h)
    BY <2>1 DEF Utter
  <2>2. ASSUME NEW h \in Handlers, Turn(h)
        PROVE  rows'[a] = rows[a]
    <3>1. CASE Propose(h) \/ CreatePlain(h) \/ StoreLost(h)
      BY <3>1 DEF Propose, CreatePlain, StoreLost, createAction, SettledInv,
         Settled, TypeOK
    <3>2. CASE Record(h) \/ RecordAsFailed(h)
      <4>1. InExecutor(h) /\ \A b \in Actions : b # act[h] => rows'[b] = rows[b]
        BY <3>2 DEF Record, RecordAsFailed, setStatus, InExecutor, TypeOK
      <4>2. QED
        BY <4>1 DEF SettledInv
    <3>3. CASE ~ (\/ Propose(h) \/ CreatePlain(h) \/ StoreLost(h)
                 \/ Record(h) \/ RecordAsFailed(h))
      BY <2>2, <3>3 DEF Turn, AwaitPrefetch, TakePrefetch, FetchContext,
         ContextUnreachable, ContextBroken, Answer, Undecided, Unmerged,
         ProposeLost, CreatePlainLost, Confirm, Deny, Execute, RateLimited,
         DemoMode, CallWebhook, RecordLost, ExecutorLost
    <3>4. QED
      BY <3>1, <3>2, <3>3
  <2>3. ~ Prefetch /\ ~ SettlePrefetch
    BY DEF Prefetch, SettlePrefetch, NoneFetched, NoPrefetch
  <2>4. CASE \E b \in Actions : OperatorConfirm(b) \/ OperatorPatch(b)
    BY <2>4 DEF OperatorConfirm, OperatorPatch
  <2>5. QED
    BY <2>1, <2>2, <2>3, <2>4 DEF Next
<1>2. QED
  BY <1>1, TypeCorrect, NothingFetched, SettledInvariant, PTL
     DEF Spec, SettledIsFinal
-----------------------------------------------------------------------------
(***************************************************************************)
(* The path implements the contract.  Serial turns make the refinement     *)
(* mapping a function of one handler: at most one row is due, the one the  *)
(* handler holds between the rate limiter and the webhook.                 *)
(***************************************************************************)
DueRow(h) == IF pc[h] \in {"execute", "webhook"} THEN act[h] ELSE 0

LEMMA StageOfOne ==
  ASSUME NEW h \in Handlers, \A g \in Handlers : g = h
  PROVE  /\ \A a \in Actions : Due(a) <=> DueRow(h) = a
         /\ \A a \in Actions : Due(a)' <=> DueRow(h)' = a
BY DEF Due, DueRow, Actions

\* A step that neither makes a row nor lets one fall due or be given up.
LEMMA NoStage ==
  ASSUME NEW h \in Handlers, \A g \in Handlers : g = h,
         newest' = newest, DueRow(h)' = DueRow(h),
         UNCHANGED <<asks, effects>>
  PROVE  UNCHANGED Contract!contract
<1>1. \A a \in Actions : Due(a)' <=> Due(a)
  BY StageOfOne
<1>2. stageOf' = stageOf
  BY <1>1 DEF stageOf
<1>3. QED
  BY <1>2 DEF Contract!contract

\* A step that makes row a fall due, or ends that, and no other.
LEMMA OneStage ==
  ASSUME TypeOK, NEW h \in Handlers, \A g \in Handlers : g = h,
         NEW a \in Actions, a <= newest, newest' = newest,
         \/ DueRow(h) = 0 /\ DueRow(h)' = a
         \/ DueRow(h) = a /\ DueRow(h)' = 0
  PROVE  /\ stageOf[a] = IF DueRow(h) = a THEN "due" ELSE "idle"
         /\ stageOf' = [stageOf EXCEPT
                          ![a] = IF DueRow(h) = a THEN "idle" ELSE "due"]
<1>1. /\ \A b \in Actions : b # a => (Due(b)' <=> Due(b))
      /\ Due(a) <=> DueRow(h) = a
      /\ Due(a)' <=> DueRow(h) # a
  BY StageOfOne
<1>2. a <= newest /\ a <= newest'
  BY DEF TypeOK
<1>3. stageOf[a] = IF DueRow(h) = a THEN "due" ELSE "idle"
  BY <1>1, <1>2 DEF stageOf, TypeOK
<1>4. \A b \in Actions : b # a => stageOf'[b] = stageOf[b]
  BY <1>1 DEF stageOf
<1>5. stageOf'[a] = IF DueRow(h) = a THEN "idle" ELSE "due"
  BY <1>1, <1>2 DEF stageOf, TypeOK
<1>6. QED
  BY <1>3, <1>4, <1>5 DEF stageOf

\* The steps of the contract, from what a step of the path does to the row
\* the handler holds.
LEMMA GivenUp ==
  ASSUME TypeOK, RowsExist, NEW h \in Handlers, \A g \in Handlers : g = h,
         pc[h] \in {"execute", "webhook"}, DueRow(h)' = 0,
         UNCHANGED <<newest, asks, effects>>
  PROVE  Contract!Next
<1>1. act[h] \in Actions /\ act[h] <= newest /\ DueRow(h) = act[h]
  BY DEF RowsExist, InExecutor, DueRow, TypeOK
<1>2. /\ stageOf[act[h]] = "due"
      /\ stageOf' = [stageOf EXCEPT ![act[h]] = "idle"]
  BY <1>1, OneStage
<1>3. Contract!GiveUp(act[h])
  BY <1>2 DEF Contract!GiveUp
<1>4. QED
  BY <1>1, <1>3 DEF Contract!Next

LEMMA Performed ==
  ASSUME TypeOK, RowsExist, NEW h \in Handlers, \A g \in Handlers : g = h,
         pc[h] = "webhook", DueRow(h)' = 0, effects[act[h]] = 0,
         effects' = [effects EXCEPT ![act[h]] = @ + 1],
         UNCHANGED <<newest, asks>>
  PROVE  Contract!Next
<1>1. act[h] \in Actions /\ act[h] <= newest /\ DueRow(h) = act[h]
  BY DEF RowsExist, InExecutor, DueRow, TypeOK
<1>2. /\ stageOf[act[h]] = "due"
      /\ stageOf' = [stageOf EXCEPT ![act[h]] = "idle"]
  BY <1>1, OneStage
<1>3. effects' = [effects EXCEPT ![act[h]] = 1]
  BY <1>1
<1>4. Contract!Perform(act[h])
  BY <1>2, <1>3 DEF Contract!Perform
<1>5. QED
  BY <1>1, <1>4 DEF Contract!Next

LEMMA ConsentGiven ==
  ASSUME TypeOK, NEW h \in Handlers, \A g \in Handlers : g = h,
         pc[h] = "decide", NEW a \in Actions, DueRow(h)' = a,
         a <= newest, asks[a], effects[a] = 0,
         UNCHANGED <<newest, asks, effects>>
  PROVE  Contract!Next
<1>1. DueRow(h) = 0
  BY DEF DueRow
<1>2. stageOf[a] = "idle" /\ stageOf' = [stageOf EXCEPT ![a] = "due"]
  BY <1>1, OneStage
<1>3. Contract!Consent(a)
  BY <1>2 DEF Contract!Consent
<1>4. QED
  BY <1>3 DEF Contract!Next

\* A new row is offered, or ordered outright, or its order is lost.
LEMMA Born ==
  ASSUME TypeOK, NEW h \in Handlers, \A g \in Handlers : g = h,
         pc[h] = "decide", NEW a \in Actions, a = newest + 1, newest' = a,
         UNCHANGED effects, ~ asks[a],
         \/ /\ DueRow(h)' = 0
            /\ asks' = [asks EXCEPT ![a] = TRUE]
         \/ /\ DueRow(h)' \in {0, a}
            /\ asks' = [asks EXCEPT ![a] = FALSE]
  PROVE  Contract!Next
<1>1. DueRow(h) = 0
  BY DEF DueRow
<1>2. /\ \A b \in Actions : b # a => (Due(b)' <=> Due(b))
      /\ Due(a)' <=> DueRow(h)' = a
  BY <1>1, StageOfOne
<1>3. newest \in Nat
  BY DEF TypeOK
<1>4. stageOf[a] = "absent"
  BY <1>3 DEF stageOf
<1>5. \A b \in Actions : b # a => stageOf'[b] = stageOf[b]
  BY <1>2, <1>3 DEF stageOf
<1>6. stageOf'[a] = IF DueRow(h)' = a THEN "due" ELSE "idle"
  BY <1>2, <1>3 DEF stageOf
<1>7. stageOf' = [stageOf EXCEPT
                    ![a] = IF DueRow(h)' = a THEN "due" ELSE "idle"]
  BY <1>5, <1>6 DEF stageOf
<1>8. CASE DueRow(h)' = 0 /\ asks' = [asks EXCEPT ![a] = TRUE]
  <2>1. a # 0
    BY DEF Actions
  <2>2. DueRow(h)' # a
    BY <1>8, <2>1
  <2>3. stageOf' = [stageOf EXCEPT ![a] = "idle"]
    BY <1>7, <2>2
  <2>4. Contract!Offer(a)
    BY <1>4, <1>8, <2>3 DEF Contract!Offer
  <2>5. QED
    BY <2>4 DEF Contract!Next
<1>9. CASE DueRow(h)' \in {0, a} /\ asks' = [asks EXCEPT ![a] = FALSE]
  <2>1. a # 0 /\ asks' = asks
    BY <1>9 DEF Actions, TypeOK
  <2>2. CASE DueRow(h)' = a
    <3>1. stageOf' = [stageOf EXCEPT ![a] = "due"]
      BY <1>7, <2>2
    <3>2. Contract!Order(a)
      BY <1>4, <2>1, <3>1 DEF Contract!Order
    <3>3. QED
      BY <3>2 DEF Contract!Next
  <2>3. CASE DueRow(h)' = 0
    <3>1. stageOf' = [stageOf EXCEPT ![a] = "idle"]
      BY <1>7, <2>1, <2>3
    <3>2. Contract!Strand(a)
      BY <1>4, <2>1, <3>1 DEF Contract!Strand
    <3>3. QED
      BY <3>2 DEF Contract!Next
  <2>4. QED
    BY <1>9, <2>2, <2>3
<1>10. QED
  BY <1>8, <1>9

\* Rows that do not exist ask nothing; without PATCH no row is patched.
BlankInv ==
  /\ \A a \in Actions : a > newest => ~ asks[a]
  /\ patched = {}

LEMMA BlankInvariant ==
  ASSUME "patch" \notin Operator
  PROVE  Spec => []BlankInv
<1>1. Init => BlankInv
  BY DEF Init, BlankInv
<1>2. BlankInv /\ TypeOK /\ [Next]_vars => BlankInv'
  <2> SUFFICES ASSUME BlankInv, TypeOK, [Next]_vars
               PROVE  BlankInv'
    OBVIOUS
  <2> USE DEF store, turn, history
  <2>a. ASSUME UNCHANGED <<newest, asks, patched>>
        PROVE  BlankInv'
    BY <2>a DEF BlankInv
  <2>0. CASE UNCHANGED vars
    BY <2>0, <2>a DEF vars
  <2>1. CASE \E h \in Handlers : Utter(h)
    BY <2>1, <2>a DEF Utter
  <2>2. ASSUME NEW h \in Handlers, Turn(h)
        PROVE  BlankInv'
    <3>1. CASE \/ Propose(h) \/ CreatePlain(h)
               \/ (StoreLost(h) /\ ~ Kept)
      <4>1. /\ newest' = newest + 1 /\ UNCHANGED patched
            /\ \A a \in Actions : a # newest + 1 => asks'[a] = asks[a]
        BY <3>1 DEF Propose, CreatePlain, StoreLost, Kept, createAction, TypeOK
      <4>2. QED
        BY <4>1 DEF BlankInv, TypeOK
    <3>2. CASE ~ (\/ Propose(h) \/ CreatePlain(h)
                 \/ (StoreLost(h) /\ ~ Kept))
      <4>1. CASE StoreLost(h)
        BY <2>a, <3>2, <4>1 DEF StoreLost, Kept
      <4>2. CASE ~ StoreLost(h)
        BY <2>2, <2>a, <3>2, <4>2 DEF Turn, AwaitPrefetch, TakePrefetch,
           FetchContext, ContextUnreachable, ContextBroken, Answer, Undecided,
           Unmerged, ProposeLost, CreatePlainLost, Confirm, Deny, Execute,
           RateLimited, DemoMode, CallWebhook, Record, RecordAsFailed,
           RecordLost, ExecutorLost, setStatus
      <4>3. QED
        BY <4>1, <4>2
    <3>3. QED
      BY <3>1, <3>2
  <2>3. CASE Prefetch \/ SettlePrefetch
    BY <2>3, <2>a DEF Prefetch, SettlePrefetch
  <2>4. CASE \E a \in Actions : OperatorConfirm(a) \/ OperatorPatch(a)
    BY <2>4, <2>a DEF OperatorConfirm, OperatorPatch, setStatus
  <2>5. QED
    BY <2>0, <2>1, <2>2, <2>3, <2>4 DEF Next
<1>3. QED
  BY <1>1, <1>2, TypeCorrect, PTL DEF Spec

LEMMA InitKeeps == Init => Contract!Init
<1> SUFFICES ASSUME Init
             PROVE  Contract!Init
  OBVIOUS
<1>1. stageOf = [a \in Actions |-> "absent"]
  BY DEF Init, stageOf
<1>2. QED
  BY <1>1 DEF Init, Contract!Init

LEMMA StepKeeps ==
  ASSUME SerialSettings, TypeOK, TypeOK', OnceInv, RowsExist, PlainInv,
         BlankInv, [Next]_vars
  PROVE  [Contract!Next]_(Contract!contract)
<1>0. /\ ~ Speculation /\ "patch" \notin Operator
      /\ "update" \notin Faults /\ "executor" \notin Faults
  BY DEF SerialSettings
<1> USE DEF store, turn, history
<1>1. ASSUME NEW h \in Handlers, Utter(h)
      PROVE  UNCHANGED Contract!contract
  <2>1. DueRow(h)' = DueRow(h) /\ UNCHANGED <<newest, asks, effects>>
    BY <1>1 DEF Utter, DueRow, TypeOK
  <2>2. QED
    BY <2>1, NoStage DEF SerialSettings
<1>2. ASSUME NEW h \in Handlers, Turn(h)
      PROVE  Contract!Next \/ UNCHANGED Contract!contract
  <2> USE DEF endTurn, goOn
  <2>0. \A g \in Handlers : g = h
    BY DEF SerialSettings
  <2>1. ~ AwaitPrefetch(h) /\ ~ TakePrefetch(h)
    BY DEF AwaitPrefetch, TakePrefetch, OnceInv, Fresh, NoPrefetch
  <2>2. CASE FetchContext(h) \/ ContextUnreachable(h) \/ ContextBroken(h)
    <3>1. DueRow(h)' = DueRow(h) /\ UNCHANGED <<newest, asks, effects>>
      BY <2>2 DEF FetchContext, ContextUnreachable, ContextBroken, MayFetch,
         DueRow, TypeOK
    <3>2. QED
      BY <2>0, <3>1, NoStage
  <2>3. CASE \/ Answer(h) \/ Undecided(h) \/ Unmerged(h) \/ ProposeLost(h)
             \/ CreatePlainLost(h) \/ Deny(h)
             \/ (StoreLost(h) /\ Kept)
    <3>1. DueRow(h)' = DueRow(h) /\ UNCHANGED <<newest, asks, effects>>
      BY <2>3 DEF Answer, Undecided, Unmerged, ProposeLost, CreatePlainLost,
         Deny, StoreLost, Kept, Decided, DueRow, TypeOK
    <3>2. QED
      BY <2>0, <3>1, NoStage
  <2>4. CASE \/ Propose(h) \/ CreatePlain(h)
             \/ (StoreLost(h) /\ ~ Kept)
    <3>1. /\ pc[h] = "decide" /\ newest + 1 \in Actions
          /\ newest' = newest + 1 /\ UNCHANGED effects
      BY <2>4 DEF Propose, CreatePlain, StoreLost, Kept, Decided, createAction,
         TypeOK
    <3>2. \/ /\ DueRow(h)' = 0
             /\ asks' = [asks EXCEPT ![newest + 1] = TRUE]
          \/ /\ DueRow(h)' \in {0, newest + 1}
             /\ asks' = [asks EXCEPT ![newest + 1] = FALSE]
      BY <2>4 DEF Propose, CreatePlain, StoreLost, Kept, createAction, DueRow,
         TypeOK
    <3>3. QED
      <4>1. ~ asks[newest + 1]
        BY <3>1 DEF BlankInv, TypeOK
      <4>2. QED
        BY <2>0, <3>1, <3>2, <4>1, Born
  <2>5. CASE Confirm(h)
    <3>1. /\ pc[h] = "decide" /\ DueRow(h)' = ctx[h]
          /\ UNCHANGED <<newest, asks, effects>>
      BY <2>5 DEF Confirm, Decided, DueRow, TypeOK
    <3>2. ctx[h] # 0 /\ ctx[h] <= newest
      BY <2>5, ConfirmationIsDue DEF Confirm, RowsExist
    <3>3. ctx[h] \in Actions
      BY <3>2 DEF TypeOK
    <3>4. asks[ctx[h]]
      BY <3>2, <3>3 DEF PlainInv, Unoffered, Plain, BlankInv
    <3>5. effects[ctx[h]] = 0
      BY <3>1, <3>2 DEF OnceInv, Fresh
    <3>6. QED
      BY <2>0, <3>1, <3>2, <3>3, <3>4, <3>5, ConsentGiven
  <2>6. CASE Execute(h)
    <3>1. DueRow(h)' = DueRow(h) /\ UNCHANGED <<newest, asks, effects>>
      BY <2>6 DEF Execute, DueRow, TypeOK
    <3>2. QED
      BY <2>0, <3>1, NoStage
  <2>7. CASE RateLimited(h)
    <3>1. /\ pc[h] = "execute" /\ DueRow(h)' = 0
          /\ UNCHANGED <<newest, asks, effects>>
      BY <2>7 DEF RateLimited, DueRow, TypeOK
    <3>2. QED
      BY <2>0, <3>1, GivenUp
  <2>8. CASE CallWebhook(h) \/ DemoMode(h)
    <3>1. /\ pc[h] = "webhook" /\ DueRow(h)' = 0
          /\ UNCHANGED <<newest, asks>>
          /\ \/ effects' = effects
             \/ effects' = [effects EXCEPT ![act[h]] = @ + 1]
      BY <2>8 DEF CallWebhook, DemoMode, DueRow, TypeOK
    <3>2. effects[act[h]] = 0
      BY <3>1 DEF OnceInv, Fresh
    <3>3. QED
      BY <2>0, <3>1, <3>2, GivenUp, Performed
  <2>9. CASE Record(h)
    <3>1. DueRow(h)' = DueRow(h) /\ UNCHANGED <<newest, asks, effects>>
      BY <2>9 DEF Record, setStatus, DueRow, TypeOK
    <3>2. QED
      BY <2>0, <3>1, NoStage
  <2>10. ~ RecordAsFailed(h) /\ ~ RecordLost(h) /\ ~ ExecutorLost(h)
    BY <1>0 DEF RecordAsFailed, RecordLost, ExecutorLost
  <2>11. QED
    BY <1>2, <2>1, <2>2, <2>3, <2>4, <2>5, <2>6, <2>7, <2>8, <2>9, <2>10
       DEF Turn
<1>3. ~ Prefetch /\ ~ SettlePrefetch
  BY <1>0 DEF Prefetch, SettlePrefetch, OnceInv, Fresh, NoPrefetch
<1>4. ASSUME NEW a \in Actions, OperatorConfirm(a) \/ OperatorPatch(a)
      PROVE  UNCHANGED Contract!contract
  <2>1. UNCHANGED <<newest, asks, effects, pc, act>>
    BY <1>4 DEF OperatorConfirm, OperatorPatch, setStatus
  <2>2. QED
    BY <2>1 DEF Contract!contract, stageOf, Due
<1>5. CASE UNCHANGED vars
  <2>1. UNCHANGED <<newest, asks, effects, pc, act>>
    BY <1>5 DEF vars
  <2>2. UNCHANGED Contract!contract
    BY <2>1 DEF Contract!contract, stageOf, Due
  <2>3. QED
    BY <2>2
<1>6. QED
  BY <1>1, <1>2, <1>3, <1>4, <1>5 DEF Next

(***************************************************************************)
(* For a caller who waits for the end of each turn, the action path        *)
(* implements ActionContract: an action is performed only while it is due, *)
(* it falls due by the caller's consent if it was offered, and it is       *)
(* performed once.                                                         *)
(***************************************************************************)
THEOREM ContractIsKept ==
  ASSUME SerialSettings
  PROVE  Spec => KeepsContract
<1>1. "patch" \notin Operator
  BY DEF SerialSettings
<1>2. Spec => []BlankInv
  BY <1>1, BlankInvariant
<1>3. Spec => []OnceInv
  BY OnceInvariant
<1>4. TypeOK /\ TypeOK' /\ OnceInv /\ RowsExist /\ PlainInv /\ BlankInv
        /\ [Next]_vars => [Contract!Next]_(Contract!contract)
  BY StepKeeps
<1>5. QED
  BY <1>2, <1>3, <1>4, InitKeeps, TypeCorrect, ConsentInvariant,
     PlainInvariant, PTL DEF Spec, ConsentInv, KeepsContract, Contract!Spec
=============================================================================
