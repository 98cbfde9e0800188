---------------------------- MODULE Orchestrator ----------------------------
(***************************************************************************)
(* The dialogue brain (packages/orchestrator): which decision one          *)
(* utterance leads to.  The code has the decision twice, `process' and     *)
(* `processStream'; both are pure in what they decide, so both are         *)
(* operators here, over one record per request:                            *)
(*                                                                         *)
(*   config      the client's configuration was loaded (it is nullable)    *)
(*   pending     context.pendingAction is set (and awaitingConfirmation    *)
(*               with it: the session store derives both from one row)     *)
(*   low         languageConfidence < config.escalationRules               *)
(*                                          .confidenceThreshold           *)
(*   said        the utterance, as far as detectConfirmation looks at it:  *)
(*               whether it contains a word of either list                 *)
(*                                                                         *)
(* What the language model answers is an argument: "text", a tool call     *)
(* that names no configured intent, one whose intent asks for a            *)
(* confirmation, one whose intent does not, or a failure.  The wording of  *)
(* prompts and answers, and the conversation history sent along, decide    *)
(* nothing and are left out.                                               *)
(***************************************************************************)

\* What the caller said: membership of a confirm word and of a deny word.
Utterance == [confirmWord : BOOLEAN, denyWord : BOOLEAN]

\* What llm.complete and llm.streamComplete can come back with.
LlmReply == {"text", "unknownTool", "askingTool", "plainTool", "failure"}

OrchestratorRequest ==
  [config : BOOLEAN, pending : BOOLEAN, low : BOOLEAN, said : Utterance]

(***************************************************************************)
(* OrchestratorDecision, with `action' and `confirm_action' split by the   *)
(* flag the gateway branches on; "throw" is an exception out of the call.  *)
(***************************************************************************)
Decision == {"respond", "escalate", "propose", "act",
             "confirmed", "denied", "throw"}

detectConfirmation(said) == said.confirmWord /\ ~ said.denyWord

confirmAction(r) == IF detectConfirmation(r.said) THEN "confirmed" ELSE "denied"

\* The tail both functions share: the first tool call, or the text.
toolDecision(reply) ==
  [text        |-> "respond",
   unknownTool |-> "escalate",
   askingTool  |-> "propose",
   plainTool   |-> "act"][reply]

\* A model failure is answered with a canned sentence.
process(r, reply) ==
  CASE ~ r.config        -> "throw"
    [] r.config /\ r.low -> "escalate"
    [] r.config /\ ~ r.low /\ r.pending -> confirmAction(r)
    [] OTHER -> IF reply = "failure" THEN "respond" ELSE toolDecision(reply)

\* Mutant: complete is not tried after streamComplete failed.
processStream_NoRetry(r, streamed, reply) ==
  CASE ~ r.config              -> "throw"
    [] r.config /\ r.pending   -> confirmAction(r)
    [] r.config /\ ~ r.pending /\ r.low -> "escalate"
    [] OTHER -> IF streamed = "failure" THEN "throw" ELSE toolDecision(streamed)

\* streamComplete failing is retried once through complete; complete failing
\* there is not caught.
processStream(r, streamed, reply) ==
  LET answer == IF streamed = "failure" THEN reply ELSE streamed
  IN  CASE ~ r.config              -> "throw"
        [] r.config /\ r.pending   -> confirmAction(r)
        [] r.config /\ ~ r.pending /\ r.low -> "escalate"
        [] OTHER -> IF answer = "failure" THEN "throw" ELSE toolDecision(answer)
=============================================================================
