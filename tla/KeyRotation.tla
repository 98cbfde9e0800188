---------------------------- MODULE KeyRotation ----------------------------
(***************************************************************************)
(* The Gemini provider: one orchestrator process with several API keys,    *)
(* calls that overlap, and the model service that refuses a key whose      *)
(* quota is spent (429), is overloaded (503) or fails otherwise.           *)
(*                                                                         *)
(* All calls share currentKeyIndex; each complete() counts its own         *)
(* attempts.  JavaScript runs a handler to its next await, so rotating     *)
(* the index and reading the next key from it are one step.                *)
(***************************************************************************)
EXTENDS Naturals, Sequences, Functions

CONSTANTS
  Calls,      \* calls of the orchestrator, each made once
  NumKeys     \* apiKeys.length

ASSUME KeysAssumption == NumKeys \in Nat \ {0}

Keys     == 0 .. NumKeys - 1
MaxSends == 3   \* completeWithKey sends one request at most three times

VARIABLES
  currentKeyIndex,  \* where every call reads its next key
  spent,            \* the keys the service refuses for quota at present
  pc,               \* where each call is
  key,              \* apiKey of the request under way
  attempt,          \* the loop counter of complete()
  sends,            \* the loop counter of completeWithKey()
  again,            \* will processStream call complete() again if it throws?
  tried,            \* history: the keys of this complete(), in order
  lasting,          \* history: keys that had quota ever since the call began
  alone             \* history: has the call met no other call so far?

vars    == <<currentKeyIndex, spent, pc, key, attempt, sends, again,
             tried, lasting, alone>>
loop    == <<key, attempt, sends, again, tried>>
history == <<lasting, alone>>

(***************************************************************************)
(* A call streams, sends a request with a key, or waits out an overload;   *)
(* it ends answered, with "All keys exhausted", or with another error.     *)
(***************************************************************************)
Running == {"stream", "send", "backoff"}
Settled == {"answered", "exhausted", "failed"}

TypeOK ==
  /\ currentKeyIndex \in Keys
  /\ spent \subseteq Keys
  /\ pc \in [Calls -> {"idle"} \union Running \union Settled]
  /\ key \in [Calls -> Keys]
  /\ attempt \in [Calls -> Keys]
  /\ sends \in [Calls -> 0 .. MaxSends]
  /\ again \in [Calls -> BOOLEAN]
  /\ tried \in [Calls -> Seq(Keys)]
  /\ lasting \in [Calls -> SUBSET Keys]
  /\ alone \in [Calls -> BOOLEAN]

Init ==
  /\ currentKeyIndex = 0
  /\ spent \in SUBSET Keys
  /\ pc = [c \in Calls |-> "idle"]
  /\ key = [c \in Calls |-> 0]
  /\ attempt = [c \in Calls |-> 0]
  /\ sends = [c \in Calls |-> 0]
  /\ again = [c \in Calls |-> FALSE]
  /\ tried = [c \in Calls |-> <<>>]
  /\ lasting = [c \in Calls |-> {}]
  /\ alone = [c \in Calls |-> FALSE]

-----------------------------------------------------------------------------
(* getNextKey: the key at index i becomes the key of call c's n-th attempt. *)
getNextKey(c, i, n) ==
  /\ pc' = [pc EXCEPT ![c] = "send"]
  /\ key' = [key EXCEPT ![c] = i]
  /\ attempt' = [attempt EXCEPT ![c] = n]
  /\ sends' = [sends EXCEPT ![c] = 1]
  /\ tried' = [tried EXCEPT ![c] = IF n = 0 THEN <<i>> ELSE Append(@, i)]

\* Mutant: the index is not advanced.
rotateKey_Stays == currentKeyIndex

\* rotateKey, as the index it leaves behind.
rotateKey == (currentKeyIndex + 1) % NumKeys

Begin(c) ==
  /\ pc[c] = "idle"
  /\ lasting' = [lasting EXCEPT ![c] = Keys \ spent]
  /\ alone' = [d \in Calls |->
                 IF d = c THEN \A e \in Calls : pc[e] \notin Running
                 ELSE alone[d] /\ pc[d] \notin Running]

\* process(): complete() without a stream; a failure is answered by process().
StartComplete(c) ==
  /\ Begin(c)
  /\ getNextKey(c, currentKeyIndex, 0)
  /\ again' = [again EXCEPT ![c] = FALSE]
  /\ UNCHANGED <<currentKeyIndex, spent>>

\* processStream(): streamComplete() with the current key.
StartStream(c) ==
  /\ Begin(c)
  /\ pc' = [pc EXCEPT ![c] = "stream"]
  /\ key' = [key EXCEPT ![c] = currentKeyIndex]
  /\ again' = [again EXCEPT ![c] = TRUE]
  /\ UNCHANGED <<currentKeyIndex, spent, attempt, sends, tried>>

StreamAnswered(c) ==
  /\ pc[c] = "stream" /\ key[c] \notin spent
  /\ pc' = [pc EXCEPT ![c] = "answered"]
  /\ UNCHANGED <<currentKeyIndex, spent, loop, history>>

(***************************************************************************)
(* The stream is refused, for quota or otherwise, or breaks: complete() is *)
(* called from the index as it is, which nothing has rotated.              *)
(***************************************************************************)
StreamFails(c) ==
  /\ pc[c] = "stream"
  /\ getNextKey(c, currentKeyIndex, 0)
  /\ UNCHANGED <<currentKeyIndex, spent, again, history>>

Answered(c) ==
  /\ pc[c] = "send" /\ key[c] \notin spent
  /\ pc' = [pc EXCEPT ![c] = "answered"]
  /\ UNCHANGED <<currentKeyIndex, spent, loop, history>>

\* Mutant: the fallback of processStream is its own fallback.
Throw_Forever(c, i, error) ==
  IF again[c] THEN getNextKey(c, i, 0) /\ UNCHANGED again
  ELSE pc' = [pc EXCEPT ![c] = error] /\ UNCHANGED loop

(***************************************************************************)
(* complete() throws with index i.  Neither return of streamComplete       *)
(* awaits it, and its catch does not wrap itself, so the error reaches     *)
(* processStream, which calls complete() once more.                        *)
(***************************************************************************)
Throw(c, i, error) ==
  \/ /\ again[c]
     /\ getNextKey(c, i, 0)
     /\ again' = [again EXCEPT ![c] = FALSE]
  \/ /\ ~ again[c]
     /\ pc' = [pc EXCEPT ![c] = error]
     /\ UNCHANGED loop

\* 429: rotate, and try the next key unless every attempt is used up.
QuotaRefused(c) ==
  /\ pc[c] = "send" /\ key[c] \in spent
  /\ currentKeyIndex' = rotateKey
  /\ \/ /\ attempt[c] + 1 < NumKeys
        /\ getNextKey(c, rotateKey, attempt[c] + 1)
        /\ UNCHANGED again
     \/ /\ attempt[c] + 1 = NumKeys
        /\ Throw(c, rotateKey, "exhausted")
  /\ UNCHANGED <<spent, history>>

\* 503: wait and send again with the same key, up to three times.
Overloaded(c) ==
  /\ pc[c] = "send" /\ sends[c] < MaxSends
  /\ pc' = [pc EXCEPT ![c] = "backoff"]
  /\ UNCHANGED <<currentKeyIndex, spent, loop, history>>

Resend(c) ==
  /\ pc[c] = "backoff"
  /\ pc' = [pc EXCEPT ![c] = "send"]
  /\ sends' = [sends EXCEPT ![c] = @ + 1]
  /\ UNCHANGED <<currentKeyIndex, spent, key, attempt, again, tried, history>>

\* Another status, a timeout, or the third 503: no rotation, complete() throws.
Fails(c) ==
  /\ pc[c] = "send"
  /\ Throw(c, currentKeyIndex, "failed")
  /\ UNCHANGED <<currentKeyIndex, spent, history>>

\* The service's side: a key's quota runs out, or its minute is over.
SpendQuota(k) ==
  /\ k \notin spent
  /\ spent' = spent \union {k}
  /\ lasting' = [c \in Calls |-> IF pc[c] \in Running THEN lasting[c] \ {k}
                                                      ELSE lasting[c]]
  /\ UNCHANGED <<currentKeyIndex, pc, loop, alone>>

RestoreQuota(k) ==
  /\ k \in spent
  /\ spent' = spent \ {k}
  /\ UNCHANGED <<currentKeyIndex, pc, loop, history>>

Reply(c) ==
  \/ StreamAnswered(c) \/ StreamFails(c)
  \/ Answered(c) \/ QuotaRefused(c) \/ Overloaded(c) \/ Resend(c) \/ Fails(c)

Next ==
  \/ \E c \in Calls : StartComplete(c) \/ StartStream(c) \/ Reply(c)
  \/ \E k \in Keys : SpendQuota(k) \/ RestoreQuota(k)

Spec == Init /\ [][Next]_vars

(***************************************************************************)
(* Every request comes back: the service answers it, or the timeout of 30  *)
(* seconds aborts it; a backoff is a timer.  Which answer comes is free.   *)
(***************************************************************************)
FairSpec == Spec /\ \A c \in Calls : WF_vars(Reply(c))

-----------------------------------------------------------------------------
(***************************************************************************)
(* "Try each key once, rotating on quota errors" (gemini-llm.ts:116): the  *)
(* attempts of one complete() use different keys.  The loop counts         *)
(* attempts, the keys come from an index all calls advance, so this can    *)
(* only be had for a call that meets no other, wherever earlier calls,     *)
(* also overlapping ones, left the index.                                  *)
(***************************************************************************)
EachKeyOnceAlone == \A c \in Calls : alone[c] => IsInjective(tried[c])

(***************************************************************************)
(* "All keys exhausted (quota)" (gemini-llm.ts:138) is true for a call     *)
(* that meets no other: every key lacked quota at some moment of the call. *)
(***************************************************************************)
ExhaustedMeansAll ==
  \A c \in Calls : alone[c] /\ pc[c] = "exhausted" => lasting[c] = {}

(***************************************************************************)
(* So a call that meets no other finds a key that has quota: it tries all  *)
(* of them, each once, before it gives up.                                 *)
(***************************************************************************)
FindsAKey == EachKeyOnceAlone /\ ExhaustedMeansAll

(***************************************************************************)
(* The retries nest three deep (processStream, complete, completeWithKey)  *)
(* and every call still settles (gemini-llm.ts:117-138, 191-213).          *)
(***************************************************************************)
EveryCallSettles == \A c \in Calls : pc[c] \in Running ~> pc[c] \in Settled
=============================================================================
