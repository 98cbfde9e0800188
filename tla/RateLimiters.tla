---------------------------- MODULE RateLimiters ----------------------------
(***************************************************************************)
(* The two rate limiters: the fixed window of the gateway                  *)
(* (rate-limit.ts, per client or address) and the sliding window of the    *)
(* action executor (rateLimitCheck, per session and action).  Both count   *)
(* calls of a key by the same clock, both without an await between reading *)
(* their counters and writing them, and both forget everything when their  *)
(* process restarts, which is not modelled.                                *)
(***************************************************************************)
EXTENDS Integers, Sequences, FiniteSets

CONSTANTS
  Keys,          \* clients, or pairs of a session and an action
  Window,        \* windowMs and RATE_LIMIT_WINDOW_MS, in ticks of the clock
  MaxRequests,   \* what the gateway lets pass in one of its windows
  MaxCalls,      \* RATE_LIMIT_MAX_CALLS
  MaxTime,       \* bound: the clock stops here
  MaxCount       \* bound: requests one entry of the gateway counts

ASSUME LimitsAssumption ==
  /\ Window \in Nat \ {0} /\ MaxRequests \in Nat \ {0} /\ MaxCalls \in Nat \ {0}
  /\ MaxTime \in Nat /\ MaxCount \in Nat

VARIABLES
  now,           \* Date.now(), which does not run backwards here
  store,         \* the middleware's map
  passed,        \* history: per key, when a request passed and which passed
                 \* request had opened its window
  recent,        \* the executor's map; a timestamp is the number of its call
  admitted       \* history: per key, when a call was admitted

vars == <<now, store, passed, recent, admitted>>

NoEntry == [count |-> 0, resetTime |-> 0]

TypeOK ==
  /\ now \in Nat
  /\ store \in [Keys -> [count : Nat, resetTime : Nat]]
  /\ passed \in [Keys -> Seq([at : Nat, opener : Nat])]
  /\ recent \in [Keys -> SUBSET Nat]
  /\ admitted \in [Keys -> Seq(Nat)]
  /\ \A k \in Keys : recent[k] \subseteq DOMAIN admitted[k]

Init ==
  /\ now = 0
  /\ store = [k \in Keys |-> NoEntry]
  /\ passed = [k \in Keys |-> <<>>]
  /\ recent = [k \in Keys |-> {}]
  /\ admitted = [k \in Keys |-> <<>>]

Tick ==
  /\ now < MaxTime
  /\ now' = now + 1
  /\ UNCHANGED <<store, passed, recent, admitted>>

-----------------------------------------------------------------------------
(* The gateway's fixed window *)

\* Mutant: the window starts anew at its last millisecond.
fresh_Early(k) == store[k].count = 0 \/ now >= store[k].resetTime

\* There is no entry, or its window is over: the request opens a new one.
fresh(k) == store[k].count = 0 \/ now > store[k].resetTime

pass(k, opener) ==
  passed' = [passed EXCEPT ![k] = Append(@, [at |-> now, opener |-> opener])]

\* Mutant: a request of a running window prolongs it.
Request_Renews(k) ==
  /\ fresh(k) \/ store[k].count < MaxCount
  /\ \/ /\ fresh(k)
        /\ store' = [store EXCEPT ![k] =
                       [count |-> 1, resetTime |-> now + Window]]
        /\ pass(k, Len(passed[k]) + 1)
     \/ /\ ~ fresh(k)
        /\ store' = [store EXCEPT ![k] =
                       [count |-> @.count + 1, resetTime |-> now + Window]]
        /\ IF store[k].count + 1 > MaxRequests THEN UNCHANGED passed
           ELSE pass(k, passed[k][Len(passed[k])].opener)
  /\ UNCHANGED <<now, recent, admitted>>

(***************************************************************************)
(* A request of key k: the first of a window passes, the others are        *)
(* counted, also those that are refused.                                   *)
(***************************************************************************)
Request(k) ==
  /\ fresh(k) \/ store[k].count < MaxCount
  /\ \/ /\ fresh(k)
        /\ store' = [store EXCEPT ![k] =
                       [count |-> 1, resetTime |-> now + Window]]
        /\ pass(k, Len(passed[k]) + 1)
     \/ /\ ~ fresh(k)
        /\ store' = [store EXCEPT ![k].count = @ + 1]
        /\ IF store[k].count + 1 > MaxRequests THEN UNCHANGED passed
           ELSE pass(k, passed[k][Len(passed[k])].opener)
  /\ UNCHANGED <<now, recent, admitted>>

\* The interval timer deletes the entries whose window is over.
Sweep ==
  /\ store' = [k \in Keys |->
                 IF now > store[k].resetTime THEN NoEntry ELSE store[k]]
  /\ UNCHANGED <<now, passed, recent, admitted>>

-----------------------------------------------------------------------------
(* The executor's sliding window *)

\* The timestamps of k that are younger than a window.
inWindow(k) == {i \in recent[k] : now - admitted[k][i] < Window}

\* Mutant: one call too many.
Admit_OneMore(k) ==
  LET n == Len(admitted[k]) + 1
  IN  /\ Cardinality(inWindow(k)) <= MaxCalls
      /\ admitted' = [admitted EXCEPT ![k] = Append(@, now)]
      /\ recent' = [recent EXCEPT ![k] = inWindow(k) \union {n}]
      /\ UNCHANGED <<now, store, passed>>

\* Mutant: a refused call is recorded as well.
Admit_CountsRefused(k) ==
  LET n == Len(admitted[k]) + 1
  IN  /\ recent' = [recent EXCEPT ![k] = inWindow(k) \union {n}]
      /\ \/ /\ Cardinality(inWindow(k)) < MaxCalls
            /\ admitted' = [admitted EXCEPT ![k] = Append(@, now)]
         \/ Cardinality(inWindow(k)) >= MaxCalls /\ UNCHANGED admitted
      /\ UNCHANGED <<now, store, passed>>

\* A call is admitted and its time recorded.  One that is refused changes
\* nothing, and is no step here.
Admit(k) ==
  LET n == Len(admitted[k]) + 1
  IN  /\ Cardinality(inWindow(k)) < MaxCalls
      /\ admitted' = [admitted EXCEPT ![k] = Append(@, now)]
      /\ recent' = [recent EXCEPT ![k] = inWindow(k) \union {n}]
      /\ UNCHANGED <<now, store, passed>>

-----------------------------------------------------------------------------
Next == Tick \/ Sweep \/ \E k \in Keys : Request(k) \/ Admit(k)

Spec == Init /\ [][Next]_vars

-----------------------------------------------------------------------------
(* Properties *)

(***************************************************************************)
(* The fixed window lets a burst through around its boundary, but never    *)
(* more than 2 * MaxRequests - 1 requests within any Window: as many more  *)
(* passed requests take longer.  The sweep, which drops entries while      *)
(* requests come in, does not loosen the bound.                            *)
(***************************************************************************)
FixedBurst ==
  \A k \in Keys : \A i, j \in DOMAIN passed[k] :
    j = i + 2 * MaxRequests - 1 => passed[k][j].at - passed[k][i].at > Window

(***************************************************************************)
(* Of any MaxCalls + 1 consecutive calls the executor admits for a key,    *)
(* the first and the last are a full window apart, although it keeps only  *)
(* the timestamps it saw at the last admitted call.                        *)
(***************************************************************************)
SlidingLimit ==
  \A k \in Keys : \A i, j \in DOMAIN admitted[k] :
    j = i + MaxCalls => admitted[k][j] - admitted[k][i] >= Window

\* The next request, or call, of k would be refused.
FixedRefuses(k) == ~ fresh(k) /\ store[k].count + 1 > MaxRequests
SlidingRefuses(k) == Cardinality(inWindow(k)) >= MaxCalls

(***************************************************************************)
(* Nobody is refused but after a full quota: the gateway's last            *)
(* MaxRequests passed within the last Window, both ends included, and the  *)
(* executor's last MaxCalls less than a Window ago.  Refused requests,     *)
(* which the gateway counts, shut nobody out for longer.                   *)
(***************************************************************************)
RefusedForCause ==
  \A k \in Keys :
    LET n == Len(passed[k])   m == Len(admitted[k])
    IN  /\ FixedRefuses(k) =>
             /\ n >= MaxRequests
             /\ now - passed[k][n + 1 - MaxRequests].at <= Window
        /\ SlidingRefuses(k) =>
             /\ m >= MaxCalls
             /\ now - admitted[k][m + 1 - MaxCalls] < Window
=============================================================================
