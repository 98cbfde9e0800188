--------------------------- MODULE ActionContract ---------------------------
(***************************************************************************)
(* What the action path promises a client ("confirm-before-mutate"):       *)
(* an action comes into being once, either offered to the caller or        *)
(* ordered outright, and an order may get lost; it falls due by the        *)
(* caller's consent if it was offered; the backend performs it only while  *)
(* it is due, and only once.                                               *)
(***************************************************************************)
EXTENDS Naturals

CONSTANT Actions

VARIABLES stage,      \* "absent", "idle" (nobody is performing it) or "due"
          asks,       \* does it take the caller's consent?
          performed   \* how often the backend performed it

contract == <<stage, asks, performed>>

Init ==
  /\ stage = [a \in Actions |-> "absent"]
  /\ asks = [a \in Actions |-> FALSE]
  /\ performed = [a \in Actions |-> 0]

Offer(a) ==
  /\ stage[a] = "absent"
  /\ stage' = [stage EXCEPT ![a] = "idle"]
  /\ asks' = [asks EXCEPT ![a] = TRUE]
  /\ UNCHANGED performed

Order(a) ==
  /\ stage[a] = "absent"
  /\ stage' = [stage EXCEPT ![a] = "due"]
  /\ UNCHANGED <<asks, performed>>

\* An order that gets lost before anybody sets about it.
Strand(a) ==
  /\ stage[a] = "absent"
  /\ stage' = [stage EXCEPT ![a] = "idle"]
  /\ UNCHANGED <<asks, performed>>

Consent(a) ==
  /\ stage[a] = "idle" /\ asks[a] /\ performed[a] = 0
  /\ stage' = [stage EXCEPT ![a] = "due"]
  /\ UNCHANGED <<asks, performed>>

\* An attempt is given up: throttled, or refused by the backend.
GiveUp(a) ==
  /\ stage[a] = "due"
  /\ stage' = [stage EXCEPT ![a] = "idle"]
  /\ UNCHANGED <<asks, performed>>

Perform(a) ==
  /\ stage[a] = "due" /\ performed[a] = 0
  /\ stage' = [stage EXCEPT ![a] = "idle"]
  /\ performed' = [performed EXCEPT ![a] = 1]
  /\ UNCHANGED asks

Next ==
  \E a \in Actions :
    \/ Offer(a) \/ Order(a) \/ Strand(a)
    \/ Consent(a) \/ GiveUp(a) \/ Perform(a)

Spec == Init /\ [][Next]_contract
=============================================================================
