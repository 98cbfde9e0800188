---------------------------- MODULE MCActionFlow ----------------------------
(***************************************************************************)
(* ActionFlow on small instances.                                          *)
(***************************************************************************)
EXTENDS ActionFlow

CONSTANTS h1, h2

OneHandler  == {h1}
TwoHandlers == {h1, h2}

\* detectConfirmation splits the utterances in two; one stands for each half.
TwoSayings == {[confirmWord |-> TRUE, denyWord |-> deny] : deny \in BOOLEAN}
=============================================================================
