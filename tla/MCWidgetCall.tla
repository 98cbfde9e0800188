---------------------------- MODULE MCWidgetCall ----------------------------
(***************************************************************************)
(* WidgetCall on small instances.  The calls are interchangeable.          *)
(***************************************************************************)
EXTENDS WidgetCall, TLC

CONSTANTS c1, c2

TwoCalls == {c1, c2}
AnyCall == Permutations(TwoCalls)
=============================================================================
