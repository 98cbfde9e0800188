--------------------------- MODULE MCKeyRotation ---------------------------
(***************************************************************************)
(* KeyRotation on small instances.                                         *)
(***************************************************************************)
EXTENDS KeyRotation

CONSTANTS c1, c2

TwoCalls == {c1, c2}
=============================================================================
