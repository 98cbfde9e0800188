------------------------- MODULE MCSessionLifecycle -------------------------
(***************************************************************************)
(* SessionLifecycle on small instances.  Connections to one session are    *)
(* interchangeable wherever no liveness is checked.                        *)
(***************************************************************************)
EXTENDS SessionLifecycle, TLC

CONSTANTS k1, k2

OneConnection  == {k1}
TwoConnections == {k1, k2}
AnyConnection  == Permutations(Connections)
=============================================================================
