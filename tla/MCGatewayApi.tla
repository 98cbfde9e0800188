---------------------------- MODULE MCGatewayApi ----------------------------
(***************************************************************************)
(* GatewayApi on small instances.  Requests of the same kind are           *)
(* interchangeable.                                                        *)
(***************************************************************************)
EXTENDS GatewayApi, TLC

CONSTANTS r1, r2, r3

ThreeRequests == {r1, r2, r3}
AnyRequest == Permutations(ThreeRequests)
=============================================================================
