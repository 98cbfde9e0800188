---------------------------- MODULE MCLiveClient ----------------------------
(***************************************************************************)
(* LiveClient on small instances.                                          *)
(***************************************************************************)
EXTENDS LiveClient
=============================================================================
