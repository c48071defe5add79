--------------------------- MODULE MCOfflineQueue ---------------------------
(***************************************************************************)
(* Small instances of OfflineQueue.                                        *)
(***************************************************************************)
EXTENDS OfflineQueue, TLC

CONSTANTS ann, bob
=============================================================================
