------------------------------ MODULE OfflineMC ------------------------------
(* Values for model checking OfflineSync.                                  *)
EXTENDS OfflineSync
CONSTANTS a, b, x, y
=============================================================================
