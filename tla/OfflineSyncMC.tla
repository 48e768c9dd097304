--------------------------- MODULE OfflineSyncMC ---------------------------
(* A small phone for TLC: each knock is of another voter.                   *)
EXTENDS OfflineSync

OwnTriple == [k \in Knock |-> k]
=============================================================================
