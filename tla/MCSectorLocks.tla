---------------------------- MODULE MCSectorLocks ----------------------------
(* Instances of SectorLocks for TLC. *)
EXTENDS SectorLocks
=============================================================================
