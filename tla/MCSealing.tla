----------------------------- MODULE MCSealing -----------------------------
(***************************************************************************)
(* Bounds for Sealing.                                                     *)
(***************************************************************************)
EXTENDS Sealing
=============================================================================
