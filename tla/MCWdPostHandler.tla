--------------------------- MODULE MCWdPostHandler ---------------------------
(* Instances of WdPostHandler for TLC. *)
EXTENDS WdPostHandler
=============================================================================
