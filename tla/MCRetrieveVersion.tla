------------------------- MODULE MCRetrieveVersion -------------------------
(* Instances of RetrieveVersion for TLC. *)
EXTENDS RetrieveVersion

(* Version 2 was made from 1, and 3 from 2; 4 is a root of its own. *)
ChainOf == <<<<1>>, <<1, 2>>, <<1, 2, 3>>, <<4>>>>
PrevOf  == <<NONE, 1, 2, NONE>>
============================================================================
