--------------------------- MODULE MCCatalogStore ---------------------------
(* Instances of CatalogStore for TLC. *)
EXTENDS CatalogStore

(* A root and a patch of it, each dealt by any of the handlers. *)
Deals ==
  [cid : {1}, prev : {NULL}, name : {1}] \cup [cid : {2}, prev : {1}, name : {1}]
============================================================================
