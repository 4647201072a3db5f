-------------------------- MODULE MCCatalogLabels --------------------------
(* Instances of Catalog and CatalogLabels for TLC. *)
EXTENDS CatalogLabels

(* Two roots, 1 and 4, and three patches, two of which may be recorded in  *)
(* both files; 2 may be asked to descend from itself.                      *)
TwoFiles ==
  [cid : {1}, prev : {NULL}, name : {1}] \cup [cid : {4}, prev : {NULL}, name : Name]
  \cup [cid : {2}, prev : {1, 2, 4}, name : {1}]
  \cup [cid : {3}, prev : {1, 2}, name : {1}] \cup [cid : {5}, prev : {1, 2, 3}, name : {1}]
============================================================================
