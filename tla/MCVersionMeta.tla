--------------------------- MODULE MCVersionMeta ---------------------------
(* Instances of VersionMeta for TLC. *)
EXTENDS VersionMeta, TLC

CONSTANTS a, b, c

Deal(create, update, cid, prev) ==
  [create |-> create, update |-> update, cid |-> cid, prev |-> prev]

(* Two versions made from the same root. *)
BranchRequests ==
  { Deal(TRUE, FALSE, a, NULL), Deal(FALSE, TRUE, b, a), Deal(FALSE, TRUE, c, a) }

(* Every create and every update over two cids: a cid updated from itself, *)
(* two cids each the other's previous version, a root later used as patch. *)
(* A third version on top; contradictory flags, and none.                  *)
AnyRequests ==
  { Deal(TRUE, FALSE, x, NULL) : x \in {a, b} }
  \cup { Deal(FALSE, TRUE, x, y) : x, y \in {a, b} }
  \cup { Deal(FALSE, TRUE, c, b), Deal(TRUE, TRUE, b, a), Deal(FALSE, FALSE, b, NULL) }

Symmetry == Permutations(Invocation)
=============================================================================
