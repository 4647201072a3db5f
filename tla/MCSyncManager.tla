---------------------------- MODULE MCSyncManager ----------------------------
(* Instances of SyncManager for TLC: a chain a1, a2, a3, a fork b2 of it at *)
(* a1, and a tipset c of a chain whose other tipsets are not seen.          *)
EXTENDS SyncManager, TLC

CONSTANTS a1, a2, a3, b2, c, root, far

TipSets == {a1, a2, a3, b2, c}

ParentsOf ==
  a1 :> root @@ a2 :> a1 @@ a3 :> a2 @@ b2 :> a1 @@ c :> far

Weights == a1 :> 1 @@ a2 :> 2 @@ a3 :> 3 @@ b2 :> 2 @@ c :> 2

Heights == a1 :> 1 @@ a2 :> 2 @@ a3 :> 3 @@ b2 :> 2 @@ c :> 3
==============================================================================
