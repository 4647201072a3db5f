---------------------------- MODULE MCMessagePool ----------------------------
(***************************************************************************)
(* Two senders, one of each kind of signature: b has three nonces and may  *)
(* replace its first message, s fills the pool.                            *)
(***************************************************************************)
EXTENDS MessagePool

CONSTANTS b, s

Messages ==
  [from : {b}, nonce : {0}, prem : {2, 5}] \cup
  [from : {b}, nonce : {1}, prem : {1}] \cup
  [from : {b}, nonce : {2}, prem : {3}] \cup
  [from : {s}, nonce : {0}, prem : {2}]
===============================================================================
