------------------------------ MODULE PoolLedger ------------------------------
(***************************************************************************)
(* What the message pool promises its callers, without locks, head change  *)
(* handlers or message sets: for every sender the state's nonce, the       *)
(* messages pending, and the nonce to use next.  A change of the head is   *)
(* one step.                                                               *)
(***************************************************************************)
EXTENDS Integers

CONSTANT Addr

Entry == [from : Addr, nonce : Nat, prem : Nat]

VARIABLES
  nonce,  \* the next nonce in the state at the head
  pend,   \* the messages pending
  next,   \* the nonce GetNonce answers
  saved,  \* the messages a restart can bring back
  hole    \* senders one of whose messages was reverted and lost

ledger == <<nonce, pend, next, saved, hole>>

Taken(S) == {m.nonce : m \in S}

(* k is the first nonce from n on that no message of S has. *)
FirstFree(k, S, n) ==
  /\ k >= n
  /\ k \notin Taken(S)
  /\ \A j \in n .. k - 1 : j \in Taken(S)

Init ==
  /\ nonce \in [Addr -> Nat]
  /\ pend = [a \in Addr |-> {}]
  /\ next = nonce
  /\ saved = {}
  /\ hole = {}

(* A message is added, or replaces one of its nonce that pays less.  The   *)
(* nonce moves on when it is used, past whatever waits behind it.          *)
Accept(m) ==
  LET a   == m.from
      old == {x \in pend[a] : x.nonce = m.nonce}
  IN  /\ m.nonce >= nonce[a]
      /\ \A x \in old : x.prem < m.prem
      /\ pend' = [pend EXCEPT ![a] = (@ \ old) \cup {m}]
      /\ IF m.nonce = next[a] THEN FirstFree(next'[a], pend'[a], next[a])
         ELSE next'[a] = next[a]
      /\ \A b \in Addr \ {a} : next'[b] = next[b]
      /\ saved' \subseteq saved \cup {m}

(* Where a sender stands once a hole is forgotten. *)
Afresh(a) == FirstFree(next'[a], pend'[a], nonce'[a])

(* With a hole the nonce is only known to be usable. *)
Usable(a) == next'[a] >= nonce'[a] /\ next'[a] \notin Taken(pend'[a])

(* The head changes: messages the chain has passed leave, messages it gave *)
(* back return, and nothing else comes or goes.  If all are back the nonce *)
(* never falls; if one is lost there is a hole below it, unless nothing    *)
(* else was pending.                                                       *)
SettleOne(a) ==
  LET n     == nonce'[a]
      now   == pend'[a]
      kept  == {m \in pend[a] : m.nonce >= n}
      whole == \A j \in n .. nonce[a] - 1 : j \in Taken(now)
  IN  /\ kept \subseteq now
      /\ \A m \in now \ kept : m.nonce \in n .. nonce[a] - 1
      /\ CASE a \in hole' /\ a \in hole -> Usable(a)
           [] a \in hole' /\ a \notin hole -> Usable(a) /\ ~ whole
           [] a \notin hole' /\ a \in hole -> Afresh(a)
           [] a \notin hole' /\ a \notin hole ->
                IF whole
                THEN FirstFree(next'[a], now, IF next[a] >= n THEN next[a] ELSE n)
                ELSE pend[a] = {} /\ Afresh(a)

Settle ==
  /\ saved' = saved
  /\ nonce' \in [Addr -> Nat]
  /\ \A a \in Addr : SettleOne(a)

(* Messages are dropped, by pruning or clearing: the nonce falls back to   *)
(* the first one dropped below it.                                         *)
DropOne(a) ==
  LET n       == next[a]
      dropped == {m \in pend[a] \ pend'[a] : m.nonce < n}
  IN  /\ pend'[a] \subseteq pend[a]
      /\ a \in hole' => a \in hole
      /\ CASE a \in hole' -> Usable(a)
           [] a \notin hole' /\ a \in hole -> Afresh(a)
           [] a \notin hole ->
                IF dropped = {} THEN next'[a] = n
                ELSE /\ next'[a] \in Taken(dropped)
                     /\ \A m \in dropped : m.nonce >= next'[a]

Drop ==
  /\ saved' \subseteq saved
  /\ \A a \in Addr : DropOne(a)

(* The node starts again with what it saved. *)
Reload ==
  /\ saved' = saved
  /\ hole' = {}
  /\ \A a \in Addr : \A m \in pend'[a] : m \in saved /\ m.nonce >= nonce[a]
  /\ \A a \in Addr : Afresh(a)

(* The messages pending are each sender's own, one for a nonce. *)
Typed ==
  /\ pend' \in [Addr -> SUBSET Entry]
  /\ \A a \in Addr : \A m \in pend'[a] :
       m.from = a /\ \A x \in pend'[a] : x.nonce = m.nonce => x = m
  /\ next' \in [Addr -> Nat]
  /\ hole' \in SUBSET Addr

Next ==
  /\ \/ UNCHANGED nonce /\ Drop
     \/ UNCHANGED <<nonce, hole>> /\ \E a \in Addr : \E m \in pend'[a] : Accept(m)
     \/ Settle
     \/ UNCHANGED nonce /\ Reload
  /\ Typed

Spec == Init /\ [][Next]_ledger

(* A sender can use the nonce the pool gives it; nothing pending is behind *)
(* the state; and, without a hole, every nonce in between is pending.      *)
LedgerSound ==
  \A a \in Addr :
    /\ next[a] >= nonce[a]
    /\ next[a] \notin Taken(pend[a])
    /\ \A m \in pend[a] : m.nonce >= nonce[a]
    /\ a \notin hole => \A j \in nonce[a] .. next[a] - 1 : j \in Taken(pend[a])
===============================================================================
