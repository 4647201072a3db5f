----------------------------- MODULE MessagePool -----------------------------
(***************************************************************************)
(* The daemon's message pool: the messages of each sender that wait for a  *)
(* block, the nonce a sender is to use next, and how both follow the head  *)
(* of the chain.                                                           *)
(*                                                                         *)
(* Two locks matter.  Push, Add, GetNonce and HeadChange hold curTsLk from *)
(* end to end, so they exclude one another: each but HeadChange is a step. *)
(* HeadChange takes lk anew for every message it removes or puts back, and *)
(* Clear and pruneMessages, which hold lk only, run between those.         *)
(***************************************************************************)
EXTENDS MessageChains

CONSTANTS
  Addr,
  Bls,              \* the senders whose signatures are aggregated in blocks
  Message,          \* the messages there are: [from, nonce, prem]
  MaxNonceGap, MaxActorPendingMessages, MaxUntrustedActorPendingMessages,
  SizeLimitHigh, SizeLimitLow,
  MaxNonce,         \* bound: on the nonces used
  MaxHeight,        \* bound: on the chain
  MaxEvents         \* bound: on what happens to the pool

ASSUME PoolAssumption ==
  /\ Bls \subseteq Addr
  /\ Message \subseteq [from : Addr, nonce : 0 .. MaxNonce, prem : Nat]
  /\ {MaxNonceGap, MaxActorPendingMessages, SizeLimitHigh, SizeLimitLow,
      MaxNonce, MaxHeight, MaxEvents} \subseteq Nat


VARIABLES
  curTs,      \* the pool's head: a sequence of tipsets, each one of blocks
  pool,       \* pending, currentSize, localAddrs, blsSigCache, pruneTrigger
  localMsgs,  \* datastore: the messages pushed on this node
  rmsgs,      \* HeadChange: reverted messages that are not applied again
  todo,       \* HeadChange: messages of the applied tipsets still to look at
  pruneTs,    \* pruneExcessMessages: the head it read, or NoTs
  events,     \* how many messages, head changes, clears and restarts there were
  hole,       \* senders that had a reverted message nobody could put back
  dropped,    \* how many messages Clear dropped
  excused     \* local messages the pool gave up on other than by pruning

vars == <<curTs, pool, localMsgs, rmsgs, todo, pruneTs, events, hole, dropped,
          excused>>

NoSet == [msgs |-> {}, nextNonce |-> -1, requiredFunds |-> 0]
NoTs  == <<"none">>

(* curTsLk is free. *)
Idle == rmsgs = {} /\ todo = <<>>

(* The orders in which a query or a sort may leave a set. *)
Orders(S) == Bijection(1 .. Cardinality(S), S)

Slot(m)      == <<m.from, m.nonce>>
Nonces(S)    == {m.nonce : m \in S}
MessagesOf(ts)   == Joined(ts)

(* The messages of a chain. *)
Mined(ts) ==
  UNION {UNION {Range(ts[i][j]) : j \in DOMAIN ts[i]} : i \in DOMAIN ts}

(* GetActorAfter: the state the tipset leaves behind. *)
getStateNonce(a, ts) ==
  Cardinality(Nonces({m \in Mined(ts) : m.from = a}))

newMsgSet(nonce) == [msgs |-> {}, nextNonce |-> nonce, requiredFunds |-> 0]

FillGap(S, nonce) ==
  CHOOSE n \in nonce .. MaxNonce + 1 :
    n \notin Nonces(S) /\ nonce .. n - 1 \subseteq Nonces(S)

ComputeMinRBF(curPrem) == curPrem + (curPrem * 64) \div 256 + 1

getRequiredFunds(ms, nonce) ==
  ms.requiredFunds - Funds({m \in ms.msgs : m.nonce = nonce})
(***************************************************************************)
(* msgSet.                                                                 *)
(***************************************************************************)
Outcome(ms, ok, incr) == [ms |-> ms, ok |-> ok, incr |-> incr]

(* Mutant: the funds of the message replaced are not given back. *)
addKeepsFunds(ms, m, strict, untrusted) ==
  Outcome([ms EXCEPT !.msgs = {x \in @ : x.nonce # m.nonce} \cup {m},
                     !.nextNonce = FillGap(ms.msgs \cup {m}, ms.nextNonce),
                     !.requiredFunds = @ + RequiredFunds(m)],
          TRUE, m.nonce \notin Nonces(ms.msgs))


(* Every limit is for strict callers only. *)
add(ms, m, strict, untrusted) ==
  LET maxGap   == IF untrusted THEN 0 ELSE MaxNonceGap
      maxMsgs  == IF untrusted THEN MaxUntrustedActorPendingMessages
                  ELSE MaxActorPendingMessages
      nonceGap == m.nonce > ms.nextNonce
      exms     == {x \in ms.msgs : x.nonce = m.nonce}
      refused  ==
        \/ strict /\ m.nonce > ms.nextNonce + maxGap
        \/ strict /\ nonceGap /\ exms # {}
        \/ \E x \in exms : x = m \/ m.prem < ComputeMinRBF(x.prem)
        \/ strict /\ exms = {} /\ Cardinality(ms.msgs) >= maxMsgs
  IN  IF refused THEN Outcome(ms, FALSE, FALSE)
      ELSE Outcome(
             [msgs |-> (ms.msgs \ exms) \cup {m},
              nextNonce |-> IF m.nonce = ms.nextNonce
                            THEN FillGap(ms.msgs, m.nonce + 1) ELSE ms.nextNonce,
              requiredFunds |-> ms.requiredFunds - Funds(exms) + RequiredFunds(m)],
             TRUE, exms = {})

rm(ms, nonce, applied) ==
  LET unknown == nonce \notin Nonces(ms.msgs)
      next    == CASE applied /\ unknown /\ nonce >= ms.nextNonce ->
                        FillGap(ms.msgs, nonce + 1)
                   [] applied /\ ~ unknown /\ nonce >= ms.nextNonce -> nonce + 1
                   [] ~ applied /\ ~ unknown /\ nonce < ms.nextNonce -> nonce
                   [] OTHER -> ms.nextNonce
  IN  [msgs |-> {m \in ms.msgs : m.nonce # nonce}, nextNonce |-> next,
       requiredFunds |-> getRequiredFunds(ms, nonce)]

(***************************************************************************)
(* What Push, Add, HeadChange and loadLocal do to the pool, under lk.  A   *)
(* refused message has been cached, and may leave an empty set behind.     *)
(***************************************************************************)
addLocked(p, m, ts, strict, untrusted) ==
  LET mset == IF p.pending[m.from] = NoSet
              THEN newMsgSet(getStateNonce(m.from, ts)) ELSE p.pending[m.from]
      res  == add(mset, m, strict, untrusted)
      size == p.currentSize + IF res.incr THEN 1 ELSE 0
  IN  [pool |-> [p EXCEPT
                   !.blsSigCache = IF m.from \in Bls THEN @ \cup {m} ELSE @,
                   !.pending[m.from] = res.ms,
                   !.currentSize = size,
                   !.pruneTrigger = @ \/ (res.incr /\ size > SizeLimitHigh)],
       ok |-> res.ok]

remove(p, from, nonce, applied) ==
  LET mset == p.pending[from]
      left == rm(mset, nonce, applied)
  IN  IF mset = NoSet THEN p
      ELSE [p EXCEPT
              !.pending[from] = IF left.msgs = {} THEN NoSet ELSE left,
              !.currentSize = @ - IF nonce \in Nonces(mset.msgs) THEN 1 ELSE 0]

checkBalance(p, m) ==
  RequiredFunds(m) + getRequiredFunds(p.pending[m.from], m.nonce) =< Balance

(* What GetNonce answers. *)
getNonceLocked(p, a, ts) ==
  LET stateNonce == getStateNonce(a, ts)
  IN  IF p.pending[a] = NoSet \/ stateNonce > p.pending[a].nextNonce
      THEN stateNonce ELSE p.pending[a].nextNonce

EmptyPool ==
  [pending |-> [a \in Addr |-> NoSet], currentSize |-> 0, localAddrs |-> {},
   blsSigCache |-> {}, pruneTrigger |-> FALSE]

(* The tipsets a chain can be extended with: a block of one message, one   *)
(* of two messages of a sender, or two blocks with messages of one nonce,  *)
(* perhaps the same.                                                       *)
TipSetsOn(ts) ==
  LET now      == {m \in Message : m.nonce = getStateNonce(m.from, ts)}
      after(m) == {n \in Message : n.from = m.from /\ n.nonce = m.nonce + 1}
      rival(m) == {n \in now : n.from = m.from}
  IN  {<<<<m>>>> : m \in now} \cup
      (UNION {{<<<<m, n>>>> : n \in after(m)} : m \in now}) \cup
      (UNION {{<<<<m>>, <<n>>>> : n \in rival(m)} : m \in now})

(* The pool starts with the daemon, on whatever the head is. *)
Init ==
  /\ curTs \in {<<>>} \cup {<<t>> : t \in TipSetsOn(<<>>)}
  /\ pool = EmptyPool
  /\ localMsgs = {}
  /\ rmsgs = {}
  /\ todo = <<>>
  /\ pruneTs = NoTs
  /\ events = 0
  /\ hole = {}
  /\ dropped = 0
  /\ excused = {}

Event == events < MaxEvents /\ events' = events + 1

(* A hole is forgotten with the set of its sender. *)
Holes(new) == hole' = {a \in hole \cup new : pool'.pending[a] # NoSet}

(***************************************************************************)
(* Push and PushUntrusted are strict about nothing, as local = TRUE; Add,  *)
(* for messages from the network, is.                                      *)
(***************************************************************************)
Accepts(m) ==
  /\ Idle
  /\ m.nonce >= getStateNonce(m.from, curTs)
  /\ checkBalance(pool, m)

Push(m, untrusted) ==
  /\ Accepts(m)
  /\ Event
  /\ LET res == addLocked(pool, m, curTs, FALSE, untrusted)
     IN  IF res.ok
         THEN /\ pool' = [res.pool EXCEPT !.localAddrs = @ \cup {m.from}]
              /\ localMsgs' = localMsgs \cup {m}
              /\ excused' = excused \ {m}
         ELSE /\ pool' = res.pool
              /\ UNCHANGED <<localMsgs, excused>>
  /\ Holes({})
  /\ UNCHANGED <<curTs, rmsgs, todo, pruneTs, dropped>>

(* addLocal fails to save the message; the pool keeps it, its sender marked. *)
PushNotSaved(m) ==
  LET res == addLocked(pool, m, curTs, FALSE, FALSE)
  IN  /\ Accepts(m)
      /\ res.ok
      /\ Event
      /\ pool' = [res.pool EXCEPT !.localAddrs = @ \cup {m.from}]
      /\ Holes({})
      /\ UNCHANGED <<curTs, localMsgs, rmsgs, todo, pruneTs, dropped, excused>>

Add(m) ==
  /\ Accepts(m)
  /\ Event
  /\ pool' = addLocked(pool, m, curTs, TRUE, FALSE).pool
  /\ Holes({})
  /\ UNCHANGED <<curTs, localMsgs, rmsgs, todo, pruneTs, dropped, excused>>

(***************************************************************************)
(* HeadChange.                                                             *)
(***************************************************************************)
RecoverSig(m) == m.from \notin Bls \/ m \in pool.blsSigCache

(* Of the messages of a reverted tipset: the last one seen of each slot. *)
Reverted(ts) ==
  LET msgs == MessagesOf(ts)
      again(i) == \E j \in i + 1 .. Len(msgs) :
                    RecoverSig(msgs[j]) /\ Slot(msgs[j]) = Slot(msgs[i])
  IN  {msgs[i] : i \in {i \in DOMAIN msgs : RecoverSig(msgs[i]) /\ ~ again(i)}}

(* HeadChange takes curTsLk, loads what is reverted, and moves curTs.  No  *)
(* one else reads curTs before it is through.                              *)
HeadChange(k, apply) ==
  LET kept == SubSeq(curTs, 1, Len(curTs) - k)
      gone == SubSeq(curTs, Len(curTs) - k + 1, Len(curTs))
      back == UNION {Reverted(gone[i]) : i \in DOMAIN gone}
      lost == {m \in Mined(gone) :
                 /\ m.nonce >= getStateNonce(m.from, curTs')
                 /\ \A r \in back : Slot(r) # Slot(m)}
  IN  /\ Idle
      /\ Event
      /\ curTs' = kept \o apply
      /\ rmsgs' = back
      /\ todo' = Joined(Joined(apply))
      /\ excused' = excused \cup
           {m \in localMsgs : \E x \in lost : Slot(x) = Slot(m)}
      /\ UNCHANGED pool
      /\ Holes({m.from : m \in lost})
      /\ UNCHANGED <<localMsgs, pruneTs, dropped>>

applyMessage ==
  LET m == Head(todo)
  IN  /\ todo # <<>>
      /\ todo' = Tail(todo)
      /\ IF \E r \in rmsgs : Slot(r) = Slot(m)
         THEN /\ rmsgs' = {r \in rmsgs : Slot(r) # Slot(m)}
              /\ UNCHANGED pool
         ELSE /\ pool' = remove(pool, m.from, m.nonce, TRUE)
              /\ UNCHANGED rmsgs
      /\ Holes({})
      /\ UNCHANGED <<curTs, localMsgs, pruneTs, events, dropped, excused>>

(* The reverted messages that were not applied again, in any order. *)
addSkipChecks(m) ==
  /\ todo = <<>>
  /\ m \in rmsgs
  /\ rmsgs' = rmsgs \ {m}
  /\ pool' = addLocked(pool, m, curTs, FALSE, FALSE).pool
  /\ Holes({})
  /\ UNCHANGED <<curTs, localMsgs, todo, pruneTs, events, dropped, excused>>

NextHead ==
  \E k \in 0 .. Len(curTs) :
    LET kept == SubSeq(curTs, 1, Len(curTs) - k)
    IN  \E apply \in {<<>>} \cup {<<t>> : t \in TipSetsOn(kept)} :
          /\ k > 0 \/ apply # <<>>
          /\ Len(kept \o apply) =< MaxHeight
          /\ HeadChange(k, apply)

(***************************************************************************)
(* Clear(local) forgets every message, and deletes from the datastore the  *)
(* local ones it finds in the pool; otherwise it spares local senders.     *)
(* Neither touches currentSize.                                            *)
(***************************************************************************)
Pending(p) == UNION {p.pending[a].msgs : a \in Addr}

Clear(local) ==
  LET cleared == IF local THEN Addr ELSE Addr \ pool.localAddrs
      msgs    == UNION {pool.pending[a].msgs : a \in cleared}
  IN  /\ Event
      /\ pool' = [pool EXCEPT !.pending =
                    [a \in Addr |-> IF a \in cleared THEN NoSet ELSE @[a]]]
      /\ localMsgs' = IF local
                      THEN localMsgs \ {m \in msgs : m.from \in pool.localAddrs}
                      ELSE localMsgs
      /\ dropped' = dropped + Cardinality(msgs)
      /\ excused' = IF local
                    THEN excused \cup
                         {m \in localMsgs : \E x \in msgs : Slot(x) = Slot(m)}
                    ELSE excused
      /\ Holes({})
      /\ UNCHANGED <<curTs, rmsgs, todo, pruneTs>>

(***************************************************************************)
(* Pruning: the run loop reads the head under curTsLk, lets it go, and     *)
(* prunes under lk.  The minute it must wait between two prunes is a       *)
(* choice.                                                                 *)
(***************************************************************************)
(* Mutant: the messages of local senders are pruned like any other. *)
protectedNobody == {}

protected == pool.localAddrs

pruneExcessMessages ==
  /\ pool.pruneTrigger
  /\ pruneTs = NoTs
  /\ Idle
  /\ pruneTs' = curTs
  /\ pool' = [pool EXCEPT !.pruneTrigger = FALSE]
  /\ UNCHANGED <<curTs, localMsgs, rmsgs, todo, events, hole, dropped, excused>>

(* The orders sort.Slice may leave the chains in. *)
Sorted(chains) ==
  {s \in Orders(chains) : \A i, j \in DOMAIN s : i < j => ~ Before(s[j], s[i])}

pruneMessages ==
  LET open    == Addr \ protected
      keepCount == Cardinality(UNION {pool.pending[a].msgs : a \in Addr \ open})
      chains  == UNION {Range(createMessageChains(pool.pending[a].msgs,
                                                  getStateNonce(a, pruneTs))) :
                        a \in open}
      lowMark == IF SizeLimitLow > keepCount THEN SizeLimitLow - keepCount ELSE 0
  IN  \E order \in Sorted(chains) :
        LET best  == Joined(order)
            kept  == Range(SubSeq(best, 1, Min({lowMark, Len(best)})))
            prune == (UNION {pool.pending[a].msgs : a \in open}) \ kept
        IN  pool' = FoldSet(LAMBDA m, p : remove(p, m.from, m.nonce, FALSE),
                            pool, prune)

Prune ==
  /\ pruneTs # NoTs
  /\ pruneTs' = NoTs
  /\ \/ UNCHANGED pool
     \/ pool.currentSize >= SizeLimitHigh /\ pruneMessages
  /\ Holes({})
  /\ UNCHANGED <<curTs, localMsgs, rmsgs, todo, events, dropped, excused>>

(***************************************************************************)
(* The daemon stops and starts again: New and loadLocal.  A local message  *)
(* that is on the chain is passed over before its sender is marked local.  *)
(***************************************************************************)
addLoaded(p, m) ==
  LET marked(q) == [q EXCEPT !.localAddrs = @ \cup {m.from}]
  IN  CASE getStateNonce(m.from, curTs) > m.nonce -> p
        [] ~ checkBalance(p, m) -> marked(p)
        [] OTHER -> marked(addLocked(p, m, curTs, FALSE, FALSE).pool)

Restart ==
  /\ Event
  /\ \E order \in Orders(localMsgs) :
       LET loaded[i \in 0 .. Len(order)] ==
             IF i = 0 THEN EmptyPool ELSE addLoaded(loaded[i - 1], order[i])
       IN  pool' = loaded[Len(order)]
  /\ excused' = excused \cup
       {m \in localMsgs :
          \/ m.from \notin pool'.localAddrs
          \/ m.nonce >= getStateNonce(m.from, curTs)
             /\ m.nonce \notin Nonces(pool'.pending[m.from].msgs)}
  /\ rmsgs' = {}
  /\ todo' = <<>>
  /\ pruneTs' = NoTs
  /\ dropped' = 0
  /\ Holes({})
  /\ UNCHANGED <<curTs, localMsgs>>

Next ==
  \/ \E m \in Message : Push(m, FALSE) \/ Push(m, TRUE) \/ PushNotSaved(m) \/ Add(m)
  \/ NextHead
  \/ applyMessage
  \/ \E m \in Message : addSkipChecks(m)
  \/ Clear(TRUE) \/ Clear(FALSE)
  \/ pruneExcessMessages \/ Prune
  \/ Restart

Spec == Init /\ [][Next]_vars

-------------------------------------------------------------------------------
(* The books: requiredFunds, which checkBalance relies on, is what the     *)
(* pending messages of a sender cost, and currentSize is the number of     *)
(* messages pending plus those Clear dropped, which it never gives back.   *)
BooksAgree ==
  /\ \A a \in Addr : pool.pending[a].requiredFunds = Funds(pool.pending[a].msgs)
  /\ pool.currentSize = Cardinality(Pending(pool)) + dropped

(* A message pushed on this node, once saved, is on the chain, pending, or *)
(* replaced by another of its nonce, whatever reorganisations and prunes   *)
(* did ("we also never prune locally published messages").  Excused are    *)
(* messages cleared, reverted without their signature, refused when they   *)
(* were loaded, or passed over then so that their sender was not marked.   *)
LocalKept ==
  \A m \in localMsgs \ excused :
    \/ m.nonce < getStateNonce(m.from, curTs)
    \/ m.nonce \in Nonces(pool.pending[m.from].msgs)
    \/ \E r \in rmsgs : Slot(r) = Slot(m)

(* createMessageChains, on whatever is pending, finds the best chains: the *)
(* two passes keep the "invariant: each chain has a bigger gasPerf than    *)
(* the next -- otherwise they can be merged".                              *)
ChainsAreBest ==
  \A a \in Addr :
    LET msgs  == pool.pending[a].msgs
        nonce == getStateNonce(a, curTs)
    IN  BestChains(msgs, nonce, createMessageChains(msgs, nonce))

-------------------------------------------------------------------------------
(***************************************************************************)
(* What the pool promises.  While HeadChange runs its callers wait for     *)
(* curTsLk, so they see the pool as it will be: the reverted messages back *)
(* and those the new head has passed gone.                                 *)
(***************************************************************************)
Seen(a) ==
  LET stateNonce == getStateNonce(a, curTs)
  IN  {m \in pool.pending[a].msgs \cup {r \in rmsgs : r.from = a} :
         m.nonce >= stateNonce}

Ledger == INSTANCE PoolLedger WITH
  nonce <- [a \in Addr |-> getStateNonce(a, curTs)],
  pend  <- [a \in Addr |-> Seen(a)],
  next  <- [a \in Addr |-> FillGap(Seen(a), getNonceLocked(pool, a, curTs))],
  saved <- localMsgs


==============================================================================
