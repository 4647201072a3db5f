---------------------------- MODULE MessageChains ----------------------------
(***************************************************************************)
(* createMessageChains: the pending messages of one sender, cut into the   *)
(* runs of consecutive nonces a block would take together, best paid       *)
(* first.  A message is [from, nonce, prem]; every message burns one unit  *)
(* of gas and moves no value, so prem is what its sender must own and, the *)
(* base fee being nil, what its miner earns.                               *)
(***************************************************************************)
EXTENDS Integers, Sequences, FiniteSetsExt, Functions

CONSTANTS
  Balance,           \* of every sender, in state
  BlockMessageLimit

(* A sequence of sequences, one after the other. *)
Joined(ss) ==
  LET upTo[i \in 0 .. Len(ss)] == IF i = 0 THEN <<>> ELSE upTo[i - 1] \o ss[i]
  IN  upTo[Len(ss)]

RequiredFunds(m) == m.prem
Funds(S)         == MapThenSumSet(RequiredFunds, S)

gasReward(chain) == Funds(Range(chain))
gasLimit(chain)  == Len(chain)

(* gasPerf is a reward over a gas limit; it is compared without dividing. *)
LowerPerf(c, d) == gasReward(c) * gasLimit(d) < gasReward(d) * gasLimit(c)
SamePerf(c, d)  == gasReward(c) * gasLimit(d) = gasReward(d) * gasLimit(c)

Before(c, d) ==
  LowerPerf(d, c) \/ (SamePerf(c, d) /\ gasReward(c) > gasReward(d))

(* The messages that can be mined one after the other from a nonce on:     *)
(* there is no gap, the sender can pay for all, and a block holds them.    *)
Minable(S, nonce) ==
  LET upTo(n) == {m \in S : m.nonce \in nonce .. n}
  IN  {m \in S : /\ m.nonce \in nonce .. nonce + BlockMessageLimit - 1
                 /\ Cardinality(upTo(m.nonce)) = m.nonce - nonce + 1
                 /\ Funds(upTo(m.nonce)) =< Balance}

(* Minable messages in the order of their nonces. *)
ByNonce(M, nonce) ==
  [i \in 1 .. Cardinality(M) |-> CHOOSE m \in M : m.nonce = nonce + i - 1]

(* The first pass: a message joins the chain before it unless that would   *)
(* lower what the chain pays.                                              *)
firstPass(msgs) ==
  LET pass[i \in 0 .. Len(msgs)] ==
        IF i = 0 THEN <<>>
        ELSE LET chains == pass[i - 1]
                 last   == Len(chains)
             IN  IF last = 0 \/ LowerPerf(Append(chains[last], msgs[i]), chains[last])
                 THEN Append(chains, <<msgs[i]>>)
                 ELSE [chains EXCEPT ![last] = Append(@, msgs[i])]
  IN  pass[Len(msgs)]

(* Mutant: there is no second pass. *)
mergeChainsNot(chains) == chains

(* The second: from the last chain to the first, one that pays no less     *)
(* than its predecessor is merged into it.                                 *)
mergeChains(chains) ==
  LET merged[i \in 1 .. Len(chains) + 1] ==
        IF i > Len(chains) THEN <<>>
        ELSE LET after == merged[i + 1]
             IN  IF after # <<>> /\ ~ LowerPerf(Head(after), chains[i])
                 THEN <<chains[i] \o Head(after)>> \o Tail(after)
                 ELSE <<chains[i]>> \o after
  IN  merged[1]

createMessageChains(S, nonce) ==
  LET msgs == ByNonce(Minable(S, nonce), nonce)
      merged[i \in 0 .. Len(msgs)] ==
        IF i = 0 THEN firstPass(msgs) ELSE mergeChains(merged[i - 1])
  IN  merged[Len(msgs)]

(* What the chains of a sender must be: together, the messages that can be *)
(* mined, in order; each pays strictly more than the next, and cutting one *)
(* short never makes its head pay more.                                    *)
BestChains(S, nonce, chains) ==
  /\ Joined(chains) = ByNonce(Minable(S, nonce), nonce)
  /\ \A i \in 1 .. Len(chains) - 1 : LowerPerf(chains[i + 1], chains[i])
  /\ \A i \in DOMAIN chains : \A k \in 1 .. Len(chains[i]) :
       ~ LowerPerf(chains[i], SubSeq(chains[i], 1, k))
===============================================================================
