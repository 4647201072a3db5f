--------------------------- MODULE MessagePoolProofs ---------------------------
(***************************************************************************)
(* Proofs about the message pool for any senders, messages, limits and     *)
(* bounds: its books agree with what it holds, and what was pushed on this *)
(* node is kept; and about the ledger it promises to be.                   *)
(***************************************************************************)
EXTENDS MessagePool, FiniteSetTheorems, TLAPS

-------------------------------------------------------------------------------
(* Induction and recursion, up to a number and over the subsets of a set. *)

(* A set of numbers that is not empty has a least element. *)
LEMMA LeastOf ==
  ASSUME NEW S \in SUBSET Nat, S # {}
  PROVE  \E x \in S : \A y \in S : x <= y
<1> DEFINE R == OpToRel(<, Nat)
<1>1. IsWellFoundedOn(R, Nat)
  BY NatLessThanWellFounded, Zenon
<1>2. \A x, y \in Nat : <<x, y>> \in R <=> x < y
  BY Zenon DEF OpToRel
<1> HIDE DEF R
<1>3. S \subseteq Nat
  BY Zenon
<1>4. PICK x \in S : \A y \in S : ~(<<y, x>> \in R)
  BY <1>1, <1>3, WFMin, Zenon
<1>5. ASSUME NEW y \in S PROVE x <= y
  <2>1. x \in Nat /\ y \in Nat /\ ~(y < x)
    BY <1>2, <1>4, Zenon
  <2> QED
    BY <2>1
<1> QED
  BY <1>5, Zenon

(* A set of numbers with 0 that is closed under successor has them all. *)
LEMMA UpToAnyNumber ==
  ASSUME NEW T, 0 \in T, \A n \in Nat : n \in T => n + 1 \in T
  PROVE  Nat \subseteq T
<1> DEFINE C == {n \in Nat : n \notin T}
<1>1. SUFFICES ASSUME C # {} PROVE FALSE
  BY Zenon
<1>2. PICK x \in C : \A y \in C : x <= y
  <2>1. C \in SUBSET Nat
    BY Zenon
  <2> HIDE DEF C
  <2> QED
    BY <1>1, <2>1, LeastOf, Zenon
<1>3. x \in Nat /\ x # 0
  BY Zenon
<1>4. x - 1 \in Nat /\ ~(x <= x - 1) /\ (x - 1) + 1 = x
  BY <1>3
<1>5. x - 1 \in T
  BY <1>2, <1>4, Zenon
<1> QED
  BY <1>4, <1>5, Zenon

(* Removing an element makes a finite set smaller by one. *)
LEMMA OneLess ==
  ASSUME NEW S, IsFiniteSet(S), NEW s \in SUBSET S, NEW x \in s
  PROVE  /\ Cardinality(s) \in Nat /\ Cardinality(s \ {x}) \in Nat
         /\ Cardinality(s) = Cardinality(s \ {x}) + 1
         /\ s \ {x} \in SUBSET S
<1>1. IsFiniteSet(s)
  BY FS_Subset, Zenon
<1>2. IsFiniteSet(s \ {x}) /\ Cardinality(s \ {x}) = Cardinality(s) - 1
  BY <1>1, FS_RemoveElement, Zenon
<1>3. Cardinality(s) \in Nat /\ Cardinality(s \ {x}) \in Nat
  BY <1>1, <1>2, FS_CardinalityType, Zenon
<1> QED
  BY <1>2, <1>3

(* A set that has a subset of S as soon as it has those with one element   *)
(* less has all of them.                                                   *)
LEMMA SubsetInduction ==
  ASSUME NEW S, IsFiniteSet(S), NEW T,
         \A s \in SUBSET S : (\A x \in s : s \ {x} \in T) => s \in T
  PROVE  SUBSET S \subseteq T
<1> DEFINE U == {n \in Nat : \A s \in SUBSET S : Cardinality(s) = n => s \in T}
<1>1. 0 \in U
  <2> SUFFICES ASSUME NEW s \in SUBSET S, Cardinality(s) = 0 PROVE s \in T
    BY Zenon
  <2>1. IsFiniteSet(s)
    BY FS_Subset, Zenon
  <2>2. s = {}
    BY <2>1, FS_EmptySet, Zenon
  <2> QED
    BY <2>2, Zenon
<1>2. ASSUME NEW n \in Nat, n \in U PROVE n + 1 \in U
  <2> SUFFICES ASSUME NEW s \in SUBSET S, Cardinality(s) = n + 1 PROVE s \in T
    OBVIOUS
  <2>1. ASSUME NEW x \in s PROVE s \ {x} \in T
    <3>1. s \ {x} \in SUBSET S /\ Cardinality(s \ {x}) = n
      BY OneLess
    <3> QED
      BY <1>2, <3>1, Zenon
  <2> QED
    BY <2>1, Zenon
<1> HIDE DEF U
<1>3. Nat \subseteq U
  BY <1>1, <1>2, UpToAnyNumber, Zenon
<1>4. ASSUME NEW s \in SUBSET S PROVE s \in T
  <2>1. Cardinality(s) \in Nat
    BY FS_Subset, FS_CardinalityType, Zenon
  <2> QED
    BY <1>3, <2>1, Zenon DEF U
<1> QED
  BY <1>4, Zenon

Pick(s) == CHOOSE x \in s : TRUE

(* f is b for no element, and folds st over the elements of a set, in the  *)
(* order they are picked.                                                  *)
IsFold(st, S, D) == st \in [S -> [D -> D]]

Folds(f, S, D, b, st) ==
  /\ f \in [SUBSET S -> D]
  /\ f[{}] = b
  /\ \A s \in SUBSET S : s # {} => f[s] = st[Pick(s)][f[s \ {Pick(s)}]]

(* A function on the subsets of a finite set may be defined by its value   *)
(* for the empty set and a step.                                           *)
LEMMA SubsetRecursion ==
  ASSUME NEW S, IsFiniteSet(S), NEW D, NEW b \in D, NEW st, IsFold(st, S, D)
  PROVE  \E f : Folds(f, S, D, b, st)
<1>0. st \in [S -> [D -> D]]
  BY Zenon DEF IsFold
<1> DEFINE Upto(n, f) ==
             /\ f[{}] = b
             /\ \A s \in SUBSET S : s # {} /\ Cardinality(s) < n
                  => f[s] = st[Pick(s)][f[s \ {Pick(s)}]]
           U == {n \in Nat : \E f \in [SUBSET S -> D] : Upto(n, f)}
<1>1. \A s \in SUBSET S : Cardinality(s) \in Nat /\ (s # {} => Pick(s) \in s)
  BY FS_Subset, FS_CardinalityType, Zenon DEF Pick
<1>2. 0 \in U
  <2> DEFINE f == [s \in SUBSET S |-> b]
  <2>1. f \in [SUBSET S -> D] /\ Upto(0, f)
    BY <1>1
  <2> QED
    BY <2>1, Zenon
<1>3. ASSUME NEW n \in Nat, n \in U PROVE n + 1 \in U
  <2>1. PICK f \in [SUBSET S -> D] : Upto(n, f)
    BY <1>3, Zenon
  <2> DEFINE h == [s \in SUBSET S |-> IF s # {} /\ Cardinality(s) = n
                                      THEN st[Pick(s)][f[s \ {Pick(s)}]] ELSE f[s]]
  <2>2. h \in [SUBSET S -> D]
    BY <1>0, <1>1
  <2>3. h[{}] = b
    BY <2>1, Zenon
  <2>4. ASSUME NEW s \in SUBSET S, s # {}, Cardinality(s) < n + 1
        PROVE  h[s] = st[Pick(s)][h[s \ {Pick(s)}]]
    <3>1. Pick(s) \in s
      BY <1>1, <2>4, Zenon
    <3>2. /\ s \ {Pick(s)} \in SUBSET S
          /\ Cardinality(s) = Cardinality(s \ {Pick(s)}) + 1
          /\ Cardinality(s) \in Nat /\ Cardinality(s \ {Pick(s)}) \in Nat
      BY <3>1, OneLess, Zenon
    <3>3. Cardinality(s \ {Pick(s)}) # n
      BY <2>4, <3>2
    <3>4. h[s \ {Pick(s)}] = f[s \ {Pick(s)}]
      BY <3>2, <3>3, Zenon
    <3>5. CASE Cardinality(s) = n
      <4>1. h[s] = st[Pick(s)][f[s \ {Pick(s)}]]
        BY <2>4, <3>5, Zenon
      <4> QED
        BY <3>4, <4>1, Zenon
    <3>6. CASE Cardinality(s) # n
      <4>1. Cardinality(s) < n
        BY <2>4, <3>2, <3>6
      <4>2. h[s] = f[s] /\ f[s] = st[Pick(s)][f[s \ {Pick(s)}]]
        BY <2>1, <2>4, <3>6, <4>1, Zenon
      <4> QED
        BY <3>4, <4>2, Zenon
    <3> QED
      BY <3>5, <3>6, Zenon
  <2> HIDE DEF h
  <2>5. Upto(n + 1, h)
    BY <2>3, <2>4, Zenon
  <2> QED
    BY <2>2, <2>5
<1> HIDE DEF U
<1>4. Nat \subseteq U
  BY <1>2, <1>3, UpToAnyNumber, Zenon
<1>5. Cardinality(S) + 1 \in Nat /\ Cardinality(S) \in Nat
  BY FS_CardinalityType
<1>6. PICK f \in [SUBSET S -> D] : Upto(Cardinality(S) + 1, f)
  BY <1>4, <1>5, Zenon DEF U
<1>7. ASSUME NEW s \in SUBSET S PROVE Cardinality(s) < Cardinality(S) + 1
  <2>1. Cardinality(s) <= Cardinality(S)
    BY FS_Subset, Zenon
  <2> QED
    BY <1>1, <1>5, <2>1
<1> QED
  BY <1>6, <1>7, Zenon DEF Folds

-------------------------------------------------------------------------------
(* What messages cost. *)

IsSum(f, S) ==
  f = [s \in SUBSET S |->
         IF s = {} THEN 0 ELSE RequiredFunds(Pick(s)) + f[s \ {Pick(s)}]]

SumOn(S) == CHOOSE f : IsSum(f, S)

LEMMA FundsIsSum == \A S : Funds(S) = SumOn(S)[S]
  BY Zenon DEF Funds, MapThenSumSet, MapThenFoldSet, SumOn, IsSum, Pick

Priced(S) == IsFiniteSet(S) /\ \A x \in S : RequiredFunds(x) \in Nat

LEMMA SumIs ==
  ASSUME NEW S, Priced(S)
  PROVE  IsSum(SumOn(S), S) /\ \A s \in SUBSET S : SumOn(S)[s] \in Nat
<1> DEFINE st == [x \in S |-> [n \in Nat |-> RequiredFunds(x) + n]]
           g  == SumOn(S)
<1>0. IsFiniteSet(S) /\ (\A x \in S : RequiredFunds(x) \in Nat)
        /\ \A s \in SUBSET S : s # {} => Pick(s) \in s
  BY Zenon DEF Priced, Pick
<1>1. IsFold(st, S, Nat)
  BY <1>0 DEF IsFold
<1> HIDE DEF st
<1>2. PICK f : Folds(f, S, Nat, 0, st)
  BY <1>0, <1>1, SubsetRecursion, Zenon
<1>3. ASSUME NEW s \in SUBSET S
      PROVE  f[s] = IF s = {} THEN 0 ELSE RequiredFunds(Pick(s)) + f[s \ {Pick(s)}]
  <2>1. CASE s = {}
    BY <1>2, <2>1, Zenon DEF Folds
  <2>2. CASE s # {}
    <3>1. f[s] = st[Pick(s)][f[s \ {Pick(s)}]]
      BY <1>2, <2>2, Zenon DEF Folds
    <3>2. Pick(s) \in S /\ f[s \ {Pick(s)}] \in Nat
      BY <1>0, <1>2, <2>2, Zenon DEF Folds
    <3> QED
      BY <2>2, <3>1, <3>2, Zenon DEF st
  <2> QED
    BY <2>1, <2>2, Zenon
<1>4. IsSum(f, S)
  <2>1. f = [s \in SUBSET S |-> f[s]]
    BY <1>2, Zenon DEF Folds
  <2> QED
    BY <1>3, <2>1, Zenon DEF IsSum
<1>5. IsSum(g, S)
  BY <1>4, Zenon DEF SumOn
<1> HIDE DEF g
<1> DEFINE T == {s \in SUBSET S : g[s] \in Nat}
<1>6. ASSUME NEW s \in SUBSET S, \A x \in s : s \ {x} \in T PROVE s \in T
  <2>1. g[s] = IF s = {} THEN 0 ELSE RequiredFunds(Pick(s)) + g[s \ {Pick(s)}]
    BY <1>5, Zenon DEF IsSum
  <2>2. CASE s = {}
    BY <2>1, <2>2
  <2>3. CASE s # {}
    <3>1. Pick(s) \in s /\ g[s \ {Pick(s)}] \in Nat /\ RequiredFunds(Pick(s)) \in Nat
      BY <1>0, <1>6, <2>3, Zenon
    <3> QED
      BY <2>1, <2>3, <3>1
  <2> QED
    BY <2>2, <2>3, Zenon
<1>7. SUBSET S \subseteq T
  <2> HIDE DEF T
  <2> QED
    BY <1>0, <1>6, SubsetInduction, Zenon
<1> QED
  BY <1>5, <1>7, Zenon DEF g

(* What messages cost does not depend on the set they are summed in. *)
LEMMA SumsAgree ==
  ASSUME NEW S, Priced(S), NEW T \in SUBSET S
  PROVE  SumOn(T)[T] = SumOn(S)[T]
<1> DEFINE g == SumOn(S)
           h == SumOn(T)
           V == {s \in SUBSET T : g[s] = h[s]}
<1>1. Priced(T)
  BY FS_Subset, Zenon DEF Priced
<1>2. IsSum(g, S) /\ IsSum(h, T)
  BY <1>1, SumIs, Zenon
<1> HIDE DEF g, h
<1>3. ASSUME NEW s \in SUBSET T, \A x \in s : s \ {x} \in V PROVE s \in V
  <2>1. /\ g[s] = IF s = {} THEN 0 ELSE RequiredFunds(Pick(s)) + g[s \ {Pick(s)}]
        /\ h[s] = IF s = {} THEN 0 ELSE RequiredFunds(Pick(s)) + h[s \ {Pick(s)}]
    <3>1. s \in SUBSET S
      BY Zenon
    <3> QED
      BY <1>2, <3>1, Zenon DEF IsSum
  <2>2. s # {} => Pick(s) \in s
    BY Zenon DEF Pick
  <2>3. s # {} => g[s \ {Pick(s)}] = h[s \ {Pick(s)}]
    BY <1>3, <2>2, Zenon
  <2> QED
    BY <2>1, <2>3, Zenon
<1>4. SUBSET T \subseteq V
  <2> HIDE DEF V
  <2> QED
    BY <1>1, <1>3, SubsetInduction, Zenon DEF Priced
<1> QED
  BY <1>4, Zenon DEF g, h

(* Any message may be taken out of the sum first. *)
LEMMA SumWithout ==
  ASSUME NEW S, Priced(S)
  PROVE  \A s \in SUBSET S : \A y \in s :
           SumOn(S)[s] = RequiredFunds(y) + SumOn(S)[s \ {y}]
<1> DEFINE g == SumOn(S)
           T == {s \in SUBSET S : \A y \in s : g[s] = RequiredFunds(y) + g[s \ {y}]}
<1>1. IsSum(g, S) /\ \A s \in SUBSET S : g[s] \in Nat
  BY SumIs, Zenon
<1>2. IsFiniteSet(S) /\ \A x \in S : RequiredFunds(x) \in Nat
  BY Zenon DEF Priced
<1> HIDE DEF g
<1>3. ASSUME NEW s \in SUBSET S, \A x \in s : s \ {x} \in T, NEW y \in s
      PROVE  g[s] = RequiredFunds(y) + g[s \ {y}]
  <2> DEFINE c == Pick(s)
  <2>1. g[s] = RequiredFunds(c) + g[s \ {c}] /\ c \in s
    BY <1>1, Zenon DEF IsSum, Pick
  <2> HIDE DEF c
  <2>2. CASE y = c
    BY <2>1, <2>2, Zenon
  <2>3. CASE y # c
    <3>1. s \ {c} \in T /\ s \ {y} \in T /\ y \in s \ {c} /\ c \in s \ {y}
      BY <1>3, <2>1, <2>3, Zenon
    <3>2. /\ g[s \ {c}] = RequiredFunds(y) + g[(s \ {c}) \ {y}]
          /\ g[s \ {y}] = RequiredFunds(c) + g[(s \ {y}) \ {c}]
      BY <3>1, Zenon
    <3>3. (s \ {c}) \ {y} = (s \ {y}) \ {c} /\ (s \ {c}) \ {y} \in SUBSET S
      BY Zenon
    <3>4. RequiredFunds(y) \in Nat /\ RequiredFunds(c) \in Nat
            /\ g[(s \ {c}) \ {y}] \in Nat
      BY <1>1, <1>2, <2>1, <3>3, Zenon
    <3> QED
      BY <2>1, <3>2, <3>3, <3>4
  <2> QED
    BY <2>2, <2>3, Zenon
<1>4. SUBSET S \subseteq T
  <2>1. \A s \in SUBSET S : (\A x \in s : s \ {x} \in T) => s \in T
    BY <1>3, Zenon
  <2> HIDE DEF T
  <2> QED
    BY <1>2, <2>1, SubsetInduction, Zenon
<1> QED
  BY <1>4, Zenon DEF g

(* Funds: nothing costs nothing, and each message adds what it costs. *)
LEMMA FundsOfNone == Funds({}) = 0
<1>1. Priced({})
  BY FS_EmptySet, Zenon DEF Priced
<1>2. IsSum(SumOn({}), {})
  BY <1>1, SumIs, Zenon
<1>3. SumOn({})[{}] = 0
  BY <1>2, Zenon DEF IsSum
<1> QED
  BY <1>3, FundsIsSum, Zenon

LEMMA FundsType ==
  ASSUME NEW S, Priced(S)
  PROVE  Funds(S) \in Nat
  BY SumIs, FundsIsSum, Zenon

LEMMA FundsWithout ==
  ASSUME NEW S, Priced(S), NEW y \in S
  PROVE  Funds(S \ {y}) = Funds(S) - RequiredFunds(y)
<1>1. SumOn(S)[S] = RequiredFunds(y) + SumOn(S)[S \ {y}]
  BY SumWithout
<1>2. SumOn(S \ {y})[S \ {y}] = SumOn(S)[S \ {y}]
  BY SumsAgree, Zenon
<1>3. RequiredFunds(y) \in Nat /\ SumOn(S)[S \ {y}] \in Nat
  BY SumIs, Zenon DEF Priced
<1> QED
  BY <1>1, <1>2, <1>3, FundsIsSum

LEMMA FundsWith ==
  ASSUME NEW S, Priced(S), NEW y, y \notin S, RequiredFunds(y) \in Nat
  PROVE  Priced(S \cup {y}) /\ Funds(S \cup {y}) = Funds(S) + RequiredFunds(y)
<1>1. Priced(S \cup {y})
  BY FS_AddElement, Zenon DEF Priced
<1>2. (S \cup {y}) \ {y} = S
  BY Zenon
<1>3. Funds(S) = Funds(S \cup {y}) - RequiredFunds(y)
  BY <1>1, <1>2, FundsWithout, Zenon
<1>4. Funds(S \cup {y}) \in Nat
  BY <1>1, FundsType, Zenon
<1> QED
  BY <1>1, <1>3, <1>4

LEMMA FundsOfOne ==
  ASSUME NEW y, RequiredFunds(y) \in Nat
  PROVE  Funds({y}) = RequiredFunds(y)
<1>1. Priced({}) /\ {} \cup {y} = {y}
  BY FS_EmptySet, Zenon DEF Priced
<1>2. Funds({} \cup {y}) = Funds({}) + RequiredFunds(y)
  BY <1>1, FundsWith, Zenon
<1> QED
  BY <1>1, <1>2, FundsOfNone

-------------------------------------------------------------------------------
(* Message sets. *)

MsgSet == [msgs : SUBSET Message, nextNonce : -1 .. MaxNonce + 1,
           requiredFunds : Int]

(* What the set of sender a is: its own messages, one for a nonce, and the *)
(* funds they require.                                                     *)
OwnSet(a, ms) ==
  /\ ms \in MsgSet
  /\ IsFiniteSet(ms.msgs)
  /\ \A m \in ms.msgs : m.from = a
  /\ \A m, x \in ms.msgs : m.nonce = x.nonce => m = x
  /\ ms.requiredFunds = Funds(ms.msgs)
  /\ ms = NoSet \/ ms.nextNonce >= 0

LEMMA MessageFacts ==
  ASSUME NEW m \in Message
  PROVE  /\ m.from \in Addr /\ m.nonce \in 0 .. MaxNonce /\ m.nonce \in Nat
         /\ m.prem \in Nat /\ RequiredFunds(m) \in Nat /\ MaxNonce \in Nat
  BY PoolAssumption DEF RequiredFunds

LEMMA PricedMessages ==
  ASSUME NEW S \in SUBSET Message, IsFiniteSet(S)
  PROVE  Priced(S)
  BY MessageFacts, Zenon DEF Priced

LEMMA InNonces ==
  ASSUME NEW S, NEW n
  PROVE  n \in Nonces(S) <=> \E m \in S : m.nonce = n
  BY Zenon DEF Nonces

(* FillGap: the first nonce from n on that no message has. *)
LEMMA FillGapIs ==
  ASSUME NEW S \in SUBSET Message, NEW n \in 0 .. MaxNonce + 1
  PROVE  /\ FillGap(S, n) \in n .. MaxNonce + 1
         /\ FillGap(S, n) \notin Nonces(S)
         /\ n .. FillGap(S, n) - 1 \subseteq Nonces(S)
<1> DEFINE C == {k \in Nat : k >= n /\ k \notin Nonces(S)}
<1>1. MaxNonce \in Nat /\ \A k \in Nonces(S) : k \in 0 .. MaxNonce
  BY PoolAssumption, MessageFacts, InNonces, Zenon
<1>2. MaxNonce + 1 \in C
  BY <1>1
<1>3. PICK k \in C : \A j \in C : k <= j
  <2>1. C \in SUBSET Nat /\ C # {}
    BY <1>2, Zenon
  <2> HIDE DEF C
  <2> QED
    BY <2>1, LeastOf, Zenon
<1>4. k \in n .. MaxNonce + 1 /\ k \notin Nonces(S)
  BY <1>1, <1>2, <1>3
<1>5. ASSUME NEW j \in n .. k - 1 PROVE j \in Nonces(S)
  <2>1. j \in Nat /\ j >= n /\ ~(k <= j)
    BY <1>1, <1>4
  <2> QED
    BY <1>3, <2>1, Zenon
<1>6. \E x \in n .. MaxNonce + 1 :
        x \notin Nonces(S) /\ n .. x - 1 \subseteq Nonces(S)
  BY <1>4, <1>5, Zenon
<1> QED
  BY <1>6, Zenon DEF FillGap

(* A set without the message of a nonce, if there is one. *)
LEMMA WithoutNonce ==
  ASSUME NEW a, NEW ms, OwnSet(a, ms), NEW n
  PROVE  LET old == {x \in ms.msgs : x.nonce = n}
         IN  /\ Priced(old) /\ Priced(ms.msgs \ old) /\ Funds(old) \in Nat
             /\ Funds(ms.msgs \ old) = ms.requiredFunds - Funds(old)
             /\ old = {} \/ \E x \in ms.msgs : x.nonce = n /\ old = {x}
             /\ old = {} <=> n \notin Nonces(ms.msgs)
<1> DEFINE old == {x \in ms.msgs : x.nonce = n}
           S   == ms.msgs
<1>1. /\ S \in SUBSET Message /\ Priced(S) /\ ms.requiredFunds = Funds(S)
      /\ \A m, x \in S : m.nonce = x.nonce => m = x
  BY PricedMessages, Zenon DEF OwnSet, MsgSet
<1>2. old = {} <=> n \notin Nonces(S)
  BY InNonces
<1>3. CASE old = {}
  <2>1. Funds(S) \in Nat /\ Priced({}) /\ S \ old = S
    BY <1>1, <1>3, FundsType, FS_EmptySet, Zenon DEF Priced
  <2>2. Priced(old) /\ Priced(S \ old) /\ Funds(old) = 0 /\ Funds(S \ old) = Funds(S)
    BY <1>1, <1>3, <2>1, FundsOfNone, Zenon
  <2>3. Funds(old) \in Nat /\ Funds(S \ old) = ms.requiredFunds - Funds(old)
    <3> HIDE DEF old, S
    <3> QED
      BY <1>1, <2>1, <2>2
  <2> QED
    BY <1>2, <1>3, <2>2, <2>3, Zenon
<1>4. CASE old # {}
  <2>1. PICK x \in S : x.nonce = n
    BY <1>4, Zenon
  <2>2. old = {x}
    BY <1>1, <2>1, Zenon
  <2>3. RequiredFunds(x) \in Nat /\ Priced({x}) /\ Priced(S \ {x})
    BY <1>1, FS_Singleton, FS_RemoveElement, Zenon DEF Priced
  <2>4. Funds({x}) = RequiredFunds(x) /\ Funds(S \ {x}) = Funds(S) - RequiredFunds(x)
    BY <1>1, <2>3, FundsOfOne, FundsWithout, Zenon
  <2> QED
    BY <1>1, <1>2, <2>1, <2>2, <2>3, <2>4, Zenon
<1> QED
  BY <1>3, <1>4, Zenon

(* msgSet.add: what it answers, and what it leaves behind. *)
LEMMA AddIs ==
  ASSUME NEW a, NEW ms, OwnSet(a, ms), ms.nextNonce >= 0,
         NEW m \in Message, m.from = a, NEW strict, NEW untrusted
  PROVE  LET r == add(ms, m, strict, untrusted)
         IN  /\ OwnSet(a, r.ms) /\ r.ms.nextNonce >= 0
             /\ r.ok => /\ r.ms.msgs = {x \in ms.msgs : x.nonce # m.nonce} \cup {m}
                        /\ r.incr <=> m.nonce \notin Nonces(ms.msgs)
             /\ ~ r.ok => /\ r.ms = ms /\ ~ r.incr
                          /\ ~ strict => m.nonce \in Nonces(ms.msgs)
             /\ r.ok \in BOOLEAN /\ r.incr \in BOOLEAN
<1> DEFINE r    == add(ms, m, strict, untrusted)
           exms == {x \in ms.msgs : x.nonce = m.nonce}
           fresh == [msgs |-> (ms.msgs \ exms) \cup {m},
                     nextNonce |-> IF m.nonce = ms.nextNonce
                                   THEN FillGap(ms.msgs, m.nonce + 1) ELSE ms.nextNonce,
                     requiredFunds |-> ms.requiredFunds - Funds(exms) + RequiredFunds(m)]
<1>1. /\ Priced(exms) /\ Priced(ms.msgs \ exms) /\ Funds(exms) \in Nat
      /\ Funds(ms.msgs \ exms) = ms.requiredFunds - Funds(exms)
      /\ exms = {} <=> m.nonce \notin Nonces(ms.msgs)
  BY WithoutNonce, Zenon
<1>2. /\ m.nonce \in 0 .. MaxNonce /\ MaxNonce \in Nat /\ RequiredFunds(m) \in Nat
      /\ ms.msgs \in SUBSET Message /\ ms.nextNonce \in -1 .. MaxNonce + 1
      /\ ms.requiredFunds \in Int
  BY MessageFacts, Zenon DEF OwnSet, MsgSet
<1>3. ms.msgs \ exms = {x \in ms.msgs : x.nonce # m.nonce}
  BY Zenon
<1>4. OwnSet(a, fresh) /\ fresh.nextNonce >= 0
  <2>1. fresh.nextNonce \in 0 .. MaxNonce + 1
    <3>0. m.nonce + 1 \in 0 .. MaxNonce + 1
      BY <1>2
    <3>1. FillGap(ms.msgs, m.nonce + 1) \in m.nonce + 1 .. MaxNonce + 1
      BY <1>2, <3>0, FillGapIs, Zenon
    <3> QED
      BY <1>2, <3>1
  <2>2. fresh \in MsgSet
    BY <1>1, <1>2, <2>1 DEF MsgSet
  <2>3. /\ Priced(fresh.msgs)
        /\ Funds(fresh.msgs) = Funds(ms.msgs \ exms) + RequiredFunds(m)
    BY <1>1, <1>2, FundsWith, Zenon
  <2>4. fresh.requiredFunds = Funds(fresh.msgs)
    BY <1>1, <2>3, Zenon
  <2>5. /\ \A x \in fresh.msgs : x.from = a
        /\ \A x, y \in fresh.msgs : x.nonce = y.nonce => x = y
    BY Zenon DEF OwnSet
  <2>6. fresh.nextNonce >= 0
    BY <1>2, <2>1
  <2> HIDE DEF fresh
  <2> QED
    BY <2>2, <2>3, <2>4, <2>5, <2>6, Zenon DEF OwnSet, Priced
<1>5. \/ /\ r.ms = ms /\ r.ok = FALSE /\ r.incr = FALSE
         /\ strict \/ exms # {}
      \/ r.ms = fresh /\ r.ok = TRUE /\ r.incr = (exms = {})
  BY Zenon DEF add, Outcome
<1> HIDE DEF r
<1>6. CASE r.ms = ms /\ r.ok = FALSE /\ r.incr = FALSE /\ (strict \/ exms # {})
  <2>1. ~ r.ok /\ ~ r.incr /\ r.ok \in BOOLEAN /\ r.incr \in BOOLEAN
    BY <1>6, Zenon
  <2>2. ~ strict => m.nonce \in Nonces(ms.msgs)
    BY <1>1, <1>6, Zenon
  <2> QED
    BY <1>6, <2>1, <2>2, Zenon DEF r
<1>7. CASE r.ms = fresh /\ r.ok = TRUE /\ r.incr = (exms = {})
  <2>1. r.ok /\ r.ok \in BOOLEAN /\ r.incr \in BOOLEAN
          /\ (r.incr <=> m.nonce \notin Nonces(ms.msgs))
    BY <1>1, <1>7, Zenon
  <2>2. r.ms.msgs = {x \in ms.msgs : x.nonce # m.nonce} \cup {m}
    BY <1>3, <1>7
  <2>3. OwnSet(a, r.ms) /\ r.ms.nextNonce >= 0
    BY <1>4, <1>7, Zenon
  <2> QED
    BY <2>1, <2>2, <2>3, Zenon DEF r
<1> QED
  BY <1>5, <1>6, <1>7, Zenon

(* msgSet.rm. *)
LEMMA RmIs ==
  ASSUME NEW a, NEW ms, OwnSet(a, ms), ms.nextNonce >= 0,
         NEW n \in 0 .. MaxNonce, NEW applied
  PROVE  /\ OwnSet(a, rm(ms, n, applied)) /\ rm(ms, n, applied).nextNonce >= 0
         /\ rm(ms, n, applied).msgs = {m \in ms.msgs : m.nonce # n}
<1> DEFINE r   == rm(ms, n, applied)
           old == {x \in ms.msgs : x.nonce = n}
<1>1. /\ Priced(ms.msgs \ old) /\ Funds(old) \in Nat
      /\ Funds(ms.msgs \ old) = ms.requiredFunds - Funds(old)
  BY WithoutNonce, Zenon
<1>2. /\ MaxNonce \in Nat /\ ms.msgs \in SUBSET Message
      /\ ms.nextNonce \in -1 .. MaxNonce + 1 /\ ms.requiredFunds \in Int
  BY PoolAssumption, Zenon DEF OwnSet, MsgSet
<1>3. ms.msgs \ old = {m \in ms.msgs : m.nonce # n}
  BY Zenon
<1>4. /\ r.msgs = {m \in ms.msgs : m.nonce # n}
      /\ r.requiredFunds = ms.requiredFunds - Funds(old)
      /\ r = [msgs |-> r.msgs, nextNonce |-> r.nextNonce,
              requiredFunds |-> r.requiredFunds]
      /\ r.nextNonce \in {FillGap(ms.msgs, n + 1), n + 1, n, ms.nextNonce}
  BY Zenon DEF rm, getRequiredFunds
<1>5. r.nextNonce \in 0 .. MaxNonce + 1
  <2>1. FillGap(ms.msgs, n + 1) \in n + 1 .. MaxNonce + 1
    <3>1. n + 1 \in 0 .. MaxNonce + 1
      BY <1>2
    <3> QED
      BY <1>2, <3>1, FillGapIs, Zenon
  <2>2. ms.nextNonce \in 0 .. MaxNonce + 1
    BY <1>2
  <2> HIDE DEF r
  <2> QED
    BY <1>2, <1>4, <2>1, <2>2
<1> HIDE DEF r
<1>6. r \in MsgSet /\ r.nextNonce >= 0
  <2>1. r.requiredFunds \in Int /\ r.msgs \in SUBSET Message
          /\ r.nextNonce \in -1 .. MaxNonce + 1 /\ r.nextNonce >= 0
    BY <1>1, <1>2, <1>4, <1>5
  <2> QED
    BY <1>4, <2>1, Zenon DEF MsgSet
<1>7. OwnSet(a, r)
  <2>1. r.requiredFunds = Funds(r.msgs) /\ IsFiniteSet(r.msgs)
    BY <1>1, <1>3, <1>4, Zenon DEF Priced
  <2>2. /\ \A x \in r.msgs : x.from = a
        /\ \A x, y \in r.msgs : x.nonce = y.nonce => x = y
    BY <1>4, Zenon DEF OwnSet
  <2> QED
    BY <1>6, <2>1, <2>2, Zenon DEF OwnSet
<1> QED
  BY <1>4, <1>6, <1>7, Zenon DEF r

-------------------------------------------------------------------------------
(* Pools. *)

PoolType == [pending : [Addr -> MsgSet], currentSize : Int,
             localAddrs : SUBSET Addr, blsSigCache : SUBSET Message,
             pruneTrigger : BOOLEAN]

GoodPool(p) ==
  /\ p \in PoolType
  /\ \A a \in Addr : OwnSet(a, p.pending[a])
  /\ IsFiniteSet(Pending(p))

(* By how much currentSize is more than the number of messages pending. *)
Excess(p) == p.currentSize - Cardinality(Pending(p))

LEMMA EmptySets ==
  ASSUME NEW a, NEW n \in 0 .. MaxNonce + 1
  PROVE  OwnSet(a, NoSet) /\ OwnSet(a, newMsgSet(n)) /\ NoSet.msgs = {}
<1>1. MaxNonce \in Nat /\ IsFiniteSet({})
  BY PoolAssumption, FS_EmptySet, Zenon
<1> QED
  BY <1>1, FundsOfNone DEF OwnSet, MsgSet, NoSet, newMsgSet

(* The state nonce of a sender is one of those there are. *)
LEMMA StateNonceType ==
  ASSUME NEW ts, Mined(ts) \subseteq Message, NEW a
  PROVE  getStateNonce(a, ts) \in 0 .. MaxNonce + 1
<1> DEFINE N == Nonces({m \in Mined(ts) : m.from = a})
<1>1. N \subseteq 0 .. MaxNonce /\ MaxNonce \in Nat
  BY MessageFacts, InNonces, PoolAssumption, Zenon DEF Nonces
<1>2. IsFiniteSet(0 .. MaxNonce) /\ Cardinality(0 .. MaxNonce) = MaxNonce + 1
  BY <1>1, FS_Interval
<1> HIDE DEF N
<1>3. Cardinality(N) \in Nat /\ Cardinality(N) <= Cardinality(0 .. MaxNonce)
  BY <1>1, <1>2, FS_Subset, FS_CardinalityType, Zenon
<1>4. Cardinality(N) \in 0 .. MaxNonce + 1
  BY <1>1, <1>2, <1>3
<1> QED
  BY <1>4, Zenon DEF getStateNonce, N

(* Giving one sender another set of messages. *)
LEMMA UpdateOne ==
  ASSUME NEW p, GoodPool(p), NEW q \in PoolType, NEW a \in Addr, NEW ms,
         OwnSet(a, ms), q.pending = [p.pending EXCEPT ![a] = ms]
  PROVE  /\ GoodPool(q)
         /\ Cardinality(Pending(p)) \in Nat /\ Cardinality(Pending(q)) \in Nat
         /\ Cardinality(Pending(q)) =
              Cardinality(Pending(p)) - Cardinality(p.pending[a].msgs)
                + Cardinality(ms.msgs)
<1> DEFINE old  == p.pending[a].msgs
           rest == Pending(p) \ old
<1>1. /\ p.pending \in [Addr -> MsgSet] /\ (\A b \in Addr : OwnSet(b, p.pending[b]))
      /\ IsFiniteSet(Pending(p))
  BY Zenon DEF GoodPool, PoolType
<1>2. /\ q.pending[a] = ms /\ \A b \in Addr : b # a => q.pending[b] = p.pending[b]
  BY <1>1, Zenon
<1>3. ASSUME NEW x PROVE x \in Pending(p) <=> \E b \in Addr : x \in p.pending[b].msgs
  BY Zenon DEF Pending
<1>4. ASSUME NEW x PROVE x \in Pending(q) <=> \E b \in Addr : x \in q.pending[b].msgs
  BY Zenon DEF Pending
<1>5. \A b \in Addr : \A x \in p.pending[b].msgs : x.from = b
  BY <1>1, Zenon DEF OwnSet
<1>6. \A x \in ms.msgs : x.from = a
  BY Zenon DEF OwnSet
<1>7. \A x \in rest : x.from # a
  BY <1>3, <1>5, Zenon
<1>8. Pending(q) = rest \cup ms.msgs
  <2>1. ASSUME NEW x \in Pending(q) PROVE x \in rest \cup ms.msgs
    <3>1. PICK b \in Addr : x \in q.pending[b].msgs
      BY <1>4, Zenon
    <3>2. CASE b = a
      BY <1>2, <3>1, <3>2, Zenon
    <3>3. CASE b # a
      <4>1. x \in p.pending[b].msgs /\ x \in Pending(p) /\ x.from = b
        BY <1>2, <1>3, <1>5, <3>1, <3>3, Zenon
      <4>2. x \notin old
        BY <1>5, <3>3, <4>1, Zenon
      <4> QED
        BY <4>1, <4>2, Zenon
    <3> QED
      BY <3>2, <3>3, Zenon
  <2>2. ASSUME NEW x \in rest PROVE x \in Pending(q)
    <3>1. PICK b \in Addr : x \in p.pending[b].msgs
      BY <1>3, Zenon
    <3>2. b # a
      BY <3>1, Zenon
    <3> QED
      BY <1>2, <1>4, <3>1, <3>2, Zenon
  <2>3. ASSUME NEW x \in ms.msgs PROVE x \in Pending(q)
    BY <1>2, <1>4, Zenon
  <2> QED
    BY <2>1, <2>2, <2>3, Zenon
<1>9. rest \cap ms.msgs = {} /\ Pending(p) \cap old = old
  <2>1. rest \cap ms.msgs = {}
    BY <1>6, <1>7, Zenon
  <2>2. old \subseteq Pending(p)
    BY <1>3, Zenon
  <2> QED
    BY <2>1, <2>2, Zenon
<1>10. IsFiniteSet(ms.msgs) /\ IsFiniteSet(old)
  BY <1>1, Zenon DEF OwnSet
<1> HIDE DEF old
<1>11. /\ IsFiniteSet(rest) /\ Cardinality(rest) = Cardinality(Pending(p)) - Cardinality(old)
       /\ Cardinality(Pending(p)) \in Nat /\ Cardinality(old) \in Nat
  <2>1. IsFiniteSet(Pending(p))
    BY <1>1, Zenon
  <2>2. rest = Pending(p) \ old
    BY Zenon
  <2>3. Cardinality(Pending(p)) \in Nat /\ Cardinality(old) \in Nat
    BY <1>10, <2>1, FS_CardinalityType, Zenon
  <2> HIDE DEF rest
  <2>4. /\ IsFiniteSet(rest)
        /\ Cardinality(rest) = Cardinality(Pending(p)) - Cardinality(Pending(p) \cap old)
    BY <2>1, <1>10, <2>2, FS_Difference, Zenon
  <2> QED
    BY <1>9, <2>3, <2>4, Zenon
<1> HIDE DEF rest
<1>12. /\ IsFiniteSet(Pending(q))
       /\ Cardinality(Pending(q)) = Cardinality(rest) + Cardinality(ms.msgs)
       /\ Cardinality(ms.msgs) \in Nat /\ Cardinality(Pending(q)) \in Nat
  <2>1. /\ IsFiniteSet(rest \cup ms.msgs)
        /\ Cardinality(rest \cup ms.msgs) =
             Cardinality(rest) + Cardinality(ms.msgs) - Cardinality(rest \cap ms.msgs)
    BY <1>10, <1>11, FS_Union, Zenon
  <2>2. Cardinality(rest \cap ms.msgs) = 0
    BY <1>9, FS_EmptySet, Zenon
  <2>3. Cardinality(ms.msgs) \in Nat /\ Cardinality(rest) \in Nat
    BY <1>10, <1>11, FS_CardinalityType, Zenon
  <2> QED
    BY <1>8, <2>1, <2>2, <2>3
<1>13. \A b \in Addr : OwnSet(b, q.pending[b])
  BY <1>1, <1>2, Zenon
<1>14. GoodPool(q)
  BY <1>12, <1>13, Zenon DEF GoodPool
<1>15. Cardinality(Pending(q)) = Cardinality(Pending(p)) - Cardinality(old)
                                  + Cardinality(ms.msgs)
  BY <1>11, <1>12, Zenon
<1> QED
  BY <1>11, <1>12, <1>14, <1>15, Zenon DEF old

(* How many messages a set has after the one of a nonce is taken out, and  *)
(* another put in its place.                                               *)
Others(S, n) == {x \in S : x.nonce # n}
Has(S, n)    == IF n \in Nonces(S) THEN 1 ELSE 0

LEMMA CountAfter ==
  ASSUME NEW a, NEW ms, OwnSet(a, ms), NEW m, NEW n, m.nonce = n
  PROVE  /\ Cardinality(ms.msgs) \in Nat
         /\ Cardinality(Others(ms.msgs, n)) = Cardinality(ms.msgs) - Has(ms.msgs, n)
         /\ Cardinality(Others(ms.msgs, n) \cup {m}) =
              Cardinality(ms.msgs) + 1 - Has(ms.msgs, n)
<1> DEFINE S    == ms.msgs
           old  == {x \in S : x.nonce = n}
           left == Others(S, n)
<1>1. /\ IsFiniteSet(S) /\ Cardinality(S) \in Nat
  BY FS_CardinalityType, Zenon DEF OwnSet
<1>2. (n \notin Nonces(S) /\ left = S) \/ \E x \in S : n \in Nonces(S) /\ left = S \ {x}
  <2>1. old = {} \/ \E x \in S : x.nonce = n /\ old = {x}
    BY Zenon DEF OwnSet
  <2>2. old = {} <=> n \notin Nonces(S)
    BY InNonces
  <2>3. left = S \ old
    BY Zenon DEF Others
  <2> HIDE DEF old, left, S
  <2> QED
    BY <2>1, <2>2, <2>3, Zenon
<1>3. m \notin left
  BY Zenon DEF Others
<1> HIDE DEF S, left
<1>4. IsFiniteSet(left) /\ Cardinality(left) = Cardinality(S) - Has(S, n)
  <2>1. CASE n \notin Nonces(S) /\ left = S
    BY <1>1, <2>1 DEF Has
  <2>2. ASSUME NEW x \in S, n \in Nonces(S), left = S \ {x}
        PROVE  IsFiniteSet(left) /\ Cardinality(left) = Cardinality(S) - Has(S, n)
    BY <1>1, <2>2, FS_RemoveElement, Zenon DEF Has
  <2> QED
    BY <1>2, <2>1, <2>2, Zenon
<1>5. Cardinality(left \cup {m}) = Cardinality(S) + 1 - Has(S, n)
  <2>1. Cardinality(left \cup {m}) = Cardinality(left) + 1
    BY <1>3, <1>4, FS_AddElement, Zenon
  <2>2. Has(S, n) \in {0, 1}
    BY Zenon DEF Has
  <2> QED
    BY <1>1, <1>4, <2>1, <2>2
<1> QED
  BY <1>1, <1>4, <1>5, Zenon DEF left, S

(* addLocked, and what a caller sees of it. *)
LEMMA AddLockedIs ==
  ASSUME NEW p, GoodPool(p), NEW m \in Message, NEW ts, Mined(ts) \subseteq Message,
         NEW strict, NEW untrusted,
         NEW r, r = addLocked(p, m, ts, strict, untrusted), NEW q, q = r.pool
  PROVE  /\ GoodPool(q) /\ Excess(q) = Excess(p)
         /\ q.localAddrs = p.localAddrs
         /\ \A b \in Addr : b # m.from => q.pending[b] = p.pending[b]
         /\ r.ok => q.pending[m.from].msgs =
                      Others(p.pending[m.from].msgs, m.nonce) \cup {m}
         /\ ~ r.ok => /\ q.pending[m.from].msgs = p.pending[m.from].msgs
                      /\ ~ strict => m.nonce \in Nonces(p.pending[m.from].msgs)
<1> DEFINE a == m.from
           old == p.pending[a].msgs
           new == q.pending[a].msgs
           n0 == getStateNonce(a, ts)
           mset == IF p.pending[a] = NoSet THEN newMsgSet(n0) ELSE p.pending[a]
           res  == add(mset, m, strict, untrusted)
           by   == IF res.incr THEN 1 ELSE 0
<1>1. /\ a \in Addr /\ p \in PoolType /\ p.pending \in [Addr -> MsgSet]
      /\ OwnSet(a, p.pending[a]) /\ p.currentSize \in Int
      /\ n0 \in 0 .. MaxNonce + 1 /\ MaxNonce \in Nat
  BY MessageFacts, StateNonceType, Zenon DEF GoodPool, PoolType
<1>2. OwnSet(a, mset) /\ mset.nextNonce >= 0 /\ mset.msgs = old
  <2> HIDE DEF a, n0
  <2>1. CASE p.pending[a] = NoSet
    <3>1. mset = newMsgSet(n0) /\ old = {}
      BY <1>1, <2>1, EmptySets, Zenon
    <3> QED
      BY <1>1, <3>1, EmptySets DEF newMsgSet
  <2>2. CASE p.pending[a] # NoSet
    BY <1>1, <2>2, Zenon DEF OwnSet
  <2> QED
    BY <2>1, <2>2, Zenon
<1> HIDE DEF mset
<1>3. /\ OwnSet(a, res.ms) /\ res.ok \in BOOLEAN /\ res.incr \in BOOLEAN
      /\ res.ok => /\ res.ms.msgs = {x \in mset.msgs : x.nonce # m.nonce} \cup {m}
                   /\ res.incr <=> m.nonce \notin Nonces(mset.msgs)
      /\ ~ res.ok => /\ res.ms = mset /\ ~ res.incr
                     /\ ~ strict => m.nonce \in Nonces(mset.msgs)
  BY <1>2, AddIs, Zenon
<1> HIDE DEF res
<1>4. /\ r.ok = res.ok
      /\ q = [p EXCEPT
                !.blsSigCache = IF m.from \in Bls THEN @ \cup {m} ELSE @,
                !.pending[m.from] = res.ms,
                !.currentSize = p.currentSize + by,
                !.pruneTrigger = @ \/ (res.incr /\ p.currentSize + by > SizeLimitHigh)]
  BY Zenon DEF addLocked, mset, res
<1>5. /\ q.pending = [p.pending EXCEPT ![a] = res.ms]
      /\ q.currentSize = p.currentSize + by
      /\ q.localAddrs = p.localAddrs
      /\ q.blsSigCache \in SUBSET Message /\ q.pruneTrigger \in BOOLEAN
      /\ q = [pending |-> q.pending, currentSize |-> q.currentSize,
              localAddrs |-> q.localAddrs, blsSigCache |-> q.blsSigCache,
              pruneTrigger |-> q.pruneTrigger]
  <2> HIDE DEF res, by, a
  <2>1. /\ p = [pending |-> p.pending, currentSize |-> p.currentSize,
                localAddrs |-> p.localAddrs, blsSigCache |-> p.blsSigCache,
                pruneTrigger |-> p.pruneTrigger]
        /\ p.blsSigCache \in SUBSET Message /\ p.pruneTrigger \in BOOLEAN
    BY <1>1, Zenon DEF PoolType
  <2>2. q.blsSigCache = IF m.from \in Bls THEN p.blsSigCache \cup {m} ELSE p.blsSigCache
    BY <1>4, <2>1, Zenon
  <2>3. q.pruneTrigger = (p.pruneTrigger \/ (res.incr /\ p.currentSize + by > SizeLimitHigh))
    BY <1>4, <2>1, Zenon
  <2>4. /\ q.pending = [p.pending EXCEPT ![a] = res.ms]
        /\ q.currentSize = p.currentSize + by
        /\ q.localAddrs = p.localAddrs
        /\ q = [pending |-> q.pending, currentSize |-> q.currentSize,
                localAddrs |-> q.localAddrs, blsSigCache |-> q.blsSigCache,
                pruneTrigger |-> q.pruneTrigger]
    BY <1>4, <2>1, Zenon DEF a
  <2>5. q.blsSigCache \in SUBSET Message
    BY <2>1, <2>2, Zenon
  <2>6. q.pruneTrigger \in BOOLEAN
    BY <2>1, <2>3, Zenon
  <2> QED
    BY <2>4, <2>5, <2>6, Zenon
<1>6. /\ q.pending[a] = res.ms /\ by \in {0, 1}
      /\ \A b \in Addr : b # a => q.pending[b] = p.pending[b]
  BY <1>1, <1>5, Zenon
<1>7. q \in PoolType
  <2>1. q.pending \in [Addr -> MsgSet]
    BY <1>1, <1>3, <1>5, Zenon DEF OwnSet
  <2>2. q.currentSize \in Int /\ q.localAddrs \in SUBSET Addr
    BY <1>1, <1>5, <1>6 DEF PoolType
  <2> QED
    BY <1>5, <2>1, <2>2, Zenon DEF PoolType
<1>8. /\ GoodPool(q)
      /\ Cardinality(Pending(p)) \in Nat /\ Cardinality(Pending(q)) \in Nat
      /\ Cardinality(Pending(q)) =
           Cardinality(Pending(p)) - Cardinality(old) + Cardinality(res.ms.msgs)
  BY <1>1, <1>3, <1>5, <1>7, UpdateOne
<1>9. Cardinality(old) \in Nat /\ Cardinality(res.ms.msgs) = Cardinality(old) + by
  <2> DEFINE has  == Has(mset.msgs, m.nonce)
             left == Others(mset.msgs, m.nonce)
  <2>1. /\ Cardinality(mset.msgs) \in Nat /\ has \in {0, 1}
        /\ Cardinality(left \cup {m}) = Cardinality(mset.msgs) + 1 - has
    BY <1>2, CountAfter, Zenon DEF Has
  <2>2. CASE res.ok
    <3>1. res.ms.msgs = left \cup {m} /\ by = 1 - has
      BY <1>3, <2>2 DEF Others, Has
    <3> HIDE DEF left, by, has
    <3> QED
      BY <1>2, <2>1, <3>1, Zenon
  <2>3. CASE ~ res.ok
    <3>1. res.ms.msgs = mset.msgs /\ by = 0
      BY <1>3, <2>3, Zenon
    <3> HIDE DEF by
    <3> QED
      BY <1>2, <2>1, <3>1
  <2> QED
    BY <2>2, <2>3, Zenon
<1>10. Excess(q) = Excess(p)
  <2> HIDE DEF by, old
  <2> QED
    BY <1>1, <1>5, <1>6, <1>8, <1>9 DEF Excess
<1>11. /\ r.ok => new = Others(old, m.nonce) \cup {m}
       /\ ~ r.ok => new = old /\ (~ strict => m.nonce \in Nonces(old))
  <2> HIDE DEF old
  <2> QED
    BY <1>2, <1>3, <1>4, <1>6, Zenon DEF Others
<1> QED
  BY <1>5, <1>6, <1>8, <1>10, <1>11, Zenon

(* Of which callers mostly need: no nonce is lost, and one that is not     *)
(* strict finds the nonce of its message there.                            *)
LEMMA AddedNonces ==
  ASSUME NEW p, GoodPool(p), NEW m \in Message, NEW ts, Mined(ts) \subseteq Message,
         NEW strict, NEW untrusted,
         NEW r, r = addLocked(p, m, ts, strict, untrusted), NEW q, q = r.pool
  PROVE  /\ \A b \in Addr : Nonces(p.pending[b].msgs) \subseteq Nonces(q.pending[b].msgs)
         /\ ~ strict => m.nonce \in Nonces(q.pending[m.from].msgs)
<1> DEFINE old == p.pending[m.from].msgs
           new == q.pending[m.from].msgs
<1>1. /\ \A b \in Addr : b # m.from => q.pending[b] = p.pending[b]
      /\ r.ok => new = Others(old, m.nonce) \cup {m}
      /\ ~ r.ok => new = old /\ (~ strict => m.nonce \in Nonces(old))
  BY AddLockedIs
<1>2. Nonces(old) \subseteq Nonces(new) /\ (~ strict => m.nonce \in Nonces(new))
  <2>1. CASE r.ok
    <3>1. m \in new /\ \A x \in old : x \in new \/ x.nonce = m.nonce
      BY <1>1, <2>1, Zenon DEF Others
    <3> HIDE DEF new, old
    <3> QED
      BY <3>1, Zenon DEF Nonces
  <2>2. CASE ~ r.ok
    BY <1>1, <2>2, Zenon
  <2> QED
    BY <2>1, <2>2, Zenon
<1>3. ASSUME NEW b \in Addr PROVE Nonces(p.pending[b].msgs) \subseteq Nonces(q.pending[b].msgs)
  BY <1>1, <1>2, Zenon
<1> QED
  BY <1>2, <1>3, Zenon

(* Remove. *)
LEMMA RemoveIs ==
  ASSUME NEW p, GoodPool(p), NEW a \in Addr, NEW n \in 0 .. MaxNonce,
         NEW applied, NEW q, q = remove(p, a, n, applied)
  PROVE  /\ GoodPool(q) /\ Excess(q) = Excess(p)
         /\ q.localAddrs = p.localAddrs
         /\ \A b \in Addr : b # a => q.pending[b] = p.pending[b]
         /\ q.pending[a].msgs = Others(p.pending[a].msgs, n)
<1> DEFINE mset == p.pending[a]
           left == rm(mset, n, applied)
           next == IF left.msgs = {} THEN NoSet ELSE left
           gone == Has(mset.msgs, n)
<1>1. /\ p \in PoolType /\ p.pending \in [Addr -> MsgSet] /\ OwnSet(a, mset)
      /\ p.currentSize \in Int /\ MaxNonce \in Nat
  BY PoolAssumption, Zenon DEF GoodPool, PoolType
<1>2. CASE mset = NoSet
  <2>1. q = p
    BY <1>2, Zenon DEF remove
  <2>2. mset.msgs = Others(mset.msgs, n)
    BY <1>2 DEF NoSet, Others
  <2> QED
    BY <2>1, <2>2, Zenon
<1>3. CASE mset # NoSet
  <2>1. mset.nextNonce >= 0
    BY <1>1, <1>3, Zenon DEF OwnSet
  <2>2. OwnSet(a, left) /\ left.msgs = {x \in mset.msgs : x.nonce # n}
    BY <1>1, <2>1, RmIs
  <2>3. q = [p EXCEPT !.pending[a] = next, !.currentSize = @ - gone]
    BY <1>3, Zenon DEF remove, Has
  <2> HIDE DEF left, gone
  <2>4. OwnSet(a, next) /\ next.msgs = {x \in mset.msgs : x.nonce # n}
    <3>1. 0 \in 0 .. MaxNonce + 1
      BY <1>1
    <3>2. OwnSet(a, NoSet) /\ NoSet.msgs = {}
      BY <3>1, EmptySets, Zenon
    <3> QED
      BY <2>2, <3>2, Zenon
  <2> HIDE DEF next
  <2>5. gone \in {0, 1}
    BY Zenon DEF gone, Has
  <2>6. /\ q.pending = [p.pending EXCEPT ![a] = next]
        /\ q.currentSize = p.currentSize - gone
        /\ q.localAddrs = p.localAddrs /\ q \in PoolType
        /\ q.pending[a] = next
        /\ \A b \in Addr : b # a => q.pending[b] = p.pending[b]
    <3>1. next \in MsgSet
      BY <2>4, Zenon DEF OwnSet
    <3>2. [p.pending EXCEPT ![a] = next] \in [Addr -> MsgSet] /\ p.currentSize - gone \in Int
      BY <1>1, <2>5, <3>1
    <3> QED
      BY <1>1, <2>3, <3>2, Zenon DEF PoolType
  <2>7. /\ GoodPool(q)
        /\ Cardinality(Pending(p)) \in Nat /\ Cardinality(Pending(q)) \in Nat
        /\ Cardinality(Pending(q)) =
             Cardinality(Pending(p)) - Cardinality(mset.msgs) + Cardinality(next.msgs)
    <3>1. OwnSet(a, next) /\ q \in PoolType /\ q.pending = [p.pending EXCEPT ![a] = next]
      BY <2>4, <2>6, Zenon
    <3> QED
      BY <3>1, UpdateOne
  <2>8. Cardinality(mset.msgs) \in Nat /\ Cardinality(next.msgs) = Cardinality(mset.msgs) - gone
    <3>1. PICK m : m.nonce = n
      <4>1. [nonce |-> n].nonce = n
        BY Zenon
      <4> QED
        BY <4>1, Zenon
    <3>2. next.msgs = Others(mset.msgs, n)
      BY <2>4, Zenon DEF Others
    <3>3. OwnSet(a, mset)
      BY <1>1, Zenon
    <3> HIDE DEF mset, next, left
    <3>4. /\ Cardinality(mset.msgs) \in Nat
          /\ Cardinality(Others(mset.msgs, n)) = Cardinality(mset.msgs) - Has(mset.msgs, n)
      BY <3>1, <3>3, CountAfter, Zenon
    <3> QED
      BY <3>2, <3>4, Zenon DEF gone
  <2>9. Excess(q) = Excess(p)
    <3> HIDE DEF mset
    <3> QED
      BY <1>1, <2>5, <2>6, <2>7, <2>8 DEF Excess
  <2> QED
    BY <2>4, <2>6, <2>7, <2>9, Zenon DEF Others
<1> QED
  BY <1>2, <1>3, Zenon

-------------------------------------------------------------------------------
(* Loops: what pruning, loading and flattening compute turn by turn. *)

LEMMA UpTo ==
  ASSUME NEW N \in Nat, NEW T, 0 \in T,
         \A n \in 0 .. N - 1 : n \in T => n + 1 \in T
  PROVE  0 .. N \subseteq T
<1> DEFINE U == {n \in Nat : n <= N => n \in T}
<1>1. 0 \in U
  BY Zenon
<1>2. ASSUME NEW n \in Nat, n \in U PROVE n + 1 \in U
  <2> SUFFICES ASSUME n + 1 <= N PROVE n + 1 \in T
    OBVIOUS
  <2>1. n \in 0 .. N - 1 /\ n <= N
    OBVIOUS
  <2> QED
    BY <1>2, <2>1, Zenon
<1> HIDE DEF U
<1>3. Nat \subseteq U
  BY <1>1, <1>2, UpToAnyNumber, Zenon
<1> QED
  BY <1>3 DEF U

(* f runs through the turns st of a loop from b. *)
Runs(f, N, D, b, st) ==
  /\ f \in [0 .. N -> D]
  /\ f[0] = b
  /\ \A n \in 0 .. N - 1 : f[n + 1] = st[n][f[n]]

LEMMA LoopRuns ==
  ASSUME NEW N \in Nat, NEW D, NEW b \in D, NEW st, IsFold(st, 0 .. N, D)
  PROVE  \E f : Runs(f, N, D, b, st)
<1>0. st \in [0 .. N -> [D -> D]]
  BY Zenon DEF IsFold
<1> DEFINE First(k, f) == f[0] = b /\ \A n \in 0 .. k - 1 : f[n + 1] = st[n][f[n]]
           T == {k \in 0 .. N : \E f \in [0 .. N -> D] : First(k, f)}
<1>1. 0 \in T
  <2> DEFINE f == [n \in 0 .. N |-> b]
  <2>1. f \in [0 .. N -> D] /\ f[0] = b
    OBVIOUS
  <2>2. \A n \in 0 .. 0 - 1 : FALSE
    OBVIOUS
  <2> HIDE DEF f
  <2> QED
    BY <2>1, <2>2
<1>2. ASSUME NEW k \in 0 .. N - 1, k \in T PROVE k + 1 \in T
  <2>1. PICK f \in [0 .. N -> D] : First(k, f)
    BY <1>2, Zenon
  <2> DEFINE h == [n \in 0 .. N |-> IF n = k + 1 THEN st[k][f[k]] ELSE f[n]]
  <2>2. h \in [0 .. N -> D]
    BY <1>0
  <2>3. h[0] = b
    BY <2>1
  <2>4. ASSUME NEW n \in 0 .. (k + 1) - 1 PROVE h[n + 1] = st[n][h[n]]
    BY <2>1
  <2> HIDE DEF h
  <2>5. First(k + 1, h) /\ k + 1 \in 0 .. N
    BY <2>3, <2>4
  <2> QED
    BY <2>2, <2>5, Zenon
<1> HIDE DEF T
<1>3. 0 .. N \subseteq T
  BY <1>1, <1>2, UpTo, Zenon
<1>4. N \in T
  BY <1>3
<1>5. PICK f \in [0 .. N -> D] : First(N, f)
  BY <1>4, Zenon DEF T
<1> QED
  BY <1>5, Zenon DEF Runs

(* Joining sequences of elements of S leaves one of elements of S. *)
IsJoined(f, ss) ==
  f = [i \in 0 .. Len(ss) |-> IF i = 0 THEN <<>> ELSE f[i - 1] \o ss[i]]

LEMMA JoinedType ==
  ASSUME NEW S, NEW ss \in Seq(Seq(S))
  PROVE  Joined(ss) \in Seq(S)
<1> DEFINE g == CHOOSE f : IsJoined(f, ss)
           N == Len(ss)
           st == [n \in 0 .. N |-> [s \in Seq(S) |-> IF n < N THEN s \o ss[n + 1] ELSE s]]
<1>1. Joined(ss) = g[N]
  BY Zenon DEF Joined, IsJoined
<1>2. N \in Nat /\ <<>> \in Seq(S) /\ \A i \in 1 .. N : ss[i] \in Seq(S)
  OBVIOUS
<1>3. IsFold(st, 0 .. N, Seq(S))
  <2> SUFFICES ASSUME NEW n \in 0 .. N, NEW s \in Seq(S)
               PROVE  (IF n < N THEN s \o ss[n + 1] ELSE s) \in Seq(S)
    BY Zenon DEF IsFold
  <2>1. CASE n < N
    <3>1. ss[n + 1] \in Seq(S)
      BY <1>2, <2>1
    <3> QED
      BY <2>1, <3>1
  <2> QED
    BY <2>1, Zenon
<1> HIDE DEF N
<1>4. ASSUME NEW n \in 0 .. N - 1, NEW s \in Seq(S) PROVE st[n][s] = s \o ss[n + 1]
  <2>1. n \in 0 .. N /\ n < N
    BY <1>2
  <2> QED
    BY <2>1, Zenon
<1> HIDE DEF st
<1>5. PICK f : Runs(f, N, Seq(S), <<>>, st)
  BY <1>2, <1>3, LoopRuns, Zenon
<1>6. ASSUME NEW i \in 0 .. N
      PROVE  f[i] = IF i = 0 THEN <<>> ELSE f[i - 1] \o ss[i]
  <2>1. CASE i = 0
    BY <1>5, <2>1, Zenon DEF Runs
  <2>2. CASE i # 0
    <3>1. i - 1 \in 0 .. N - 1 /\ (i - 1) + 1 = i /\ i - 1 \in 0 .. N
      BY <1>2, <2>2
    <3>2. f[(i - 1) + 1] = st[i - 1][f[i - 1]] /\ f[i - 1] \in Seq(S)
      BY <1>5, <3>1, Zenon DEF Runs
    <3>3. f[i] = f[i - 1] \o ss[i]
      BY <1>4, <3>1, <3>2, Zenon
    <3> QED
      BY <2>2, <3>3, Zenon
  <2> QED
    BY <2>1, <2>2, Zenon
<1>7. IsJoined(f, ss)
  <2>1. f = [i \in 0 .. N |-> f[i]]
    BY <1>5, Zenon DEF Runs
  <2> QED
    BY <1>6, <2>1, Zenon DEF IsJoined, N
<1>8. IsJoined(g, ss)
  BY <1>7, Zenon
<1> HIDE DEF g
<1>9. \A i \in 0 .. N : g[i] = IF i = 0 THEN <<>> ELSE g[i - 1] \o ss[i]
  BY <1>8, Zenon DEF IsJoined, N
<1> DEFINE T == {n \in 0 .. N : g[n] \in Seq(S)}
<1>10. 0 \in T
  <2>1. 0 \in 0 .. N
    BY <1>2
  <2> QED
    BY <1>2, <1>9, <2>1, Zenon
<1>11. ASSUME NEW n \in 0 .. N - 1, n \in T PROVE n + 1 \in T
  <2>1. g[n] \in Seq(S)
    BY <1>11, Zenon
  <2>2. n + 1 \in 0 .. N /\ n + 1 # 0 /\ (n + 1) - 1 = n /\ ss[n + 1] \in Seq(S)
    BY <1>2
  <2>3. g[n + 1] = g[n] \o ss[n + 1]
    BY <1>9, <2>2, Zenon
  <2>4. g[n] \o ss[n + 1] \in Seq(S)
    BY <2>1, <2>2
  <2> QED
    BY <2>2, <2>3, <2>4, Zenon
<1> HIDE DEF T
<1>12. 0 .. N \subseteq T
  BY <1>2, <1>10, <1>11, UpTo, Zenon
<1>13. N \in T
  BY <1>2, <1>12
<1> QED
  BY <1>1, <1>13, Zenon DEF T

(* pruneMessages removes messages one by one. *)
IsPruned(f, b, S) ==
  f = [s \in SUBSET S |->
         IF s = {} THEN b
         ELSE remove(f[s \ {Pick(s)}], Pick(s).from, Pick(s).nonce, FALSE)]

PrunedOn(b, S) == CHOOSE f : IsPruned(f, b, S)

Prunes(b, S) == FoldSet(LAMBDA m, p : remove(p, m.from, m.nonce, FALSE), b, S)

LEMMA PruneIsFold == \A b, S : Prunes(b, S) = PrunedOn(b, S)[S]
  BY Zenon DEF Prunes, FoldSet, MapThenFoldSet, PrunedOn, IsPruned, Pick

(* What removing messages of some senders keeps of a pool. *)
PrunedFrom(p, S) ==
  {q \in PoolType :
     /\ GoodPool(q) /\ Excess(q) = Excess(p) /\ q.localAddrs = p.localAddrs
     /\ \A a \in Addr : /\ q.pending[a].msgs \subseteq p.pending[a].msgs
                        /\ (\A m \in S : m.from # a) => q.pending[a] = p.pending[a]}

LEMMA PruneStep ==
  ASSUME NEW p, NEW S \in SUBSET Message, NEW q \in PrunedFrom(p, S), NEW m \in S
  PROVE  remove(q, m.from, m.nonce, FALSE) \in PrunedFrom(p, S)
<1> DEFINE r == remove(q, m.from, m.nonce, FALSE)
           b == m.from
<1>1. /\ GoodPool(q) /\ Excess(q) = Excess(p) /\ q.localAddrs = p.localAddrs
      /\ \A a \in Addr : /\ q.pending[a].msgs \subseteq p.pending[a].msgs
                         /\ (\A x \in S : x.from # a) => q.pending[a] = p.pending[a]
  BY Zenon DEF PrunedFrom
<1>2. m \in Message /\ b \in Addr /\ m.nonce \in 0 .. MaxNonce
  BY MessageFacts, Zenon
<1>3. /\ GoodPool(r) /\ Excess(r) = Excess(q) /\ r.localAddrs = q.localAddrs
      /\ \A a \in Addr : a # b => r.pending[a] = q.pending[a]
      /\ r.pending[b].msgs = Others(q.pending[b].msgs, m.nonce)
  <2>1. GoodPool(q)
    BY <1>1, Zenon
  <2>2. ASSUME NEW no, NEW x, x = remove(q, b, m.nonce, no)
        PROVE  /\ GoodPool(x) /\ Excess(x) = Excess(q) /\ x.localAddrs = q.localAddrs
               /\ \A a \in Addr : a # b => x.pending[a] = q.pending[a]
               /\ x.pending[b].msgs = Others(q.pending[b].msgs, m.nonce)
    BY <1>2, <2>1, <2>2, RemoveIs
  <2> QED
    BY <2>2, Zenon
<1> HIDE DEF r
<1>4. ASSUME NEW a \in Addr
      PROVE  /\ r.pending[a].msgs \subseteq p.pending[a].msgs
             /\ (\A x \in S : x.from # a) => r.pending[a] = p.pending[a]
  <2>1. CASE a = b
    BY <1>1, <1>3, <2>1, Zenon DEF Others
  <2>2. CASE a # b
    BY <1>1, <1>3, <2>2, Zenon
  <2> QED
    BY <2>1, <2>2, Zenon
<1>5. r \in PoolType
  BY <1>3, Zenon DEF GoodPool
<1> QED
  BY <1>1, <1>3, <1>4, <1>5, Zenon DEF PrunedFrom, r

LEMMA PruneKeeps ==
  ASSUME NEW p, GoodPool(p), NEW S \in SUBSET Message, IsFiniteSet(S)
  PROVE  Prunes(p, S) \in PrunedFrom(p, S)
<1> DEFINE D  == PrunedFrom(p, S)
           st == [m \in S |-> [q \in D |-> remove(q, m.from, m.nonce, FALSE)]]
           g  == PrunedOn(p, S)
<1>1. p \in D
  BY Zenon DEF PrunedFrom, GoodPool
<1> HIDE DEF D
<1>2. \A m \in S : \A q \in D : remove(q, m.from, m.nonce, FALSE) \in D
  BY PruneStep, Zenon DEF D
<1>3. IsFold(st, S, D)
  BY <1>2, Zenon DEF IsFold
<1>4. \A m \in S : \A q \in D : st[m][q] = remove(q, m.from, m.nonce, FALSE)
  BY Zenon
<1> HIDE DEF st
<1>5. PICK f : Folds(f, S, D, p, st)
  BY <1>1, <1>3, SubsetRecursion, Zenon
<1>6. \A s \in SUBSET S : s # {} => Pick(s) \in s /\ s \ {Pick(s)} \in SUBSET S
  BY Zenon DEF Pick
<1>7. ASSUME NEW s \in SUBSET S
      PROVE  f[s] = IF s = {} THEN p
                    ELSE remove(f[s \ {Pick(s)}], Pick(s).from, Pick(s).nonce, FALSE)
  <2>1. CASE s = {}
    BY <1>5, <2>1, Zenon DEF Folds
  <2>2. CASE s # {}
    <3>1. f[s] = st[Pick(s)][f[s \ {Pick(s)}]]
      BY <1>5, <2>2, Zenon DEF Folds
    <3>2. Pick(s) \in S /\ f[s \ {Pick(s)}] \in D
      BY <1>5, <1>6, <2>2, Zenon DEF Folds
    <3> QED
      BY <1>4, <2>2, <3>1, <3>2, Zenon
  <2> QED
    BY <2>1, <2>2, Zenon
<1>8. IsPruned(f, p, S)
  <2>1. f = [s \in SUBSET S |-> f[s]]
    BY <1>5, Zenon DEF Folds
  <2> QED
    BY <1>7, <2>1, Zenon DEF IsPruned
<1>9. IsPruned(g, p, S)
  BY <1>8, Zenon DEF PrunedOn
<1> HIDE DEF g
<1> DEFINE T == {s \in SUBSET S : g[s] \in D}
<1>10. ASSUME NEW s \in SUBSET S, \A x \in s : s \ {x} \in T PROVE s \in T
  <2>1. g[s] = IF s = {} THEN p
               ELSE remove(g[s \ {Pick(s)}], Pick(s).from, Pick(s).nonce, FALSE)
    BY <1>9, Zenon DEF IsPruned
  <2>2. CASE s = {}
    BY <1>1, <2>1, <2>2, Zenon
  <2>3. CASE s # {}
    <3>1. Pick(s) \in s /\ Pick(s) \in S /\ g[s \ {Pick(s)}] \in D
      BY <1>6, <1>10, <2>3, Zenon
    <3> QED
      BY <1>2, <2>1, <2>3, <3>1, Zenon
  <2> QED
    BY <2>2, <2>3, Zenon
<1>11. SUBSET S \subseteq T
  <2> HIDE DEF T
  <2> QED
    BY <1>10, SubsetInduction, Zenon
<1>12. g[S] \in D
  BY <1>11, Zenon
<1> QED
  BY <1>12, PruneIsFold, Zenon DEF g, D

(* loadLocal adds messages one by one. *)
LEMMA EmptyPoolIs == GoodPool(EmptyPool) /\ Excess(EmptyPool) = 0
<1>1. MaxNonce \in Nat /\ 0 \in 0 .. MaxNonce + 1
  BY PoolAssumption
<1>2. \A a \in Addr : OwnSet(a, NoSet)
  BY <1>1, EmptySets, Zenon
<1>3. NoSet \in MsgSet /\ NoSet.msgs = {}
  BY <1>1 DEF NoSet, MsgSet
<1>4. EmptyPool.pending = [a \in Addr |-> NoSet] /\ EmptyPool.currentSize = 0
  BY Zenon DEF EmptyPool
<1>5. EmptyPool \in PoolType
  BY <1>3 DEF EmptyPool, PoolType
<1>6. Pending(EmptyPool) = {}
  BY <1>3, <1>4, Zenon DEF Pending
<1>7. IsFiniteSet(Pending(EmptyPool)) /\ Cardinality(Pending(EmptyPool)) = 0
  BY <1>6, FS_EmptySet, Zenon
<1>8. \A a \in Addr : OwnSet(a, EmptyPool.pending[a])
  BY <1>2, <1>4, Zenon
<1>9. Excess(EmptyPool) = 0
  BY <1>4, <1>7 DEF Excess
<1> QED
  BY <1>5, <1>7, <1>8, <1>9, Zenon DEF GoodPool

(* Marking a sender as local changes nothing else. *)
LEMMA Marked ==
  ASSUME NEW p, GoodPool(p), NEW a \in Addr
  PROVE  LET q == [p EXCEPT !.localAddrs = @ \cup {a}]
         IN  /\ GoodPool(q) /\ Excess(q) = Excess(p)
             /\ q.pending = p.pending /\ q.localAddrs = p.localAddrs \cup {a}
<1> DEFINE q == [p EXCEPT !.localAddrs = @ \cup {a}]
<1>1. p \in PoolType
  BY Zenon DEF GoodPool
<1>2. /\ q \in PoolType /\ q.pending = p.pending /\ q.currentSize = p.currentSize
      /\ q.localAddrs = p.localAddrs \cup {a}
  BY <1>1, Zenon DEF PoolType
<1> HIDE DEF q
<1>3. Pending(q) = Pending(p)
  BY <1>2, Zenon DEF Pending
<1> QED
  BY <1>2, <1>3, Zenon DEF GoodPool, Excess, q

Books == {p \in PoolType : GoodPool(p) /\ Excess(p) = 0}

LEMMA LoadStep ==
  ASSUME NEW p \in Books, NEW m \in Message, Mined(curTs) \subseteq Message
  PROVE  addLoaded(p, m) \in Books
<1> DEFINE q == addLocked(p, m, curTs, FALSE, FALSE).pool
           marked(x) == [x EXCEPT !.localAddrs = @ \cup {m.from}]
<1>1. GoodPool(p) /\ Excess(p) = 0 /\ m.from \in Addr
  BY MessageFacts, Zenon DEF Books
<1>2. GoodPool(q) /\ Excess(q) = 0
  <2>1. GoodPool(p) /\ m \in Message
    BY <1>1, Zenon
  <2>2. ASSUME NEW no, NEW x, x = addLocked(p, m, curTs, no, no).pool
        PROVE  GoodPool(x) /\ Excess(x) = Excess(p)
    BY <2>1, <2>2, AddLockedIs
  <2> QED
    BY <1>1, <2>2, Zenon
<1> HIDE DEF q
<1>3. /\ GoodPool(marked(p)) /\ Excess(marked(p)) = 0
      /\ GoodPool(marked(q)) /\ Excess(marked(q)) = 0
  BY <1>1, <1>2, Marked, Zenon
<1>4. addLoaded(p, m) \in {p, marked(p), marked(q)}
  BY Zenon DEF addLoaded, q
<1> HIDE DEF marked
<1>5. \A x : GoodPool(x) /\ Excess(x) = 0 => x \in Books
  BY Zenon DEF Books, GoodPool
<1> QED
  BY <1>1, <1>2, <1>3, <1>4, <1>5, Zenon

IsLoaded(f, order) ==
  f = [i \in 0 .. Len(order) |->
         IF i = 0 THEN EmptyPool ELSE addLoaded(f[i - 1], order[i])]

LEMMA LoadKeeps ==
  ASSUME NEW order \in Seq(Message), Mined(curTs) \subseteq Message,
         NEW g, g = CHOOSE f : IsLoaded(f, order)
  PROVE  g[Len(order)] \in Books
<1> DEFINE N == Len(order)
           st == [n \in 0 .. N |-> [p \in Books |->
                    IF n < N THEN addLoaded(p, order[n + 1]) ELSE p]]
<1>1. N \in Nat /\ \A n \in 0 .. N - 1 : order[n + 1] \in Message
  OBVIOUS
<1>2. EmptyPool \in Books
  BY EmptyPoolIs, Zenon DEF Books, GoodPool
<1>3. ASSUME NEW n \in 0 .. N - 1, NEW p \in Books
      PROVE  addLoaded(p, order[n + 1]) \in Books /\ n < N /\ n \in 0 .. N
  BY <1>1, LoadStep
<1>4. IsFold(st, 0 .. N, Books)
  <2> SUFFICES ASSUME NEW n \in 0 .. N, NEW p \in Books
               PROVE  (IF n < N THEN addLoaded(p, order[n + 1]) ELSE p) \in Books
    BY Zenon DEF IsFold
  <2>1. n < N => n \in 0 .. N - 1
    BY <1>1
  <2> QED
    BY <1>3, <2>1, Zenon
<1>5. \A n \in 0 .. N - 1 : \A p \in Books : st[n][p] = addLoaded(p, order[n + 1])
  BY <1>3, Zenon
<1> HIDE DEF st
<1>6. PICK f : Runs(f, N, Books, EmptyPool, st)
  BY <1>1, <1>2, <1>4, LoopRuns, Zenon
<1>7. ASSUME NEW i \in 0 .. N
      PROVE  f[i] = IF i = 0 THEN EmptyPool ELSE addLoaded(f[i - 1], order[i])
  <2>1. CASE i = 0
    BY <1>6, <2>1, Zenon DEF Runs
  <2>2. CASE i # 0
    <3>1. i - 1 \in 0 .. N - 1 /\ (i - 1) + 1 = i /\ i - 1 \in 0 .. N
      BY <1>1, <2>2
    <3>2. f[(i - 1) + 1] = st[i - 1][f[i - 1]] /\ f[i - 1] \in Books
      BY <1>6, <3>1, Zenon DEF Runs
    <3>3. st[i - 1][f[i - 1]] = addLoaded(f[i - 1], order[(i - 1) + 1])
      BY <1>5, <3>1, <3>2, Zenon
    <3> QED
      BY <2>2, <3>1, <3>2, <3>3, Zenon
  <2> QED
    BY <2>1, <2>2, Zenon
<1>8. IsLoaded(f, order)
  <2>1. f = [i \in 0 .. N |-> f[i]]
    BY <1>6, Zenon DEF Runs
  <2> QED
    BY <1>7, <2>1, Zenon DEF IsLoaded
<1>9. IsLoaded(g, order)
  BY <1>8, Zenon
<1> DEFINE T == {n \in 0 .. N : g[n] \in Books}
<1>10. \A i \in 0 .. N :
         g[i] = IF i = 0 THEN EmptyPool ELSE addLoaded(g[i - 1], order[i])
  BY <1>9, Zenon DEF IsLoaded
<1>11. 0 \in T
  <2>1. 0 \in 0 .. N
    BY <1>1
  <2> QED
    BY <1>2, <1>10, <2>1, Zenon
<1>12. ASSUME NEW n \in 0 .. N - 1, n \in T PROVE n + 1 \in T
  <2>1. n + 1 \in 0 .. N /\ n + 1 # 0 /\ (n + 1) - 1 = n
    BY <1>1
  <2>2. g[n + 1] = addLoaded(g[n], order[n + 1])
    BY <1>10, <2>1, Zenon
  <2> QED
    BY <1>3, <1>12, <2>1, <2>2, Zenon
<1>13. 0 .. N \subseteq T
  <2> HIDE DEF T, N
  <2> QED
    BY <1>1, <1>11, <1>12, UpTo, Zenon
<1>14. N \in 0 .. N
  BY <1>1
<1> QED
  BY <1>13, <1>14, Zenon

-------------------------------------------------------------------------------
(* Chains. *)

TipSet == Seq(Seq(Message))
Chain  == Seq(TipSet)

MinedNonces(a, ts) == Nonces({m \in Mined(ts) : m.from = a})

(* The chain has every nonce of a sender below the state's. *)
Gapless(ts) == \A a \in Addr : MinedNonces(a, ts) = 0 .. getStateNonce(a, ts) - 1

(* x is a message of the tipset t. *)
On(x, t) == \E j \in DOMAIN t : \E k \in DOMAIN t[j] : x = t[j][k]

LEMMA InMined ==
  ASSUME NEW ts, NEW x
  PROVE  x \in Mined(ts) <=> \E i \in DOMAIN ts : On(x, ts[i])
  BY DEF Mined, Range, On

LEMMA MinedType ==
  ASSUME NEW ts \in Chain
  PROVE  Mined(ts) \subseteq Message
<1> SUFFICES ASSUME NEW x \in Mined(ts) PROVE x \in Message
  BY Zenon
<1>1. PICK i \in DOMAIN ts : On(x, ts[i])
  BY InMined, Zenon
<1>2. PICK j \in DOMAIN ts[i] : \E k \in DOMAIN ts[i][j] : x = ts[i][j][k]
  BY <1>1, Zenon DEF On
<1>3. PICK k \in DOMAIN ts[i][j] : x = ts[i][j][k]
  BY <1>2, Zenon
<1>4. ts[i] \in TipSet
  BY DEF Chain
<1>5. ts[i][j] \in Seq(Message)
  BY <1>4 DEF TipSet
<1> QED
  BY <1>3, <1>5

(* A chain is of the messages on it. *)
LEMMA MinedIn ==
  ASSUME NEW ts \in Chain
  PROVE  ts \in Seq(Seq(Seq(Mined(ts))))
<1>1. ASSUME NEW i \in DOMAIN ts PROVE ts[i] \in Seq(Seq(Mined(ts)))
  <2>1. ts[i] \in TipSet
    BY DEF Chain
  <2>2. ASSUME NEW j \in DOMAIN ts[i] PROVE ts[i][j] \in Seq(Mined(ts))
    <3>1. ts[i][j] \in Seq(Message)
      BY <2>1 DEF TipSet
    <3>2. \A k \in DOMAIN ts[i][j] : ts[i][j][k] \in Mined(ts)
      BY InMined, Zenon DEF On
    <3> QED
      BY <3>1, <3>2
  <2> QED
    BY <2>1, <2>2 DEF TipSet
<1> QED
  BY <1>1 DEF Chain

LEMMA MinedConcat ==
  ASSUME NEW s \in Chain, NEW t \in Chain
  PROVE  s \o t \in Chain /\ Mined(s \o t) = Mined(s) \cup Mined(t)
<1> DEFINE c == s \o t
<1>1. /\ c \in Chain /\ Len(s) \in Nat /\ Len(t) \in Nat /\ Len(c) = Len(s) + Len(t)
      /\ DOMAIN s = 1 .. Len(s) /\ DOMAIN t = 1 .. Len(t) /\ DOMAIN c = 1 .. Len(s) + Len(t)
      /\ \A i \in DOMAIN s : c[i] = s[i]
      /\ \A i \in 1 .. Len(t) : c[Len(s) + i] = t[i]
  BY DEF Chain
<1>2. \A i \in DOMAIN c : i \in DOMAIN s \/ (i - Len(s) \in DOMAIN t /\ c[i] = t[i - Len(s)])
  BY <1>1
<1>3. \A i \in DOMAIN s : i \in DOMAIN c
  BY <1>1
<1>4. \A i \in DOMAIN t : Len(s) + i \in DOMAIN c
  BY <1>1
<1> HIDE DEF c
<1>5. ASSUME NEW x \in Mined(c) PROVE x \in Mined(s) \cup Mined(t)
  <2>1. PICK i \in DOMAIN c : On(x, c[i])
    BY InMined, Zenon
  <2>2. CASE i \in DOMAIN s
    <3>1. c[i] = s[i]
      BY <1>1, <2>2, Zenon
    <3> QED
      BY <2>1, <2>2, <3>1, InMined, Zenon
  <2>3. CASE i - Len(s) \in DOMAIN t /\ c[i] = t[i - Len(s)]
    BY <2>1, <2>3, InMined, Zenon
  <2> QED
    BY <1>2, <2>2, <2>3, Zenon
<1>6. ASSUME NEW x \in Mined(s) PROVE x \in Mined(c)
  <2>1. PICK i \in DOMAIN s : On(x, s[i])
    BY InMined, Zenon
  <2>2. c[i] = s[i] /\ i \in DOMAIN c
    BY <1>1, <1>3, Zenon
  <2> QED
    BY <2>1, <2>2, InMined, Zenon
<1>7. ASSUME NEW x \in Mined(t) PROVE x \in Mined(c)
  <2>1. PICK i \in DOMAIN t : On(x, t[i])
    BY InMined, Zenon
  <2>2. c[Len(s) + i] = t[i] /\ Len(s) + i \in DOMAIN c
    BY <1>1, <1>4, Zenon
  <2> QED
    BY <2>1, <2>2, InMined, Zenon
<1> QED
  BY <1>1, <1>5, <1>6, <1>7, Zenon DEF c

LEMMA MinedNone == <<>> \in Chain /\ Mined(<<>>) = {}
<1>1. <<>> \in Chain /\ DOMAIN <<>> = {}
  BY DEF Chain
<1> QED
  BY <1>1, InMined, Zenon

(* A chain cut in two. *)
LEMMA MinedCut ==
  ASSUME NEW ts \in Chain, NEW k \in 0 .. Len(ts)
  PROVE  LET kept == SubSeq(ts, 1, Len(ts) - k)
             gone == SubSeq(ts, Len(ts) - k + 1, Len(ts))
         IN  /\ kept \in Chain /\ gone \in Chain /\ Len(kept) = Len(ts) - k
             /\ Mined(ts) = Mined(kept) \cup Mined(gone)
<1> DEFINE kept == SubSeq(ts, 1, Len(ts) - k)
           gone == SubSeq(ts, Len(ts) - k + 1, Len(ts))
<1>1. Len(ts) \in Nat /\ Len(ts) - k \in 0 .. Len(ts)
  BY DEF Chain
<1>2. /\ kept \in Chain /\ Len(kept) = Len(ts) - k
      /\ \A i \in 1 .. Len(ts) - k : kept[i] = ts[i]
  BY <1>1 DEF Chain
<1>3. /\ gone \in Chain /\ Len(gone) = k
      /\ \A i \in 1 .. k : gone[i] = ts[Len(ts) - k + i]
  BY <1>1 DEF Chain
<1> HIDE DEF kept, gone
<1>4. DOMAIN ts = 1 .. Len(ts) /\ DOMAIN kept = 1 .. Len(ts) - k /\ DOMAIN gone = 1 .. k
  BY <1>1, <1>2, <1>3 DEF Chain
<1>5. \A i \in DOMAIN ts : \/ i \in DOMAIN kept /\ ts[i] = kept[i]
                           \/ \E j \in DOMAIN gone : ts[i] = gone[j]
  <2> SUFFICES ASSUME NEW i \in 1 .. Len(ts), ~(i <= Len(ts) - k)
               PROVE  \E j \in DOMAIN gone : ts[i] = gone[j]
    BY <1>1, <1>2, <1>4
  <2>1. i - (Len(ts) - k) \in 1 .. k /\ Len(ts) - k + (i - (Len(ts) - k)) = i
    BY <1>1
  <2> QED
    BY <1>3, <1>4, <2>1, Zenon
<1>6. \A i \in DOMAIN kept : i \in DOMAIN ts /\ ts[i] = kept[i]
  BY <1>1, <1>2, <1>4
<1>7. \A j \in DOMAIN gone : \E i \in DOMAIN ts : ts[i] = gone[j]
  <2> SUFFICES ASSUME NEW j \in 1 .. k PROVE \E i \in DOMAIN ts : ts[i] = gone[j]
    BY <1>4, Zenon
  <2>1. Len(ts) - k + j \in 1 .. Len(ts)
    BY <1>1
  <2> QED
    BY <1>3, <1>4, <2>1, Zenon
<1>8. ASSUME NEW x PROVE x \in Mined(ts) <=> x \in Mined(kept) \/ x \in Mined(gone)
  <2>1. ASSUME NEW i \in DOMAIN ts, On(x, ts[i])
        PROVE  (\E j \in DOMAIN kept : On(x, kept[j])) \/ \E j \in DOMAIN gone : On(x, gone[j])
    BY <1>5, <2>1, Zenon
  <2>2. ASSUME NEW j \in DOMAIN kept, On(x, kept[j])
        PROVE  \E i \in DOMAIN ts : On(x, ts[i])
    BY <1>6, <2>2, Zenon
  <2>3. ASSUME NEW j \in DOMAIN gone, On(x, gone[j])
        PROVE  \E i \in DOMAIN ts : On(x, ts[i])
    BY <1>7, <2>3, Zenon
  <2> QED
    BY <2>1, <2>2, <2>3, InMined, Zenon
<1>9. Mined(ts) = Mined(kept) \cup Mined(gone)
  BY <1>8, Zenon
<1> QED
  BY <1>2, <1>3, <1>9, Zenon DEF kept, gone

(* What a tipset mines: one message, or a second one of its sender, of the *)
(* same nonce or the next.                                                 *)
LEMMA TipSetMines ==
  ASSUME NEW ts \in Chain, NEW t \in TipSetsOn(ts)
  PROVE  /\ <<t>> \in Chain
         /\ \E m, n \in Message :
              /\ Mined(<<t>>) = {m, n} /\ n.from = m.from
              /\ m.nonce = getStateNonce(m.from, ts)
              /\ n.nonce = m.nonce \/ n.nonce = m.nonce + 1
<1> DEFINE now == {m \in Message : m.nonce = getStateNonce(m.from, ts)}
<1>1. PICK m \in now, n \in Message :
        /\ (t = <<<<m>>>> /\ n = m) \/ t = <<<<m, n>>>> \/ t = <<<<m>>, <<n>>>>
        /\ n.from = m.from /\ (n.nonce = m.nonce \/ n.nonce = m.nonce + 1)
  <2>1. \/ \E m \in now : t = <<<<m>>>>
        \/ \E m \in now : \E n \in Message :
             t = <<<<m, n>>>> /\ n.from = m.from /\ n.nonce = m.nonce + 1
        \/ \E m \in now : \E n \in now : t = <<<<m>>, <<n>>>> /\ n.from = m.from
    <3> DEFINE after(m) == {n \in Message : n.from = m.from /\ n.nonce = m.nonce + 1}
               rival(m) == {n \in now : n.from = m.from}
               A    == {<<<<m>>>> : m \in now}
               B(m) == {<<<<m, n>>>> : n \in after(m)}
               C(m) == {<<<<m>>, <<n>>>> : n \in rival(m)}
    <3>1. TipSetsOn(ts) = A \cup (UNION {B(m) : m \in now})
                            \cup (UNION {C(m) : m \in now})
      BY Zenon DEF TipSetsOn
    <3>2. \A m : \A n \in after(m) : n \in Message /\ n.from = m.from /\ n.nonce = m.nonce + 1
      BY Zenon
    <3>3. \A m : \A n \in rival(m) : n \in now /\ n.from = m.from
      BY Zenon
    <3> HIDE DEF now, after, rival
    <3>4. \A x \in A : \E m \in now : x = <<<<m>>>>
      BY Zenon
    <3> HIDE DEF A, B, C
    <3>5. \/ t \in A
          \/ \E m \in now : t \in B(m)
          \/ \E m \in now : t \in C(m)
      BY <3>1, Zenon
    <3>6. ASSUME NEW m \in now, t \in B(m)
          PROVE  \E n \in Message : t = <<<<m, n>>>> /\ n.from = m.from /\ n.nonce = m.nonce + 1
      <4>1. PICK n \in after(m) : t = <<<<m, n>>>>
        BY <3>6, Zenon DEF B
      <4> QED
        BY <3>2, <4>1, Zenon
    <3>7. ASSUME NEW m \in now, t \in C(m)
          PROVE  \E n \in now : t = <<<<m>>, <<n>>>> /\ n.from = m.from
      <4>1. PICK n \in rival(m) : t = <<<<m>>, <<n>>>>
        BY <3>7, Zenon DEF C
      <4> QED
        BY <3>3, <4>1, Zenon
    <3> QED
      BY <3>4, <3>5, <3>6, <3>7, Zenon
  <2>2. \A m \in now : m \in Message /\ m.nonce = getStateNonce(m.from, ts)
    BY Zenon
  <2>3. \A m, n \in now : n.from = m.from => n.nonce = m.nonce
    BY <2>2, Zenon
  <2> HIDE DEF now
  <2> QED
    BY <2>1, <2>2, <2>3, Zenon
<1>2. \A x : x \in Mined(<<t>>) <=> On(x, t)
  <2>1. DOMAIN <<t>> = {1} /\ <<t>>[1] = t
    OBVIOUS
  <2> QED
    BY <2>1, InMined, Zenon
<1>3. t \in TipSet /\ \A x : x \in Mined(<<t>>) <=> x \in {m, n}
  <2>1. CASE t = <<<<m>>>> /\ n = m
    BY <1>2, <2>1 DEF TipSet, On
  <2>2. CASE t = <<<<m, n>>>>
    BY <1>2, <2>2 DEF TipSet, On
  <2>3. CASE t = <<<<m>>, <<n>>>>
    BY <1>2, <2>3 DEF TipSet, On
  <2> QED
    BY <1>1, <2>1, <2>2, <2>3, Zenon
<1>4. <<t>> \in Chain
  BY <1>3 DEF Chain
<1>5. Mined(<<t>>) = {m, n}
  BY <1>3, Zenon
<1> QED
  BY <1>1, <1>4, <1>5, Zenon

(* A tipset leaves a chain without gaps. *)
LEMMA GaplessTipSet ==
  ASSUME NEW ts \in Chain, Gapless(ts), NEW t \in TipSetsOn(ts)
  PROVE  Gapless(ts \o <<t>>)
<1> DEFINE c == ts \o <<t>>
<1>1. /\ <<t>> \in Chain
      /\ \E m, n \in Message :
           /\ Mined(<<t>>) = {m, n} /\ n.from = m.from
           /\ m.nonce = getStateNonce(m.from, ts)
           /\ n.nonce = m.nonce \/ n.nonce = m.nonce + 1
  BY TipSetMines, Zenon
<1>2. PICK m, n \in Message :
        /\ Mined(<<t>>) = {m, n} /\ n.from = m.from
        /\ m.nonce = getStateNonce(m.from, ts)
        /\ n.nonce = m.nonce \/ n.nonce = m.nonce + 1
  BY <1>1, Zenon
<1>3. Mined(c) = Mined(ts) \cup {m, n}
  BY <1>1, <1>2, MinedConcat, Zenon
<1> HIDE DEF c
<1>4. ASSUME NEW a \in Addr PROVE MinedNonces(a, c) = 0 .. getStateNonce(a, c) - 1
  <2>1. MinedNonces(a, ts) = 0 .. getStateNonce(a, ts) - 1
    BY Zenon DEF Gapless
  <2>2. CASE a # m.from
    <3>1. {x \in Mined(c) : x.from = a} = {x \in Mined(ts) : x.from = a}
      BY <1>2, <1>3, <2>2, Zenon
    <3> QED
      BY <2>1, <3>1, Zenon DEF MinedNonces, getStateNonce
  <2>3. CASE a = m.from
    <3>1. m.nonce \in Nat
      BY MessageFacts, Zenon
    <3>2. {x \in Mined(c) : x.from = a} = {x \in Mined(ts) : x.from = a} \cup {m, n}
      BY <1>2, <1>3, <2>3, Zenon
    <3>3. MinedNonces(a, c) = MinedNonces(a, ts) \cup {m.nonce, n.nonce}
      BY <3>2, Zenon DEF MinedNonces, Nonces
    <3>4. MinedNonces(a, c) = 0 .. n.nonce /\ n.nonce \in Nat
      BY <1>2, <2>1, <2>3, <3>1, <3>3
    <3>5. Cardinality(0 .. n.nonce) = n.nonce + 1
      BY <3>4, FS_Interval
    <3>6. getStateNonce(a, c) = n.nonce + 1
      BY <3>4, <3>5, Zenon DEF getStateNonce, MinedNonces
    <3> QED
      BY <3>4, <3>6
  <2> QED
    BY <2>2, <2>3, Zenon
<1> QED
  BY <1>4, Zenon DEF Gapless, c

LEMMA GaplessNone == Gapless(<<>>)
<1>1. ASSUME NEW a \in Addr PROVE MinedNonces(a, <<>>) = 0 .. getStateNonce(a, <<>>) - 1
  <2>1. MinedNonces(a, <<>>) = {}
    BY MinedNone, Zenon DEF MinedNonces, Nonces
  <2>2. getStateNonce(a, <<>>) = 0
    BY <2>1, FS_EmptySet, Zenon DEF getStateNonce, MinedNonces
  <2> QED
    BY <2>1, <2>2
<1> QED
  BY <1>1, Zenon DEF Gapless

-------------------------------------------------------------------------------
(* The books agree. *)

PoolTypeOK ==
  /\ curTs \in Chain
  /\ GoodPool(pool)
  /\ localMsgs \in SUBSET Message /\ IsFiniteSet(localMsgs)
  /\ rmsgs \in SUBSET Message
  /\ todo \in Seq(Message)
  /\ dropped \in Int

BooksInv == PoolTypeOK /\ Excess(pool) = dropped

LEMMA BooksInvIs == BooksInv => BooksAgree
<1> SUFFICES ASSUME BooksInv PROVE BooksAgree
  BY Zenon
<1>1. GoodPool(pool) /\ Excess(pool) = dropped
  BY Zenon DEF BooksInv, PoolTypeOK
<1>2. \A a \in Addr : pool.pending[a].requiredFunds = Funds(pool.pending[a].msgs)
  BY <1>1, Zenon DEF GoodPool, OwnSet
<1>3. pool.currentSize \in Int /\ Cardinality(Pending(pool)) \in Nat
  BY <1>1, FS_CardinalityType, Zenon DEF GoodPool, PoolType
<1>4. pool.currentSize = Cardinality(Pending(pool)) + dropped
  BY <1>1, <1>3 DEF Excess
<1> QED
  BY <1>2, <1>4, Zenon DEF BooksAgree

(* Head changes, their chains and messages. *)
LEMMA HeadChangeTypes ==
  ASSUME PoolTypeOK, NEW k \in 0 .. Len(curTs), NEW apply \in Chain,
         HeadChange(k, apply)
  PROVE  /\ curTs' \in Chain /\ rmsgs' \in SUBSET Message
         /\ todo' \in Seq(Mined(apply)) /\ todo' \in Seq(Message)
<1> DEFINE kept == SubSeq(curTs, 1, Len(curTs) - k)
           gone == SubSeq(curTs, Len(curTs) - k + 1, Len(curTs))
           back == UNION {Reverted(gone[i]) : i \in DOMAIN gone}
<1>1. /\ curTs' = kept \o apply /\ rmsgs' = back
      /\ todo' = Joined(Joined(apply))
  BY Zenon DEF HeadChange
<1>2. curTs \in Chain
  BY Zenon DEF PoolTypeOK
<1>3. kept \in Chain /\ gone \in Chain
  BY <1>2, MinedCut, Zenon
<1> HIDE DEF kept, gone
<1>4. curTs' \in Chain
  BY <1>1, <1>3, MinedConcat, Zenon
<1>5. back \in SUBSET Message
  <2> SUFFICES ASSUME NEW i \in DOMAIN gone, NEW x \in Reverted(gone[i])
               PROVE  x \in Message
    BY Zenon
  <2>1. gone[i] \in Seq(Seq(Message))
    BY <1>3 DEF Chain, TipSet
  <2> DEFINE msgs == MessagesOf(gone[i])
  <2>2. msgs \in Seq(Message)
    BY <2>1, JoinedType, Zenon DEF MessagesOf
  <2>3. PICK j \in DOMAIN msgs : x = msgs[j]
    BY Zenon DEF Reverted
  <2> HIDE DEF msgs
  <2> QED
    BY <2>2, <2>3
<1>6. todo' \in Seq(Mined(apply)) /\ Mined(apply) \subseteq Message
  <2>1. apply \in Seq(Seq(Seq(Mined(apply))))
    BY MinedIn, Zenon
  <2>2. Joined(apply) \in Seq(Seq(Mined(apply)))
    BY <2>1, JoinedType, Zenon
  <2>3. Joined(Joined(apply)) \in Seq(Mined(apply))
    BY <2>2, JoinedType, Zenon
  <2>4. Mined(apply) \subseteq Message
    BY MinedType, Zenon
  <2> QED
    BY <1>1, <2>3, <2>4, Zenon
<1>7. todo' \in Seq(Message)
  BY <1>6
<1> QED
  BY <1>1, <1>4, <1>5, <1>6, <1>7, Zenon

(* What NextHead does: the chain loses some tipsets and may get another. *)
LEMMA NextHeadIs ==
  ASSUME PoolTypeOK, NextHead
  PROVE  \E k \in 0 .. Len(curTs), apply \in Chain :
           /\ HeadChange(k, apply)
           /\ \/ apply = <<>>
              \/ \E t \in TipSetsOn(SubSeq(curTs, 1, Len(curTs) - k)) : apply = <<t>>
<1>1. curTs \in Chain
  BY Zenon DEF PoolTypeOK
<1> DEFINE kept(k) == SubSeq(curTs, 1, Len(curTs) - k)
<1>2. PICK k \in 0 .. Len(curTs) :
        \E apply \in {<<>>} \cup {<<t>> : t \in TipSetsOn(kept(k))} : HeadChange(k, apply)
  BY Zenon DEF NextHead
<1>3. PICK apply \in {<<>>} \cup {<<t>> : t \in TipSetsOn(kept(k))} : HeadChange(k, apply)
  BY <1>2, Zenon
<1>4. kept(k) \in Chain
  BY <1>1, MinedCut, Zenon
<1> HIDE DEF kept
<1>5. apply = <<>> \/ \E t \in TipSetsOn(kept(k)) : apply = <<t>>
  BY Zenon
<1>6. apply \in Chain
  BY <1>4, <1>5, TipSetMines, MinedNone, Zenon
<1> QED
  BY <1>3, <1>5, <1>6, Zenon DEF kept

(* Clear forgets the messages of some senders. *)
Cleared(p, S) ==
  [p EXCEPT !.pending = [a \in Addr |-> IF a \in S THEN NoSet ELSE @[a]]]

HeldOf(p, S) == UNION {p.pending[a].msgs : a \in S}

LEMMA ClearIs ==
  ASSUME NEW p, GoodPool(p), NEW cleared \in SUBSET Addr, 
         NEW q, q = Cleared(p, cleared), NEW msgs, msgs = HeldOf(p, cleared)
  PROVE  /\ GoodPool(q) /\ Excess(q) = Excess(p) + Cardinality(msgs)
         /\ Cardinality(msgs) \in Nat /\ q.localAddrs = p.localAddrs
         /\ \A a \in Addr : q.pending[a] = IF a \in cleared THEN NoSet ELSE p.pending[a]
<1>1. /\ p \in PoolType /\ p.pending \in [Addr -> MsgSet] /\ p.currentSize \in Int
      /\ MaxNonce \in Nat /\ 0 \in 0 .. MaxNonce + 1 /\ IsFiniteSet(Pending(p))
      /\ \A a \in Addr : OwnSet(a, p.pending[a])
  BY PoolAssumption DEF GoodPool, PoolType
<1>2. /\ NoSet \in MsgSet /\ NoSet.msgs = {}
      /\ \A a \in Addr : OwnSet(a, NoSet)
  BY <1>1, EmptySets, Zenon DEF OwnSet
<1>3. /\ q.pending = [a \in Addr |-> IF a \in cleared THEN NoSet ELSE p.pending[a]]
      /\ q.currentSize = p.currentSize /\ q.localAddrs = p.localAddrs
      /\ q.blsSigCache = p.blsSigCache /\ q.pruneTrigger = p.pruneTrigger
      /\ q = [pending |-> q.pending, currentSize |-> q.currentSize,
              localAddrs |-> q.localAddrs, blsSigCache |-> q.blsSigCache,
              pruneTrigger |-> q.pruneTrigger]
  BY <1>1, Zenon DEF PoolType, Cleared
<1>4. \A a \in Addr : q.pending[a] = IF a \in cleared THEN NoSet ELSE p.pending[a]
  BY <1>3, Zenon
<1>5. q \in PoolType
  <2>1. q.pending \in [Addr -> MsgSet]
    BY <1>1, <1>2, <1>3
  <2> QED
    BY <1>1, <1>3, <2>1, Zenon DEF PoolType
<1>6. \A a \in Addr : OwnSet(a, q.pending[a])
  BY <1>1, <1>2, <1>4, Zenon
<1>7. /\ \A x : x \in Pending(p) <=> \E a \in Addr : x \in p.pending[a].msgs
      /\ \A x : x \in Pending(q) <=> \E a \in Addr : x \in q.pending[a].msgs
      /\ \A x : x \in msgs <=> \E a \in cleared : x \in p.pending[a].msgs
  BY Zenon DEF Pending, HeldOf
<1>8. \A a \in Addr : \A x \in p.pending[a].msgs : x.from = a
  BY <1>1, Zenon DEF OwnSet
<1>9. Pending(p) = Pending(q) \cup msgs
  <2>1. ASSUME NEW x \in Pending(p) PROVE x \in Pending(q) \cup msgs
    <3>1. PICK a \in Addr : x \in p.pending[a].msgs
      BY <1>7, Zenon
    <3>2. CASE a \in cleared
      BY <1>7, <3>1, <3>2, Zenon
    <3>3. CASE a \notin cleared
      BY <1>4, <1>7, <3>1, <3>3, Zenon
    <3> QED
      BY <3>2, <3>3, Zenon
  <2>2. ASSUME NEW x \in Pending(q) PROVE x \in Pending(p)
    <3>1. PICK a \in Addr : x \in q.pending[a].msgs
      BY <1>7, Zenon
    <3>2. a \notin cleared
      BY <1>2, <1>4, <3>1, Zenon
    <3> QED
      BY <1>4, <1>7, <3>1, <3>2, Zenon
  <2>3. ASSUME NEW x \in msgs PROVE x \in Pending(p)
    BY <1>7, Zenon
  <2> QED
    BY <2>1, <2>2, <2>3, Zenon
<1>10. Pending(q) \cap msgs = {}
  <2> SUFFICES ASSUME NEW x \in Pending(q), x \in msgs PROVE FALSE
    BY Zenon
  <2>0. PICK b \in cleared : x \in p.pending[b].msgs
    BY <1>7, Zenon
  <2>1. x.from \in cleared
    BY <1>8, <2>0, Zenon
  <2>2. PICK a \in Addr : x \in q.pending[a].msgs
    BY <1>7, Zenon
  <2> QED
    BY <1>2, <1>4, <1>8, <2>1, <2>2, Zenon
<1>11. IsFiniteSet(Pending(q)) /\ IsFiniteSet(msgs)
  BY <1>1, <1>9, FS_Subset, Zenon
<1>12. /\ Cardinality(Pending(p)) = Cardinality(Pending(q)) + Cardinality(msgs)
       /\ Cardinality(Pending(q)) \in Nat /\ Cardinality(msgs) \in Nat
  <2>1. Cardinality(Pending(q) \cup msgs) =
          Cardinality(Pending(q)) + Cardinality(msgs) - Cardinality(Pending(q) \cap msgs)
    BY <1>11, FS_Union, Zenon
  <2>2. Cardinality(Pending(q) \cap msgs) = 0
    BY <1>10, FS_EmptySet, Zenon
  <2>3. Cardinality(Pending(q)) \in Nat /\ Cardinality(msgs) \in Nat
    BY <1>11, FS_CardinalityType, Zenon
  <2> QED
    BY <1>9, <2>1, <2>2, <2>3
<1>13. Excess(q) = Excess(p) + Cardinality(msgs)
  BY <1>1, <1>3, <1>12 DEF Excess
<1>14. GoodPool(q)
  BY <1>5, <1>6, <1>11, Zenon DEF GoodPool
<1> QED
  BY <1>3, <1>4, <1>12, <1>13, <1>14, Zenon

(* What a prune leaves: the senders it must not touch are as they were. *)
LEMMA PruneIs ==
  ASSUME GoodPool(pool), pruneMessages
  PROVE  /\ GoodPool(pool') /\ Excess(pool') = Excess(pool)
         /\ pool'.localAddrs = pool.localAddrs
         /\ \A a \in pool.localAddrs : pool'.pending[a] = pool.pending[a]
<1> DEFINE held == UNION {pool.pending[a].msgs : a \in Addr \ protected}
<1>1. PICK kept : pool' = Prunes(pool, held \ kept)
  BY Zenon DEF pruneMessages, Prunes
<1> DEFINE S == held \ kept
<1>2. \A a \in Addr : OwnSet(a, pool.pending[a])
  BY Zenon DEF GoodPool
<1>3. \A x : x \in held <=> \E a \in Addr \ protected : x \in pool.pending[a].msgs
  BY Zenon
<1>4. held \subseteq Pending(pool)
  BY Zenon DEF Pending
<1> HIDE DEF held
<1>5. IsFiniteSet(S)
  BY <1>4, FS_Subset, Zenon DEF GoodPool
<1>6. S \in SUBSET Message
  <2>1. \A a \in Addr : pool.pending[a].msgs \in SUBSET Message
    BY <1>2, Zenon DEF OwnSet, MsgSet
  <2> QED
    BY <1>3, <2>1, Zenon
<1>7. \A a \in pool.localAddrs : \A m \in S : m.from # a
  <2>1. \A a \in Addr : \A x \in pool.pending[a].msgs : x.from = a
    BY <1>2, Zenon DEF OwnSet
  <2>2. ASSUME NEW m \in S PROVE m.from \notin pool.localAddrs
    <3>1. PICK a \in Addr \ protected : m \in pool.pending[a].msgs
      BY <1>3, Zenon
    <3>2. m.from = a
      BY <2>1, <3>1, Zenon
    <3> QED
      BY <3>1, <3>2, Zenon DEF protected
  <2> QED
    BY <2>2, Zenon
<1>8. pool.localAddrs \subseteq Addr
  BY Zenon DEF GoodPool, PoolType
<1> HIDE DEF S
<1>9. pool' \in PrunedFrom(pool, S)
  BY <1>1, <1>5, <1>6, PruneKeeps, Zenon DEF S
<1>10. /\ GoodPool(pool') /\ Excess(pool') = Excess(pool)
       /\ pool'.localAddrs = pool.localAddrs
       /\ \A a \in Addr : (\A m \in S : m.from # a) => pool'.pending[a] = pool.pending[a]
  BY <1>9, Zenon DEF PrunedFrom
<1> QED
  BY <1>7, <1>8, <1>10, Zenon

-------------------------------------------------------------------------------
(* Local messages are kept. *)

(* No prefix of the chain has a gap. *)
Founded(ts) == \A k \in 0 .. Len(ts) : Gapless(SubSeq(ts, 1, k))

(* A sender with a message that is to be kept is known to be local. *)
LocalMarked == \A m \in localMsgs \ excused : m.from \in pool.localAddrs

(* The messages HeadChange still has to look at are on the chain. *)
TodoPassed ==
  \A i \in DOMAIN todo : todo[i].nonce < getStateNonce(todo[i].from, curTs)

LocalInv == LocalKept /\ LocalMarked /\ TodoPassed /\ Founded(curTs)

Kept(m) ==
  \/ m.nonce < getStateNonce(m.from, curTs)
  \/ m.nonce \in Nonces(pool.pending[m.from].msgs)
  \/ \E r \in rmsgs : Slot(r) = Slot(m)

LEMMA LocalKeptIs == LocalKept <=> \A m \in localMsgs \ excused : Kept(m)
  BY Zenon DEF LocalKept, Kept

LEMMA WholeChain ==
  ASSUME NEW ts \in Chain
  PROVE  SubSeq(ts, 1, Len(ts)) = ts /\ Len(ts) \in 0 .. Len(ts) /\ Len(ts) \in Nat
  BY DEF Chain

(* The chain a head change leaves. *)
LEMMA FoundedOn ==
  ASSUME NEW ts \in Chain, Founded(ts), NEW k \in 0 .. Len(ts), NEW apply \in Chain,
         NEW kept, kept = SubSeq(ts, 1, Len(ts) - k),
         apply = <<>> \/ \E t \in TipSetsOn(kept) : apply = <<t>>
  PROVE  kept \o apply \in Chain /\ Founded(kept \o apply)
<1> DEFINE c == kept \o apply
           n == Len(ts) - k
<1>1. Len(ts) \in Nat /\ n \in 0 .. Len(ts) /\ n \in Nat
  BY WholeChain
<1>2. kept \in Chain /\ Len(kept) = n /\ \A i \in 1 .. n : kept[i] = ts[i]
  BY <1>1 DEF Chain
<1>3. Gapless(kept)
  BY <1>1, Zenon DEF Founded
<1>4. c \in Chain
  BY <1>2, MinedConcat, Zenon
<1>5. Len(apply) \in 0 .. 1
  <2>1. Len(<<>>) = 0 /\ \A t : Len(<<t>>) = 1
    BY Zenon
  <2> QED
    BY <2>1
<1> HIDE DEF n
<1>6. /\ Len(c) = n + Len(apply)
      /\ \A i \in 1 .. n : c[i] = ts[i]
  <2>1. /\ Len(c) = Len(kept) + Len(apply)
        /\ \A i \in 1 .. Len(kept) : c[i] = kept[i]
    BY <1>2 DEF Chain
  <2> HIDE DEF c
  <2> QED
    BY <1>2, <2>1, Zenon
<1>7. Gapless(c)
  <2>1. CASE apply = <<>>
    BY <1>2, <1>3, <2>1 DEF Chain
  <2>2. CASE \E t \in TipSetsOn(kept) : apply = <<t>>
    BY <1>2, <1>3, <2>2, GaplessTipSet, Zenon
  <2> QED
    BY <2>1, <2>2, Zenon
<1> HIDE DEF c
<1>8. ASSUME NEW j \in 0 .. Len(c) PROVE Gapless(SubSeq(c, 1, j))
  <2>1. CASE j <= n
    <3>1. SubSeq(c, 1, j) = SubSeq(ts, 1, j) /\ j \in 0 .. Len(ts)
      BY <1>1, <1>4, <1>5, <1>6, <2>1 DEF Chain
    <3> QED
      BY <3>1, Zenon DEF Founded
  <2>2. CASE ~(j <= n)
    <3>1. j = Len(c)
      <4>1. Len(c) = n + Len(apply) /\ n \in Nat /\ Len(apply) \in 0 .. 1
        BY <1>1, <1>5, <1>6, Zenon
      <4>2. j \in Nat /\ j <= n + Len(apply)
        BY <4>1
      <4>3. \A x, y \in Nat : \A z \in 0 .. 1 : x <= y \/ (x <= y + z => x = y + z)
        OBVIOUS
      <4> QED
        BY <2>2, <4>1, <4>2, <4>3, Zenon
    <3> QED
      BY <1>4, <1>7, <3>1, WholeChain, Zenon
  <2> QED
    BY <2>1, <2>2, Zenon
<1> QED
  BY <1>4, <1>8, Zenon DEF Founded, c

(* On a chain without gaps the nonces mined are those below the state's. *)
LEMMA PassedIsMined ==
  ASSUME NEW ts \in Chain, Founded(ts), NEW a \in Addr, NEW n \in Nat
  PROVE  n < getStateNonce(a, ts) <=> \E x \in Mined(ts) : x.from = a /\ x.nonce = n
<1>1. Gapless(ts)
  BY WholeChain, Zenon DEF Founded
<1>2. MinedNonces(a, ts) = 0 .. getStateNonce(a, ts) - 1
  BY <1>1, Zenon DEF Gapless
<1>3. getStateNonce(a, ts) \in 0 .. MaxNonce + 1 /\ MaxNonce \in Nat
  BY MinedType, StateNonceType, PoolAssumption, Zenon
<1>4. n < getStateNonce(a, ts) <=> n \in MinedNonces(a, ts)
  BY <1>2, <1>3
<1>5. n \in MinedNonces(a, ts) <=> \E x \in Mined(ts) : x.from = a /\ x.nonce = n
  BY Zenon DEF MinedNonces, Nonces
<1> QED
  BY <1>4, <1>5, Zenon

(* q is p with some message added, or none. *)
Grown(p, q) ==
  /\ GoodPool(q) /\ Excess(q) = Excess(p)
  /\ p.localAddrs \subseteq q.localAddrs
  /\ \A b \in Addr : Nonces(p.pending[b].msgs) \subseteq Nonces(q.pending[b].msgs)

LEMMA AddGrows ==
  ASSUME PoolTypeOK, NEW m \in Message, NEW strict, NEW untrusted,
         NEW r, r = addLocked(pool, m, curTs, strict, untrusted)
  PROVE  /\ Grown(pool, r.pool) /\ r.pool.localAddrs = pool.localAddrs
         /\ ~ strict => m.nonce \in Nonces(r.pool.pending[m.from].msgs)
<1>1. GoodPool(pool) /\ Mined(curTs) \subseteq Message
  BY MinedType, Zenon DEF PoolTypeOK
<1>2. /\ GoodPool(r.pool) /\ Excess(r.pool) = Excess(pool)
      /\ r.pool.localAddrs = pool.localAddrs
  BY <1>1, AddLockedIs
<1>3. /\ \A b \in Addr : Nonces(pool.pending[b].msgs) \subseteq Nonces(r.pool.pending[b].msgs)
      /\ ~ strict => m.nonce \in Nonces(r.pool.pending[m.from].msgs)
  BY <1>1, AddedNonces
<1> QED
  BY <1>2, <1>3, Zenon DEF Grown

(* Push, PushUntrusted and HeadChange are not strict. *)
LEMMA LaxAddGrows ==
  ASSUME PoolTypeOK, NEW m \in Message, NEW untrusted,
         NEW r, r = addLocked(pool, m, curTs, FALSE, untrusted)
  PROVE  /\ Grown(pool, r.pool) /\ r.pool.localAddrs = pool.localAddrs
         /\ m.nonce \in Nonces(r.pool.pending[m.from].msgs)
<1>1. \A strict, x : x = addLocked(pool, m, curTs, strict, untrusted) =>
        /\ Grown(pool, x.pool) /\ x.pool.localAddrs = pool.localAddrs
        /\ ~ strict => m.nonce \in Nonces(x.pool.pending[m.from].msgs)
  <2> TAKE strict, x
  <2> HAVE x = addLocked(pool, m, curTs, strict, untrusted)
  <2> QED
    BY AddGrows
<1> QED
  BY <1>1, Zenon

(* A step that only adds to the pool, and to what is to be kept at most    *)
(* messages that are pending, keeps both invariants.                       *)
LEMMA GrownKeeps ==
  ASSUME BooksInv, LocalInv, Grown(pool, pool'),
         UNCHANGED <<curTs, todo, dropped>>,
         rmsgs' \in SUBSET Message,
         localMsgs' \in SUBSET Message, IsFiniteSet(localMsgs'),
         \A m \in localMsgs' \ excused' : m \in localMsgs \ excused \/
            (/\ m.from \in pool'.localAddrs
             /\ m.nonce \in Nonces(pool'.pending[m.from].msgs)),
         \A r \in rmsgs \ rmsgs' : r.nonce \in Nonces(pool'.pending[r.from].msgs)
  PROVE  BooksInv' /\ LocalInv'
<1>1. /\ GoodPool(pool') /\ Excess(pool') = Excess(pool)
      /\ pool.localAddrs \subseteq pool'.localAddrs
      /\ \A b \in Addr : Nonces(pool.pending[b].msgs) \subseteq Nonces(pool'.pending[b].msgs)
  BY Zenon DEF Grown
<1>2. /\ curTs' = curTs /\ todo' = todo /\ dropped' = dropped
      /\ curTs \in Chain /\ todo \in Seq(Message) /\ dropped \in Int
      /\ localMsgs \in SUBSET Message /\ Excess(pool) = dropped
  BY Zenon DEF BooksInv, PoolTypeOK
<1>3. BooksInv'
  BY <1>1, <1>2, Zenon DEF BooksInv, PoolTypeOK
<1>4. /\ \A m \in localMsgs \ excused : Kept(m) /\ m.from \in pool.localAddrs
      /\ TodoPassed /\ Founded(curTs)
  BY LocalKeptIs, Zenon DEF LocalInv, LocalMarked
<1>5. TodoPassed' /\ Founded(curTs')
  BY <1>2, <1>4, Zenon DEF TodoPassed
<1>6. ASSUME NEW m \in localMsgs' \ excused'
      PROVE  Kept(m)' /\ m.from \in pool'.localAddrs
  <2>1. CASE m.from \in pool'.localAddrs /\ m.nonce \in Nonces(pool'.pending[m.from].msgs)
    BY <2>1, Zenon DEF Kept
  <2>2. CASE m \in localMsgs \ excused
    <3>1. m.from \in pool'.localAddrs /\ m.from \in Addr
      BY <1>1, <1>2, <1>4, <2>2, MessageFacts, Zenon
    <3>2. CASE m.nonce < getStateNonce(m.from, curTs)
      BY <1>2, <3>1, <3>2, Zenon DEF Kept
    <3>3. CASE m.nonce \in Nonces(pool.pending[m.from].msgs)
      BY <1>1, <3>1, <3>3, Zenon DEF Kept
    <3>4. ASSUME NEW r \in rmsgs, Slot(r) = Slot(m) PROVE Kept(m)'
      <4>1. CASE r \in rmsgs'
        BY <3>4, <4>1, Zenon DEF Kept
      <4>2. CASE r \notin rmsgs'
        <5>1. r.nonce \in Nonces(pool'.pending[r.from].msgs)
          BY <4>2, Zenon
        <5>2. r.nonce = m.nonce /\ r.from = m.from
          BY <3>4, Zenon DEF Slot
        <5> QED
          BY <5>1, <5>2, Zenon DEF Kept
      <4> QED
        BY <4>1, <4>2, Zenon
    <3>5. Kept(m)
      BY <1>4, <2>2, Zenon
    <3> QED
      BY <3>1, <3>2, <3>3, <3>4, <3>5, Zenon DEF Kept
  <2> QED
    BY <2>1, <2>2, Zenon
<1>7. LocalKept' /\ LocalMarked'
  BY <1>6, Zenon DEF LocalKept, Kept, LocalMarked
<1> QED
  BY <1>3, <1>5, <1>7, Zenon DEF LocalInv

-------------------------------------------------------------------------------
(* The steps of the pool. *)

IInv == BooksInv /\ LocalInv

(* A pool to which a message was added, its sender marked as local. *)
LEMMA MarkedGrows ==
  ASSUME NEW p, NEW q, Grown(p, q), NEW a \in Addr, NEW r,
         r = [q EXCEPT !.localAddrs = @ \cup {a}]
  PROVE  Grown(p, r) /\ r.pending = q.pending /\ a \in r.localAddrs
<1>1. GoodPool(q) /\ Excess(q) = Excess(p) /\ p.localAddrs \subseteq q.localAddrs
  BY Zenon DEF Grown
<1>2. /\ GoodPool(r) /\ Excess(r) = Excess(q)
      /\ r.pending = q.pending /\ r.localAddrs = q.localAddrs \cup {a}
  BY <1>1, Marked, Zenon
<1> QED
  BY <1>1, <1>2, Zenon DEF Grown

LEMMA PushStep ==
  ASSUME IInv, NEW m \in Message, NEW untrusted, Push(m, untrusted)
  PROVE  IInv'
<1>0. BooksInv /\ LocalInv /\ PoolTypeOK
  BY Zenon DEF IInv, BooksInv
<1> DEFINE res == addLocked(pool, m, curTs, FALSE, untrusted)
<1>1. /\ Grown(pool, res.pool)
      /\ m.nonce \in Nonces(res.pool.pending[m.from].msgs)
  BY <1>0, LaxAddGrows, Zenon
<1>2. /\ IF res.ok
         THEN /\ pool' = [res.pool EXCEPT !.localAddrs = @ \cup {m.from}]
              /\ localMsgs' = localMsgs \cup {m}
              /\ excused' = excused \ {m}
         ELSE /\ pool' = res.pool
              /\ UNCHANGED <<localMsgs, excused>>
      /\ UNCHANGED <<curTs, todo, dropped>> /\ rmsgs' = rmsgs
  BY Zenon DEF Push
<1> HIDE DEF res
<1>3. /\ rmsgs \in SUBSET Message
      /\ localMsgs \in SUBSET Message /\ IsFiniteSet(localMsgs)
  BY <1>0, Zenon DEF PoolTypeOK
<1>4. m.from \in Addr
  BY MessageFacts, Zenon
<1>5. CASE res.ok
  <2>1. /\ pool' = [res.pool EXCEPT !.localAddrs = @ \cup {m.from}]
        /\ localMsgs' = localMsgs \cup {m} /\ excused' = excused \ {m}
    BY <1>2, <1>5, Zenon
  <2>2. Grown(pool, pool') /\ pool'.pending = res.pool.pending /\ m.from \in pool'.localAddrs
    BY <1>1, <1>4, <2>1, MarkedGrows
  <2>3. IsFiniteSet(localMsgs') /\ localMsgs' \in SUBSET Message
    BY <1>3, <2>1, FS_AddElement, Zenon
  <2>4. /\ m.nonce \in Nonces(pool'.pending[m.from].msgs)
        /\ \A x \in localMsgs' \ excused' : x \in localMsgs \ excused \/ x = m
    BY <1>1, <2>1, <2>2, Zenon
  <2> QED
    BY <1>0, <1>2, <1>3, <2>2, <2>3, <2>4, GrownKeeps, Zenon DEF IInv
<1>6. CASE ~ res.ok
  <2>1. pool' = res.pool /\ localMsgs' = localMsgs /\ excused' = excused
    BY <1>2, <1>6, Zenon
  <2> QED
    BY <1>0, <1>1, <1>2, <1>3, <2>1, GrownKeeps, Zenon DEF IInv
<1> QED
  BY <1>5, <1>6, Zenon

LEMMA PushNotSavedStep ==
  ASSUME IInv, NEW m \in Message, PushNotSaved(m)
  PROVE  IInv'
<1>0. BooksInv /\ LocalInv /\ PoolTypeOK
  BY Zenon DEF IInv, BooksInv
<1> DEFINE res == addLocked(pool, m, curTs, FALSE, FALSE)
<1>1. Grown(pool, res.pool)
  BY <1>0, LaxAddGrows, Zenon
<1>2. /\ pool' = [res.pool EXCEPT !.localAddrs = @ \cup {m.from}]
      /\ UNCHANGED <<curTs, todo, dropped>>
      /\ rmsgs' = rmsgs /\ localMsgs' = localMsgs /\ excused' = excused
  BY Zenon DEF PushNotSaved
<1> HIDE DEF res
<1>3. /\ rmsgs \in SUBSET Message
      /\ localMsgs \in SUBSET Message /\ IsFiniteSet(localMsgs)
  BY <1>0, Zenon DEF PoolTypeOK
<1>4. Grown(pool, pool')
  BY <1>1, <1>2, MessageFacts, MarkedGrows
<1> QED
  BY <1>0, <1>2, <1>3, <1>4, GrownKeeps, Zenon DEF IInv

LEMMA AddStep ==
  ASSUME IInv, NEW m \in Message, Add(m)
  PROVE  IInv'
<1>0. BooksInv /\ LocalInv /\ PoolTypeOK
  BY Zenon DEF IInv, BooksInv
<1>1. ASSUME NEW strict, NEW untrusted
      PROVE  Grown(pool, addLocked(pool, m, curTs, strict, untrusted).pool)
  BY <1>0, AddGrows, Zenon
<1>2. /\ pool' = addLocked(pool, m, curTs, TRUE, FALSE).pool
      /\ UNCHANGED <<curTs, todo, dropped>>
      /\ rmsgs' = rmsgs /\ localMsgs' = localMsgs /\ excused' = excused
  BY Zenon DEF Add
<1>3. /\ rmsgs \in SUBSET Message
      /\ localMsgs \in SUBSET Message /\ IsFiniteSet(localMsgs)
  BY <1>0, Zenon DEF PoolTypeOK
<1>4. Grown(pool, pool')
  BY <1>1, <1>2, Zenon
<1> QED
  BY <1>0, <1>2, <1>3, <1>4, GrownKeeps, Zenon DEF IInv

LEMMA addSkipChecksStep ==
  ASSUME IInv, NEW m \in Message, addSkipChecks(m)
  PROVE  IInv'
<1>0. BooksInv /\ LocalInv /\ PoolTypeOK
  BY Zenon DEF IInv, BooksInv
<1> DEFINE res == addLocked(pool, m, curTs, FALSE, FALSE)
<1>1. /\ Grown(pool, res.pool)
      /\ m.nonce \in Nonces(res.pool.pending[m.from].msgs)
  BY <1>0, LaxAddGrows, Zenon
<1>2. /\ pool' = res.pool /\ rmsgs' = rmsgs \ {m}
      /\ UNCHANGED <<curTs, todo, dropped>>
      /\ localMsgs' = localMsgs /\ excused' = excused
  BY Zenon DEF addSkipChecks
<1> HIDE DEF res
<1>3. /\ rmsgs' \in SUBSET Message
      /\ localMsgs \in SUBSET Message /\ IsFiniteSet(localMsgs)
  BY <1>0, <1>2, Zenon DEF PoolTypeOK
<1>4. \A r \in rmsgs \ rmsgs' : r.nonce \in Nonces(pool'.pending[r.from].msgs)
  BY <1>1, <1>2, Zenon
<1> QED
  BY <1>0, <1>1, <1>2, <1>3, <1>4, GrownKeeps, Zenon DEF IInv

LEMMA pruneExcessMessagesStep ==
  ASSUME IInv, pruneExcessMessages
  PROVE  IInv'
<1>0. BooksInv /\ LocalInv /\ PoolTypeOK
  BY Zenon DEF IInv, BooksInv
<1>1. GoodPool(pool) /\ pool \in PoolType
  BY <1>0, Zenon DEF PoolTypeOK, GoodPool
<1>2. /\ pool' = [pool EXCEPT !.pruneTrigger = FALSE]
      /\ UNCHANGED <<curTs, todo, dropped>>
      /\ rmsgs' = rmsgs /\ localMsgs' = localMsgs /\ excused' = excused
  BY Zenon DEF pruneExcessMessages
<1>3. /\ rmsgs \in SUBSET Message
      /\ localMsgs \in SUBSET Message /\ IsFiniteSet(localMsgs)
  BY <1>0, Zenon DEF PoolTypeOK
<1>4. /\ pool' \in PoolType /\ pool'.pending = pool.pending
      /\ pool'.currentSize = pool.currentSize /\ pool'.localAddrs = pool.localAddrs
  BY <1>1, <1>2, Zenon DEF PoolType
<1>5. Pending(pool') = Pending(pool)
  BY <1>4, Zenon DEF Pending
<1>6. GoodPool(pool') /\ Excess(pool') = Excess(pool)
  BY <1>1, <1>4, <1>5, Zenon DEF GoodPool, Excess
<1>7. Grown(pool, pool')
  BY <1>4, <1>6, Zenon DEF Grown
<1> QED
  BY <1>0, <1>2, <1>3, <1>7, GrownKeeps, Zenon DEF IInv

(* A step that may take messages from the pool, but not the nonces of what *)
(* is to be kept unless they are on the chain, keeps the invariants.       *)
LEMMA ShrunkKeeps ==
  ASSUME BooksInv, LocalInv, GoodPool(pool'), Excess(pool') = dropped', dropped' \in Int,
         pool'.localAddrs = pool.localAddrs, curTs' = curTs,
         rmsgs' \in SUBSET rmsgs,
         todo' \in Seq(Message), TodoPassed',
         localMsgs' \in SUBSET localMsgs,
         \A m \in localMsgs' \ excused' :
            m \in localMsgs \ excused /\ (Kept(m) => Kept(m)')
  PROVE  BooksInv' /\ LocalInv'
<1>1. /\ curTs \in Chain /\ rmsgs \in SUBSET Message
      /\ localMsgs \in SUBSET Message /\ IsFiniteSet(localMsgs)
  BY Zenon DEF BooksInv, PoolTypeOK
<1>2. localMsgs' \in SUBSET Message /\ IsFiniteSet(localMsgs') /\ rmsgs' \in SUBSET Message
  BY <1>1, FS_Subset, Zenon
<1>3. BooksInv'
  BY <1>1, <1>2, Zenon DEF BooksInv, PoolTypeOK
<1>4. /\ \A m \in localMsgs \ excused : Kept(m) /\ m.from \in pool.localAddrs
      /\ Founded(curTs)
  BY LocalKeptIs, Zenon DEF LocalInv, LocalMarked
<1>5. ASSUME NEW m \in localMsgs' \ excused'
      PROVE  Kept(m)' /\ m.from \in pool'.localAddrs
  BY <1>4, Zenon
<1>6. LocalKept' /\ LocalMarked'
  BY <1>5, Zenon DEF LocalKept, Kept, LocalMarked
<1>7. Founded(curTs')
  BY <1>4, Zenon
<1> QED
  BY <1>3, <1>6, <1>7, Zenon DEF LocalInv

LEMMA PruneStepKeeps ==
  ASSUME IInv, Prune
  PROVE  IInv'
<1>0. BooksInv /\ LocalInv /\ PoolTypeOK
  BY Zenon DEF IInv, BooksInv
<1>1. /\ GoodPool(pool) /\ Excess(pool) = dropped /\ dropped \in Int
      /\ todo \in Seq(Message) /\ TodoPassed
  BY <1>0, Zenon DEF PoolTypeOK, BooksInv, LocalInv
<1>2. /\ UNCHANGED pool \/ pruneMessages
      /\ curTs' = curTs /\ rmsgs' = rmsgs /\ todo' = todo /\ dropped' = dropped
      /\ localMsgs' = localMsgs /\ excused' = excused
  BY Zenon DEF Prune
<1>3. /\ GoodPool(pool') /\ Excess(pool') = Excess(pool)
      /\ pool'.localAddrs = pool.localAddrs
      /\ \A a \in pool.localAddrs : pool'.pending[a] = pool.pending[a]
  BY <1>1, <1>2, PruneIs, Zenon
<1>4. ASSUME NEW m \in localMsgs \ excused PROVE Kept(m) => Kept(m)'
  <2>1. m.from \in pool.localAddrs
    BY <1>0, Zenon DEF LocalInv, LocalMarked
  <2> QED
    BY <1>2, <1>3, <2>1, Zenon DEF Kept
<1>5. TodoPassed'
  BY <1>1, <1>2, Zenon DEF TodoPassed
<1> QED
  BY <1>0, <1>1, <1>2, <1>3, <1>4, <1>5, ShrunkKeeps, Zenon DEF IInv

LEMMA ClearStep ==
  ASSUME IInv, NEW local, Clear(local)
  PROVE  IInv'
<1>0. BooksInv /\ LocalInv /\ PoolTypeOK
  BY Zenon DEF IInv, BooksInv
<1>1. /\ GoodPool(pool) /\ Excess(pool) = dropped /\ dropped \in Int
      /\ todo \in Seq(Message) /\ TodoPassed /\ localMsgs \in SUBSET Message
  BY <1>0, Zenon DEF PoolTypeOK, BooksInv, LocalInv
<1> DEFINE cleared == IF local THEN Addr ELSE Addr \ pool.localAddrs
           msgs    == UNION {pool.pending[a].msgs : a \in cleared}
<1>2. /\ pool' = [pool EXCEPT !.pending =
                    [a \in Addr |-> IF a \in cleared THEN NoSet ELSE @[a]]]
      /\ localMsgs' = IF local
                      THEN localMsgs \ {m \in msgs : m.from \in pool.localAddrs}
                      ELSE localMsgs
      /\ dropped' = dropped + Cardinality(msgs)
      /\ excused' = IF local
                    THEN excused \cup
                         {m \in localMsgs : \E x \in msgs : Slot(x) = Slot(m)}
                    ELSE excused
      /\ curTs' = curTs /\ rmsgs' = rmsgs /\ todo' = todo
  BY Zenon DEF Clear
<1>3. cleared \in SUBSET Addr
  BY Zenon
<1>4. \A x : x \in msgs <=> \E a \in cleared : x \in pool.pending[a].msgs
  BY Zenon
<1>5. /\ local => cleared = Addr
      /\ ~ local => cleared = Addr \ pool.localAddrs
  BY Zenon
<1>6a. pool' = Cleared(pool, cleared) /\ msgs = HeldOf(pool, cleared)
  BY <1>2, Zenon DEF Cleared, HeldOf
<1> HIDE DEF cleared, msgs
<1>6. /\ GoodPool(pool') /\ Excess(pool') = Excess(pool) + Cardinality(msgs)
      /\ Cardinality(msgs) \in Nat /\ pool'.localAddrs = pool.localAddrs
      /\ \A a \in Addr : pool'.pending[a] = IF a \in cleared THEN NoSet ELSE pool.pending[a]
  BY <1>1, <1>3, <1>6a, ClearIs
<1>7. Excess(pool') = dropped' /\ dropped' \in Int
  BY <1>1, <1>2, <1>6
<1>8. ASSUME NEW m \in localMsgs' \ excused'
      PROVE  /\ m \in localMsgs \ excused
             /\ Kept(m) => Kept(m)'
  <2>1. m \in localMsgs \ excused
    BY <1>2, Zenon
  <2>2. m.from \in pool.localAddrs /\ m.from \in Addr
    BY <1>0, <1>1, <2>1, MessageFacts, Zenon DEF LocalInv, LocalMarked
  <2>3. m.nonce \in Nonces(pool.pending[m.from].msgs) =>
          pool'.pending[m.from] = pool.pending[m.from]
    <3>1. CASE ~ local
      BY <1>5, <1>6, <2>2, <3>1, Zenon
    <3>2. CASE local
      <4> SUFFICES ASSUME m.nonce \in Nonces(pool.pending[m.from].msgs) PROVE FALSE
        BY Zenon
      <4>1. PICK x \in pool.pending[m.from].msgs : x.nonce = m.nonce
        BY Zenon DEF Nonces
      <4>2. OwnSet(m.from, pool.pending[m.from])
        BY <1>1, <2>2, Zenon DEF GoodPool
      <4>3. x.from = m.from
        BY <4>1, <4>2, Zenon DEF OwnSet
      <4>4. x \in msgs
        BY <1>4, <1>5, <2>2, <3>2, <4>1, Zenon
      <4>5. Slot(x) = Slot(m)
        BY <4>1, <4>3, Zenon DEF Slot
      <4> QED
        BY <1>2, <2>1, <3>2, <4>4, <4>5, Zenon
    <3> QED
      BY <3>1, <3>2, Zenon
  <2> QED
    BY <1>2, <2>1, <2>3, Zenon DEF Kept
<1>9. TodoPassed'
  BY <1>1, <1>2, Zenon DEF TodoPassed
<1>10. localMsgs' \in SUBSET localMsgs
  BY <1>2, Zenon
<1> QED
  BY <1>0, <1>1, <1>2, <1>6, <1>7, <1>8, <1>9, <1>10, ShrunkKeeps, Zenon DEF IInv

LEMMA applyMessageStep ==
  ASSUME IInv, applyMessage
  PROVE  IInv'
<1>0. BooksInv /\ LocalInv /\ PoolTypeOK
  BY Zenon DEF IInv, BooksInv
<1>1. /\ GoodPool(pool) /\ Excess(pool) = dropped /\ dropped \in Int
      /\ todo \in Seq(Message) /\ TodoPassed /\ rmsgs \in SUBSET Message
  BY <1>0, Zenon DEF PoolTypeOK, BooksInv, LocalInv
<1> DEFINE m == Head(todo)
<1>2. /\ todo # <<>> /\ todo' = Tail(todo)
      /\ IF \E r \in rmsgs : Slot(r) = Slot(m)
         THEN rmsgs' = {r \in rmsgs : Slot(r) # Slot(m)} /\ pool' = pool
         ELSE pool' = remove(pool, m.from, m.nonce, TRUE) /\ rmsgs' = rmsgs
      /\ curTs' = curTs /\ localMsgs' = localMsgs /\ dropped' = dropped
      /\ excused' = excused
  BY Zenon DEF applyMessage
<1>3. /\ m \in Message /\ 1 \in DOMAIN todo /\ m = todo[1]
      /\ todo' \in Seq(Message)
      /\ \A i \in DOMAIN todo' : i + 1 \in DOMAIN todo /\ todo'[i] = todo[i + 1]
  BY <1>1, <1>2
<1> HIDE DEF m
<1>4. m.nonce < getStateNonce(m.from, curTs)
  BY <1>1, <1>3, Zenon DEF TodoPassed
<1>5. TodoPassed'
  BY <1>1, <1>2, <1>3, Zenon DEF TodoPassed
<1>6. m.from \in Addr /\ m.nonce \in 0 .. MaxNonce
  BY <1>3, MessageFacts, Zenon
<1>7. CASE \E r \in rmsgs : Slot(r) = Slot(m)
  <2>1. rmsgs' = {r \in rmsgs : Slot(r) # Slot(m)} /\ pool' = pool
    BY <1>2, <1>7, Zenon
  <2>2. ASSUME NEW x \in localMsgs \ excused PROVE Kept(x) => Kept(x)'
    <3>1. CASE Slot(x) = Slot(m)
      <4>1. x.from = m.from /\ x.nonce = m.nonce
        BY <3>1, Zenon DEF Slot
      <4> QED
        BY <1>2, <1>4, <4>1, Zenon DEF Kept
    <3>2. CASE Slot(x) # Slot(m)
      BY <1>2, <2>1, <3>2, Zenon DEF Kept
    <3> QED
      BY <3>1, <3>2, Zenon
  <2> QED
    BY <1>0, <1>1, <1>2, <1>3, <1>5, <2>1, <2>2, ShrunkKeeps, Zenon DEF IInv
<1>8. CASE ~ \E r \in rmsgs : Slot(r) = Slot(m)
  <2>1. rmsgs' = rmsgs /\ pool' = remove(pool, m.from, m.nonce, TRUE)
    BY <1>2, <1>8, Zenon
  <2>2. ASSUME NEW applied, NEW q, q = remove(pool, m.from, m.nonce, applied)
        PROVE  /\ GoodPool(q) /\ Excess(q) = Excess(pool)
               /\ q.localAddrs = pool.localAddrs
               /\ \A b \in Addr : b # m.from => q.pending[b] = pool.pending[b]
               /\ q.pending[m.from].msgs = Others(pool.pending[m.from].msgs, m.nonce)
    BY <1>1, <1>6, <2>2, RemoveIs
  <2>3. /\ GoodPool(pool') /\ Excess(pool') = Excess(pool)
        /\ pool'.localAddrs = pool.localAddrs
        /\ \A b \in Addr : b # m.from => pool'.pending[b] = pool.pending[b]
        /\ pool'.pending[m.from].msgs = Others(pool.pending[m.from].msgs, m.nonce)
    BY <2>1, <2>2, Zenon
  <2>4. ASSUME NEW x \in localMsgs \ excused PROVE Kept(x) => Kept(x)'
    <3>1. x.from \in Addr
      BY <1>0, MessageFacts, Zenon DEF PoolTypeOK
    <3>2. CASE x.from # m.from
      BY <1>2, <2>1, <2>3, <3>1, <3>2, Zenon DEF Kept
    <3>3. CASE x.from = m.from /\ x.nonce = m.nonce
      BY <1>2, <1>4, <3>3, Zenon DEF Kept
    <3>4. CASE x.from = m.from /\ x.nonce # m.nonce
      <4>1. x.nonce \in Nonces(pool.pending[x.from].msgs) =>
              x.nonce \in Nonces(pool'.pending[x.from].msgs)
        BY <2>3, <3>4, Zenon DEF Nonces, Others
      <4> QED
        BY <1>2, <2>1, <4>1, Zenon DEF Kept
    <3> QED
      BY <3>2, <3>3, <3>4, Zenon
  <2> QED
    BY <1>0, <1>1, <1>2, <1>3, <1>5, <2>1, <2>3, <2>4, ShrunkKeeps, Zenon DEF IInv
<1> QED
  BY <1>7, <1>8, Zenon

LEMMA RestartStep ==
  ASSUME IInv, Restart
  PROVE  IInv'
<1>0. BooksInv /\ LocalInv /\ PoolTypeOK
  BY Zenon DEF IInv, BooksInv
<1>1. /\ curTs \in Chain /\ localMsgs \in SUBSET Message /\ IsFiniteSet(localMsgs)
      /\ Founded(curTs)
  BY <1>0, Zenon DEF PoolTypeOK, LocalInv
<1>2. /\ excused' = excused \cup
           {m \in localMsgs :
              \/ m.from \notin pool'.localAddrs
              \/ m.nonce >= getStateNonce(m.from, curTs)
                 /\ m.nonce \notin Nonces(pool'.pending[m.from].msgs)}
      /\ rmsgs' = {} /\ todo' = <<>> /\ dropped' = 0
      /\ curTs' = curTs /\ localMsgs' = localMsgs
  BY Zenon DEF Restart
<1>3. PICK order \in Orders(localMsgs) :
        pool' = (CHOOSE f : IsLoaded(f, order))[Len(order)]
  BY Zenon DEF Restart, IsLoaded
<1>4. order \in Seq(Message)
  <2>1. Cardinality(localMsgs) \in Nat
    BY <1>1, FS_CardinalityType, Zenon
  <2>2. order \in [1 .. Cardinality(localMsgs) -> localMsgs]
    BY Zenon DEF Orders, Bijection, Injection
  <2> QED
    BY <1>1, <2>1, <2>2
<1>5. pool' \in Books
  BY <1>1, <1>3, <1>4, MinedType, LoadKeeps, Zenon
<1>6. GoodPool(pool') /\ Excess(pool') = 0
  BY <1>5, Zenon DEF Books
<1>7. todo' \in Seq(Message) /\ TodoPassed' /\ dropped' \in Int
  BY <1>2 DEF TodoPassed
<1>8. BooksInv'
  BY <1>1, <1>2, <1>6, <1>7, Zenon DEF BooksInv, PoolTypeOK
<1>9. ASSUME NEW m \in localMsgs' \ excused'
      PROVE  Kept(m)' /\ m.from \in pool'.localAddrs
  <2>1. /\ m \in localMsgs /\ m.from \in pool'.localAddrs
        /\ \/ ~(m.nonce >= getStateNonce(m.from, curTs))
           \/ m.nonce \in Nonces(pool'.pending[m.from].msgs)
    BY <1>2, Zenon
  <2>2. m.nonce \in Nat /\ m.from \in Addr
    BY <1>1, <2>1, MessageFacts, Zenon
  <2>3. getStateNonce(m.from, curTs) \in 0 .. MaxNonce + 1 /\ MaxNonce \in Nat
    BY <1>1, <2>2, MinedType, StateNonceType, PoolAssumption, Zenon
  <2>4. \/ m.nonce < getStateNonce(m.from, curTs)
        \/ m.nonce \in Nonces(pool'.pending[m.from].msgs)
    BY <2>1, <2>2, <2>3
  <2> QED
    BY <1>2, <2>1, <2>4, Zenon DEF Kept
<1>10. LocalKept' /\ LocalMarked'
  BY <1>9, Zenon DEF LocalKept, Kept, LocalMarked
<1> QED
  BY <1>1, <1>2, <1>7, <1>8, <1>10, Zenon DEF IInv, LocalInv

(* A local message a head change takes off the chain comes back, as itself *)
(* or as the message that was mined in its place, or is excused.           *)
LEMMA HeadChangeStep ==
  ASSUME IInv, NEW k \in 0 .. Len(curTs), NEW apply \in Chain, HeadChange(k, apply),
         \/ apply = <<>>
         \/ \E t \in TipSetsOn(SubSeq(curTs, 1, Len(curTs) - k)) : apply = <<t>>
  PROVE  IInv'
<1>0. BooksInv /\ LocalInv /\ PoolTypeOK
  BY Zenon DEF IInv, BooksInv
<1> DEFINE kept == SubSeq(curTs, 1, Len(curTs) - k)
           gone == SubSeq(curTs, Len(curTs) - k + 1, Len(curTs))
           lost == {m \in Mined(gone) :
                      /\ m.nonce >= getStateNonce(m.from, curTs')
                      /\ \A r \in rmsgs' : Slot(r) # Slot(m)}
<1>1. /\ rmsgs = {} /\ curTs' = kept \o apply
      /\ excused' = excused \cup {m \in localMsgs : \E x \in lost : Slot(x) = Slot(m)}
      /\ pool' = pool /\ localMsgs' = localMsgs /\ dropped' = dropped
  BY Zenon DEF HeadChange, Idle
<1>2. /\ curTs \in Chain /\ Founded(curTs) /\ localMsgs \in SUBSET Message
      /\ \A m \in localMsgs \ excused : Kept(m) /\ m.from \in pool.localAddrs
  BY <1>0, LocalKeptIs, Zenon DEF PoolTypeOK, LocalInv, LocalMarked
<1>3. /\ kept \in Chain /\ gone \in Chain
      /\ Mined(curTs) = Mined(kept) \cup Mined(gone)
  BY <1>2, MinedCut, Zenon
<1>4. curTs' \in Chain /\ Founded(curTs')
  <2>1. apply = <<>> \/ \E t \in TipSetsOn(kept) : apply = <<t>>
    BY Zenon
  <2> HIDE DEF gone, lost
  <2> QED
    BY <1>1, <1>2, <2>1, FoundedOn, Zenon
<1>5. \A x : x \in lost <=> /\ x \in Mined(gone)
                            /\ x.nonce >= getStateNonce(x.from, curTs')
                            /\ \A r \in rmsgs' : Slot(r) # Slot(x)
  BY Zenon
<1> HIDE DEF kept, gone, lost
<1>6. Mined(curTs') = Mined(kept) \cup Mined(apply)
  BY <1>1, <1>3, MinedConcat, Zenon
<1>7. /\ rmsgs' \in SUBSET Message
      /\ todo' \in Seq(Mined(apply)) /\ todo' \in Seq(Message)
  BY <1>0, HeadChangeTypes, Zenon
<1>8. BooksInv'
  BY <1>0, <1>1, <1>4, <1>7, Zenon DEF BooksInv, PoolTypeOK
<1>9. ASSUME NEW x \in Mined(curTs')
      PROVE  x \in Message /\ x.nonce < getStateNonce(x.from, curTs')
  <2>1. x \in Message
    BY <1>4, MinedType, Zenon
  <2>2. x.from \in Addr /\ x.nonce \in Nat
    BY <2>1, MessageFacts, Zenon
  <2> QED
    BY <1>4, <2>1, <2>2, PassedIsMined, Zenon
<1>10. TodoPassed'
  <2> SUFFICES ASSUME NEW i \in DOMAIN todo'
               PROVE  todo'[i].nonce < getStateNonce(todo'[i].from, curTs')
    BY Zenon DEF TodoPassed
  <2>1. todo'[i] \in Mined(apply)
    BY <1>7
  <2> QED
    BY <1>6, <1>9, <2>1, Zenon
<1>11. ASSUME NEW m \in localMsgs' \ excused'
       PROVE  Kept(m)' /\ m.from \in pool'.localAddrs
  <2>1. /\ m \in localMsgs \ excused /\ Kept(m) /\ m.from \in pool'.localAddrs
        /\ \A x \in lost : Slot(x) # Slot(m)
    BY <1>1, <1>2, Zenon
  <2>2. m.from \in Addr /\ m.nonce \in Nat
    BY <1>2, <2>1, MessageFacts, Zenon
  <2>3. CASE m.nonce \in Nonces(pool.pending[m.from].msgs)
    BY <1>1, <2>1, <2>3, Zenon DEF Kept
  <2>4. CASE m.nonce < getStateNonce(m.from, curTs)
    <3>1. PICK x \in Mined(curTs) : x.from = m.from /\ x.nonce = m.nonce
      BY <1>2, <2>2, <2>4, PassedIsMined
    <3>2. Slot(x) = Slot(m)
      BY <3>1, Zenon DEF Slot
    <3>3. CASE m.nonce < getStateNonce(m.from, curTs')
      BY <2>1, <3>3, Zenon DEF Kept
    <3>4. CASE ~(m.nonce < getStateNonce(m.from, curTs'))
      <4>1. getStateNonce(m.from, curTs') \in 0 .. MaxNonce + 1 /\ MaxNonce \in Nat
        BY <1>4, <2>2, MinedType, StateNonceType, PoolAssumption, Zenon
      <4>2. m.nonce >= getStateNonce(m.from, curTs')
        BY <2>2, <3>4, <4>1
      <4>3. x \in Mined(gone)
        <5>1. x \notin Mined(curTs')
          BY <1>9, <3>1, <3>4, Zenon
        <5> QED
          BY <1>3, <1>6, <5>1, Zenon
      <4>4. \E r \in rmsgs' : Slot(r) = Slot(x)
        BY <1>5, <2>1, <3>1, <3>2, <4>2, <4>3, Zenon
      <4> QED
        BY <2>1, <3>2, <4>4, Zenon DEF Kept
    <3> QED
      BY <3>3, <3>4, Zenon
  <2> QED
    BY <1>1, <2>1, <2>3, <2>4, Zenon DEF Kept
<1>12. LocalKept' /\ LocalMarked'
  BY <1>11, Zenon DEF LocalKept, Kept, LocalMarked
<1> QED
  BY <1>4, <1>8, <1>10, <1>12, Zenon DEF IInv, LocalInv

LEMMA NextHeadStep ==
  ASSUME IInv, NextHead
  PROVE  IInv'
<1>1. PoolTypeOK
  BY Zenon DEF IInv, BooksInv
<1>2. \E k \in 0 .. Len(curTs), apply \in Chain :
           /\ HeadChange(k, apply)
           /\ \/ apply = <<>>
              \/ \E t \in TipSetsOn(SubSeq(curTs, 1, Len(curTs) - k)) : apply = <<t>>
  BY <1>1, NextHeadIs, Zenon
<1> QED
  BY <1>2, HeadChangeStep, Zenon

LEMMA PoolInitially == Init => IInv
<1> SUFFICES ASSUME Init PROVE IInv
  BY Zenon
<1>1. /\ curTs \in {<<>>} \cup {<<t>> : t \in TipSetsOn(<<>>)}
      /\ pool = EmptyPool /\ localMsgs = {} /\ rmsgs = {} /\ todo = <<>> /\ dropped = 0
  BY Zenon DEF Init
<1>2. PICK apply : /\ curTs = apply
                   /\ apply = <<>> \/ \E t \in TipSetsOn(<<>>) : apply = <<t>>
  BY <1>1, Zenon
<1>3. apply \in Chain /\ <<>> \in Chain
  BY <1>2, TipSetMines, MinedNone, Zenon
<1>4. curTs \in Chain /\ Founded(curTs)
  <2>1. 0 \in 0 .. Len(<<>>) /\ <<>> = SubSeq(<<>>, 1, Len(<<>>) - 0)
    OBVIOUS
  <2>2. Founded(<<>>)
    <3>1. \A k \in 0 .. Len(<<>>) : SubSeq(<<>>, 1, k) = <<>>
      OBVIOUS
    <3> QED
      BY <3>1, GaplessNone, Zenon DEF Founded
  <2>3. <<>> \o apply \in Chain /\ Founded(<<>> \o apply)
    BY <1>2, <1>3, <2>1, <2>2, FoundedOn, Zenon
  <2>4. <<>> \o apply = apply
    BY <1>3 DEF Chain
  <2> QED
    BY <1>2, <2>3, <2>4, Zenon
<1>5. todo \in Seq(Message) /\ TodoPassed /\ dropped \in Int
  BY <1>1 DEF TodoPassed
<1>6. BooksInv
  BY <1>1, <1>4, <1>5, EmptyPoolIs, FS_EmptySet, Zenon DEF BooksInv, PoolTypeOK
<1>7. LocalKept /\ LocalMarked
  BY <1>1, Zenon DEF LocalKept, LocalMarked
<1> QED
  BY <1>4, <1>5, <1>6, <1>7, Zenon DEF IInv, LocalInv

LEMMA PoolStep == IInv /\ [Next]_vars => IInv'
<1> SUFFICES ASSUME IInv, [Next]_vars PROVE IInv'
  BY Zenon
<1>1. ASSUME NEW m \in Message, Push(m, FALSE) \/ Push(m, TRUE) PROVE IInv'
  BY <1>1, PushStep, Zenon
<1>2. ASSUME NEW m \in Message, PushNotSaved(m) PROVE IInv'
  BY <1>2, PushNotSavedStep, Zenon
<1>3. ASSUME NEW m \in Message, Add(m) PROVE IInv'
  BY <1>3, AddStep, Zenon
<1>4. CASE NextHead
  BY <1>4, NextHeadStep, Zenon
<1>5. CASE applyMessage
  BY <1>5, applyMessageStep, Zenon
<1>6. ASSUME NEW m \in Message, addSkipChecks(m) PROVE IInv'
  BY <1>6, addSkipChecksStep, Zenon
<1>7. CASE Clear(TRUE) \/ Clear(FALSE)
  BY <1>7, ClearStep, Zenon
<1>8. CASE pruneExcessMessages
  BY <1>8, pruneExcessMessagesStep, Zenon
<1>9. CASE Prune
  BY <1>9, PruneStepKeeps, Zenon
<1>10. CASE Restart
  BY <1>10, RestartStep, Zenon
<1>11. CASE UNCHANGED vars
  BY <1>11, Zenon DEF vars, IInv, BooksInv, PoolTypeOK, LocalInv, LocalKept, LocalMarked, TodoPassed
<1> QED
  BY <1>1, <1>2, <1>3, <1>4, <1>5, <1>6, <1>7, <1>8, <1>9, <1>10, <1>11, Zenon DEF Next

(* requiredFunds and currentSize never part from what is pending, for any  *)
(* senders, messages, limits and bounds.                                   *)
THEOREM BooksAlwaysAgree == Spec => []BooksAgree
<1>1. IInv => BooksAgree
  BY BooksInvIs, Zenon DEF IInv
<1> QED
  BY <1>1, PoolInitially, PoolStep, PTL DEF Spec

(* What was pushed on this node is kept, whatever head changes, prunes,    *)
(* clears and restarts do in between, but for what the pool is excused of. *)
THEOREM LocalIsKept == Spec => []LocalKept
<1>1. IInv => LocalKept
  BY Zenon DEF IInv, LocalInv
<1> QED
  BY <1>1, PoolInitially, PoolStep, PTL DEF Spec

-------------------------------------------------------------------------------
(* The ledger, and what it guarantees its callers. *)

VARIABLES nonce, pend, next, saved

L == INSTANCE PoolLedger

LedgerTypeOK ==
  /\ nonce \in [Addr -> Nat]
  /\ pend \in [Addr -> SUBSET L!Entry]
  /\ next \in [Addr -> Nat]
  /\ hole \in SUBSET Addr

OneForANonce ==
  \A a \in Addr : \A m \in pend[a] : \A x \in pend[a] :
    x.nonce = m.nonce => x = m

SoundAt(a) ==
  /\ next[a] >= nonce[a]
  /\ next[a] \notin L!Taken(pend[a])
  /\ \A m \in pend[a] : m.nonce >= nonce[a]
  /\ a \notin hole => \A j \in nonce[a] .. next[a] - 1 : j \in L!Taken(pend[a])

LedgerInv == LedgerTypeOK /\ OneForANonce /\ L!LedgerSound

(* Elements of Taken(S) are the nonces of the messages in S. *)
LEMMA TakenFact ==
  ASSUME NEW S, NEW j
  PROVE  j \in L!Taken(S) <=> \E m \in S : m.nonce = j
BY Zenon DEF L!Taken

LEMMA LedgerInit == L!Init => LedgerInv
BY DEF L!Init, LedgerInv, LedgerTypeOK, OneForANonce, L!LedgerSound, L!Taken

(* The types and the uniqueness of nonces are part of every step. *)
LEMMA StepTyped ==
  ASSUME LedgerInv, L!Next
  PROVE  LedgerTypeOK' /\ OneForANonce'
<1>1. nonce' \in [Addr -> Nat]
  BY Zenon DEF LedgerInv, LedgerTypeOK, L!Next, L!Settle
<1>2. QED
  BY <1>1, Zenon DEF L!Next, L!Typed, LedgerTypeOK, OneForANonce

(* A sender whose messages are put together anew is sound. *)
LEMMA AfreshSound ==
  ASSUME NEW a \in Addr, LedgerTypeOK', L!Afresh(a),
         \A m \in pend'[a] : m.nonce >= nonce'[a]
  PROVE  SoundAt(a)'
BY Zenon DEF L!Afresh, L!FirstFree, SoundAt

(* A sender with a hole has only to have a usable nonce. *)
LEMMA UsableSound ==
  ASSUME NEW a \in Addr, LedgerTypeOK', L!Usable(a), a \in hole',
         \A m \in pend'[a] : m.nonce >= nonce'[a]
  PROVE  SoundAt(a)'
BY Zenon DEF L!Usable, SoundAt

(* Accepting a message, for its sender and for the others. *)
LEMMA AcceptSound ==
  ASSUME LedgerInv, LedgerTypeOK', UNCHANGED <<nonce, hole>>,
         NEW b \in Addr, NEW m \in pend'[b], L!Accept(m), NEW a \in Addr
  PROVE  SoundAt(a)'
<1> DEFINE s == m.from
           old == {x \in pend[s] : x.nonce = m.nonce}
<1>1. m \in L!Entry /\ s \in Addr /\ m.nonce \in Nat
  BY DEF LedgerTypeOK, L!Entry
<1>2. SoundAt(a)
  BY Zenon DEF LedgerInv, L!LedgerSound, SoundAt
<1>3. CASE a # s
  <2>1. pend'[a] = pend[a] /\ next'[a] = next[a]
    BY <1>1, <1>3, Zenon DEF L!Accept, LedgerInv, LedgerTypeOK
  <2>2. QED
    BY <2>1, <1>2, Zenon DEF SoundAt
<1>4. CASE a = s
  <2>1. pend'[a] = (pend[a] \ old) \cup {m}
    BY <1>1, <1>4, Zenon DEF L!Accept, LedgerInv, LedgerTypeOK
  <2>2. m.nonce >= nonce[a]
    BY <1>4, Zenon DEF L!Accept
  <2>3. \A x \in pend'[a] : x.nonce >= nonce'[a]
    BY <2>1, <2>2, <1>2, Zenon DEF SoundAt
  <2>4. \A j \in L!Taken(pend[a]) : j \in L!Taken(pend'[a])
    BY <2>1, <1>4, Zenon DEF L!Taken
  <2>5. \A j \in L!Taken(pend'[a]) : j = m.nonce \/ j \in L!Taken(pend[a])
    BY <2>1, Zenon DEF L!Taken
  <2>6. next[a] \in Nat /\ next'[a] \in Nat /\ nonce[a] \in Nat
    BY Zenon DEF LedgerInv, LedgerTypeOK
  <2>7. CASE m.nonce = next[a]
    <3>1. L!FirstFree(next'[a], pend'[a], next[a])
      BY <2>7, <1>4, Zenon DEF L!Accept
    <3>2. ASSUME a \notin hole', NEW j \in nonce'[a] .. next'[a] - 1
          PROVE  j \in L!Taken(pend'[a])
      <4>1. CASE j < next[a]
        BY <4>1, <2>4, <2>6, <3>2, <1>2 DEF SoundAt
      <4>2. CASE j >= next[a]
        BY <4>2, <3>1, <2>6 DEF L!FirstFree
      <4>3. QED
        BY <4>1, <4>2, <2>6
    <3>3. next'[a] >= nonce'[a] /\ next'[a] \notin L!Taken(pend'[a])
      BY <3>1, <2>6, <1>2 DEF L!FirstFree, SoundAt
    <3>4. QED
      BY <3>2, <3>3, <2>3, Zenon DEF SoundAt
  <2>8. CASE m.nonce # next[a]
    <3>1. next'[a] = next[a]
      BY <2>8, <1>4, Zenon DEF L!Accept
    <3>2. next'[a] \notin L!Taken(pend'[a])
      BY <3>1, <2>5, <2>8, <1>2, Zenon DEF SoundAt
    <3>3. QED
      BY <3>1, <3>2, <2>3, <2>4, <1>2, Zenon DEF SoundAt
  <2>9. QED
    BY <2>7, <2>8, Zenon
<1>5. QED
  BY <1>3, <1>4, Zenon
(* What is left of a sender's messages, and those given back, when the     *)
(* head changes.                                                           *)
LEMMA SettlePending ==
  ASSUME LedgerInv, LedgerTypeOK', NEW a \in Addr, L!SettleOne(a)
  PROVE  /\ \A m \in pend'[a] : m.nonce >= nonce'[a]
         /\ \A j \in L!Taken(pend[a]) : j >= nonce'[a] => j \in L!Taken(pend'[a])
<1>1. \A m \in pend[a] : m.nonce \in Nat
  BY DEF LedgerInv, LedgerTypeOK, L!Entry
<1>2. nonce[a] \in Nat /\ nonce'[a] \in Nat
  BY Zenon DEF LedgerInv, LedgerTypeOK
<1>3. \A m \in pend'[a] : m.nonce >= nonce'[a]
  <2> TAKE m \in pend'[a]
  <2>1. CASE m \in {x \in pend[a] : x.nonce >= nonce'[a]}
    BY <2>1, Zenon
  <2>2. CASE m \notin {x \in pend[a] : x.nonce >= nonce'[a]}
    <3>1. m.nonce \in nonce'[a] .. nonce[a] - 1
      BY <2>2, Zenon DEF L!SettleOne
    <3>2. QED
      BY <3>1, <1>2
  <2>3. QED
    BY <2>1, <2>2, Zenon
<1>4. {m \in pend[a] : m.nonce >= nonce'[a]} \subseteq pend'[a]
  BY Zenon DEF L!SettleOne
<1>5. \A j \in L!Taken(pend[a]) : j >= nonce'[a] => j \in L!Taken(pend'[a])
  BY <1>4, Zenon DEF L!Taken
<1>6. QED
  BY <1>3, <1>5, Zenon

(* The head changes, for any sender. *)
LEMMA SettleSound ==
  ASSUME LedgerInv, LedgerTypeOK', NEW a \in Addr, L!SettleOne(a)
  PROVE  SoundAt(a)'
<1> DEFINE n == nonce'[a]
           base == IF next[a] >= n THEN next[a] ELSE n
           whole == \A j \in n .. nonce[a] - 1 : j \in L!Taken(pend'[a])
<1>1. /\ \A m \in pend'[a] : m.nonce >= n
      /\ \A j \in L!Taken(pend[a]) : j >= n => j \in L!Taken(pend'[a])
  BY SettlePending, Zenon
<1>2. /\ nonce[a] \in Nat /\ n \in Nat
      /\ next[a] \in Nat /\ next'[a] \in Nat
  BY Zenon DEF LedgerInv, LedgerTypeOK
<1>3. CASE a \in hole'
  <2>1. L!Usable(a)
    BY <1>3, Zenon DEF L!SettleOne
  <2>2. QED
    BY <2>1, <1>3, <1>1, UsableSound, Zenon
<1>4. CASE L!Afresh(a)
  BY <1>4, <1>1, AfreshSound, Zenon
<1>5. CASE a \notin hole /\ whole /\ L!FirstFree(next'[a], pend'[a], base)
  <2>1. next'[a] >= n /\ next'[a] \notin L!Taken(pend'[a])
    BY <1>5, <1>2 DEF L!FirstFree
  <2>2. ASSUME NEW j \in n .. next'[a] - 1
        PROVE  j \in L!Taken(pend'[a])
    <3>1. CASE j >= base
      BY <3>1, <1>5, <1>2 DEF L!FirstFree
    <3>2. CASE j < base /\ j < nonce[a]
      BY <3>2, <1>5, <1>2
    <3>3. CASE j < base /\ j >= nonce[a]
      <4>1. j \in nonce[a] .. next[a] - 1
        BY <3>3, <1>2
      <4>2. j \in L!Taken(pend[a])
        BY <4>1, <1>5, Zenon DEF LedgerInv, L!LedgerSound
      <4>3. QED
        BY <4>2, <1>1, <1>2
    <3>4. QED
      BY <3>1, <3>2, <3>3, <1>2
  <2>3. QED
    BY <2>1, <2>2, <1>1, Zenon DEF SoundAt
<1>6. a \in hole' \/ L!Afresh(a)
        \/ (a \notin hole /\ whole /\ L!FirstFree(next'[a], pend'[a], base))
  BY Zenon DEF L!SettleOne
<1>7. QED
  BY <1>3, <1>4, <1>5, <1>6, Zenon

(* Messages are dropped, for any sender. *)
LEMMA DropSound ==
  ASSUME LedgerInv, LedgerTypeOK', UNCHANGED nonce, NEW a \in Addr, L!DropOne(a)
  PROVE  SoundAt(a)'
<1> DEFINE fallen == {m \in pend[a] \ pend'[a] : m.nonce < next[a]}
<1>1. SoundAt(a)
  BY Zenon DEF LedgerInv, L!LedgerSound, SoundAt
<1>2. pend'[a] \subseteq pend[a]
  BY Zenon DEF L!DropOne
<1>3. \A m \in pend'[a] : m.nonce >= nonce'[a]
  BY <1>1, <1>2, Zenon DEF SoundAt
<1>4. /\ nonce[a] \in Nat /\ next[a] \in Nat /\ next'[a] \in Nat
      /\ \A m \in pend[a] : m.nonce \in Nat
  BY DEF LedgerInv, LedgerTypeOK, L!Entry
<1>5. CASE a \in hole'
  <2>1. L!Usable(a)
    BY <1>5, Zenon DEF L!DropOne
  <2>2. QED
    BY <2>1, <1>5, <1>3, UsableSound, Zenon
<1>6. CASE a \notin hole' /\ a \in hole
  <2>1. L!Afresh(a)
    BY <1>6, Zenon DEF L!DropOne
  <2>2. QED
    BY <2>1, <1>3, AfreshSound, Zenon
<1>7. CASE a \notin hole /\ fallen = {}
  <2>1. next'[a] = next[a]
    BY <1>7, Zenon DEF L!DropOne
  <2>2. ASSUME NEW j \in nonce[a] .. next[a] - 1
        PROVE  j \in L!Taken(pend'[a])
    <3>1. PICK m \in pend[a] : m.nonce = j
      BY <1>1, <1>7, TakenFact, Zenon DEF SoundAt
    <3>2. m \in pend'[a]
      BY <3>1, <1>7, <1>4
    <3>3. QED
      BY <3>1, <3>2, TakenFact, Zenon
  <2>3. next'[a] \notin L!Taken(pend'[a])
    BY <2>1, <1>1, <1>2, Zenon DEF SoundAt, L!Taken
  <2>4. QED
    BY <2>1, <2>2, <2>3, <1>1, <1>3, Zenon DEF SoundAt
<1>8. CASE a \notin hole /\ a \notin hole' /\ fallen # {}
  <2>1. next'[a] \in L!Taken(fallen) /\ \A m \in fallen : m.nonce >= next'[a]
    BY <1>8, Zenon DEF L!DropOne
  <2>2. PICK d \in fallen : d.nonce = next'[a]
    BY <2>1, TakenFact, Zenon
  <2>3. next'[a] >= nonce'[a] /\ next'[a] < next[a]
    BY <2>2, <1>1, Zenon DEF SoundAt
  <2>4. next'[a] \notin L!Taken(pend'[a])
    <3>1. SUFFICES ASSUME NEW x \in pend'[a], x.nonce = next'[a]
                   PROVE  FALSE
      BY TakenFact, Zenon
    <3>2. x \in pend[a] /\ d \in pend[a] /\ d \notin pend'[a]
      BY <1>2, Zenon
    <3>3. x = d
      BY <3>1, <3>2, <2>2, Zenon DEF LedgerInv, OneForANonce
    <3>4. QED
      BY <3>2, <3>3, Zenon
  <2>5. ASSUME NEW j \in nonce[a] .. next'[a] - 1
        PROVE  j \in L!Taken(pend'[a])
    <3>1. j \in nonce[a] .. next[a] - 1 /\ j < next'[a]
      BY <2>3, <1>4
    <3>2. PICK m \in pend[a] : m.nonce = j
      BY <3>1, <1>1, <1>8, TakenFact, Zenon DEF SoundAt
    <3>3. m \in pend'[a]
      BY <3>1, <3>2, <2>1, <1>4
    <3>4. QED
      BY <3>2, <3>3, TakenFact, Zenon
  <2>6. QED
    BY <2>3, <2>4, <2>5, <1>3, Zenon DEF SoundAt
<1>9. QED
  BY <1>5, <1>6, <1>7, <1>8, Zenon

(* Every step of the ledger keeps it sound. *)
LEMMA LedgerStep ==
  ASSUME LedgerInv, [L!Next]_L!ledger
  PROVE  LedgerInv'
<1>1. CASE UNCHANGED L!ledger
  BY <1>1, Zenon DEF L!ledger, LedgerInv, LedgerTypeOK, OneForANonce, L!LedgerSound, L!Taken
<1>2. CASE L!Next
  <2>1. LedgerTypeOK' /\ OneForANonce'
    BY <1>2, StepTyped, Zenon
  <2>2. SUFFICES ASSUME NEW a \in Addr
                 PROVE  SoundAt(a)'
    BY <2>1, Zenon DEF LedgerInv, L!LedgerSound, SoundAt
  <2>3. CASE UNCHANGED nonce /\ L!Drop
    BY <2>1, <2>3, DropSound, Zenon DEF L!Drop
  <2>4. CASE UNCHANGED <<nonce, hole>> /\ \E b \in Addr : \E m \in pend'[b] : L!Accept(m)
    BY <2>1, <2>4, AcceptSound, Zenon
  <2>5. CASE L!Settle
    BY <2>1, <2>5, SettleSound, Zenon DEF L!Settle
  <2>6. CASE UNCHANGED nonce /\ L!Reload
    BY <2>1, <2>6, AfreshSound, Zenon DEF L!Reload
  <2>7. QED
    BY <1>2, <2>3, <2>4, <2>5, <2>6, Zenon DEF L!Next
<1>3. QED
  BY <1>1, <1>2, Zenon

(* GetNonce always gives a nonce the chain has not passed and no pending   *)
(* message has; nothing pending is behind the state; and, unless reverted  *)
(* messages were lost, every nonce below the one given is pending.         *)
THEOREM LedgerIsSound == L!Spec => []L!LedgerSound
<1>1. L!Init => LedgerInv
  BY LedgerInit, Zenon
<1>2. LedgerInv /\ [L!Next]_L!ledger => LedgerInv'
  BY LedgerStep, Zenon
<1>3. LedgerInv => L!LedgerSound
  BY Zenon DEF LedgerInv
<1>4. QED
  BY <1>1, <1>2, <1>3, PTL DEF L!Spec

===============================================================================
