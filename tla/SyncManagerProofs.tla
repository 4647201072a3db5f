------------------------- MODULE SyncManagerProofs -------------------------
(***************************************************************************)
(* Proofs about the sync manager for any tree of tipsets and any number of *)
(* peers, workers and synced tipsets: what is kept for later is found      *)
(* again, and a tipset is synced twice only after one was deferred.        *)
(***************************************************************************)
EXTENDS SyncManager, FiniteSetTheorems, TLAPS

----------------------------------------------------------------------------
(* Induction and recursion up to a bound. *)

(* A set of numbers that is not empty has a least element. *)
LEMMA MinOfSet ==
  ASSUME NEW S \in SUBSET Nat, S # {}
  PROVE  Min(S) \in S /\ \A y \in S : Min(S) <= y
<1> DEFINE R == OpToRel(<, Nat)
<1>1. IsWellFoundedOn(R, Nat)
  BY NatLessThanWellFounded, Zenon
<1>2. \A x, y \in Nat : <<x, y>> \in R <=> x < y
  BY Zenon DEF OpToRel
<1> HIDE DEF R
<1>3. PICK x \in S : \A y \in S : ~(<<y, x>> \in R)
  <2>1. S \subseteq Nat
    BY Zenon
  <2> QED
    BY <1>1, <2>1, WFMin, Zenon
<1>4. \A y \in S : x <= y
  <2> SUFFICES ASSUME NEW y \in S PROVE x <= y
    BY Zenon
  <2>1. x \in Nat /\ y \in Nat /\ ~(y < x)
    BY <1>2, <1>3, Zenon
  <2> QED
    BY <2>1
<1> QED
  BY <1>4, Zenon DEF Min

LEMMA UptoInduction ==
  ASSUME NEW N \in Nat, NEW T, 0 \in T,
         \A n \in 0 .. N - 1 : n \in T => n + 1 \in T
  PROVE  0 .. N \subseteq T
<1> DEFINE C == {n \in 0 .. N : n \notin T}
<1>1. SUFFICES ASSUME C # {} PROVE FALSE
  BY Zenon
<1>2. PICK x : x \in C /\ \A y \in C : x <= y
  <2>1. C \in SUBSET Nat
    OBVIOUS
  <2> HIDE DEF C
  <2> QED
    BY <1>1, <2>1, MinOfSet, Zenon
<1>3. x \in 1 .. N
  BY <1>2
<1>4. x - 1 \in 0 .. N - 1 /\ x - 1 \in 0 .. N /\ ~(x <= x - 1) /\ (x - 1) + 1 = x
  BY <1>3
<1>5. x - 1 \in T
  BY <1>2, <1>4, Zenon
<1> QED
  BY <1>2, <1>4, <1>5, Zenon

(* A loop of N turns over values in D, from b. *)
IsLoop(st, N, D) == st \in [0 .. N -> [D -> D]]

Runs(f, N, D, b, st) ==
  /\ f \in [0 .. N -> D]
  /\ f[0] = b
  /\ \A n \in 0 .. N - 1 : f[n + 1] = st[n][f[n]]

LEMMA LoopRuns ==
  ASSUME NEW N \in Nat, NEW D, NEW b \in D, NEW st, IsLoop(st, N, D)
  PROVE  \E f : Runs(f, N, D, b, st)
<1>0. st \in [0 .. N -> [D -> D]]
  BY Zenon DEF IsLoop
<1> DEFINE Upto(k, f) == f[0] = b /\ \A n \in 0 .. k - 1 : f[n + 1] = st[n][f[n]]
           T == {k \in 0 .. N : \E f \in [0 .. N -> D] : Upto(k, f)}
<1>1. 0 \in T
  <2> DEFINE f == [n \in 0 .. N |-> b]
  <2>1. f \in [0 .. N -> D] /\ f[0] = b
    OBVIOUS
  <2>2. \A n \in 0 .. 0 - 1 : FALSE
    OBVIOUS
  <2> HIDE DEF f
  <2> QED
    BY <2>1, <2>2
<1>2. ASSUME NEW k \in 0 .. N - 1, k \in T PROVE k + 1 \in T
  <2>1. PICK f \in [0 .. N -> D] : Upto(k, f)
    BY <1>2, Zenon
  <2> DEFINE h == [n \in 0 .. N |-> IF n = k + 1 THEN st[k][f[k]] ELSE f[n]]
  <2>2. h \in [0 .. N -> D]
    BY <1>0
  <2>3. h[0] = b
    BY <2>1
  <2>4. ASSUME NEW n \in 0 .. (k + 1) - 1 PROVE h[n + 1] = st[n][h[n]]
    BY <2>1
  <2> HIDE DEF h
  <2>5. Upto(k + 1, h) /\ k + 1 \in 0 .. N
    BY <2>3, <2>4
  <2> QED
    BY <2>2, <2>5, Zenon
<1> HIDE DEF T
<1>3. 0 .. N \subseteq T
  BY <1>1, <1>2, UptoInduction, Zenon
<1>4. N \in T
  BY <1>3
<1>5. PICK f \in [0 .. N -> D] : Upto(N, f)
  BY <1>4, Zenon DEF T
<1> QED
  BY <1>5, Zenon DEF Runs

----------------------------------------------------------------------------
(* Buckets. *)

(* Among finitely many indices one has the greatest weight. *)
LEMMA GreatestIndex ==
  ASSUME NEW N \in Nat, NEW w, \A i \in 1 .. N : w[i] \in Nat
  PROVE  \A I \in SUBSET (1 .. N) :
           I # {} => \E i \in I : \A j \in I : ~(w[j] > w[i])
<1> DEFINE Good(n) == \A I \in SUBSET (1 .. n) :
                        I # {} => \E i \in I : \A j \in I : ~(w[j] > w[i])
           T == {n \in 0 .. N : Good(n)}
<1>1. 0 \in T
  <2>1. 1 .. 0 = {}
    OBVIOUS
  <2>2. Good(0)
    BY <2>1, Zenon
  <2> QED
    BY <2>2
<1>2. ASSUME NEW n \in 0 .. N - 1, n \in T PROVE n + 1 \in T
  <2> SUFFICES ASSUME NEW I \in SUBSET (1 .. n + 1), I # {}
               PROVE  \E i \in I : \A j \in I : ~(w[j] > w[i])
    OBVIOUS
  <2> DEFINE J == I \ {n + 1}
  <2>1. J \in SUBSET (1 .. n) /\ \A i \in I : i = n + 1 \/ i \in J
    OBVIOUS
  <2>2. \A i \in I : w[i] \in Nat
    OBVIOUS
  <2>3. CASE J = {}
    <3>1. I = {n + 1}
      BY <2>1, <2>3, Zenon
    <3> QED
      BY <2>2, <3>1
  <2>4. CASE J # {}
    <3>1. PICK i \in J : \A j \in J : ~(w[j] > w[i])
      BY <1>2, <2>1, <2>4, Zenon
    <3>2. CASE n + 1 \in I /\ w[n + 1] > w[i]
      <4>1. \A j \in I : ~(w[j] > w[n + 1])
        BY <2>1, <2>2, <3>1, <3>2
      <4> QED
        BY <3>2, <4>1, Zenon
    <3>3. CASE ~(n + 1 \in I /\ w[n + 1] > w[i])
      BY <2>1, <3>1, <3>3, Zenon
    <3> QED
      BY <3>2, <3>3, Zenon
  <2> QED
    BY <2>3, <2>4, Zenon
<1> HIDE DEF T
<1>3. 0 .. N \subseteq T
  BY <1>1, <1>2, UptoInduction, Zenon
<1>4. N \in T
  BY <1>3
<1> QED
  BY <1>4, Zenon DEF T

(* The indices of the heaviest tipsets of a bucket. *)
Top(b) == {k \in DOMAIN b : \A i \in DOMAIN b : ~isHeavier(b[i], b[k])}

LEMMA HeaviestIsFirst ==
  ASSUME NEW b \in Bucket
  PROVE  /\ heaviestTipSet(b) = b[Min(Top(b))]
         /\ Min(Top(b)) \in Top(b) /\ \A k \in Top(b) : Min(Top(b)) <= k
<1>1. /\ Len(b) \in Nat \ {0} /\ DOMAIN b = 1 .. Len(b)
      /\ \A k \in 1 .. Len(b) : b[k] \in TipSet
  BY DEF Bucket
<1> DEFINE w == [k \in 1 .. Len(b) |-> ParentWeight[b[k]]]
<1>2. \A k \in 1 .. Len(b) : w[k] \in Nat
  BY <1>1, SyncAssumption, Zenon
<1>3. \A i, k \in 1 .. Len(b) : isHeavier(b[i], b[k]) <=> w[i] > w[k]
  BY Zenon DEF isHeavier
<1> HIDE DEF w
<1>4. Top(b) # {}
  <2>1. 1 .. Len(b) # {} /\ 1 .. Len(b) \in SUBSET (1 .. Len(b))
    BY <1>1
  <2>2. PICK k \in 1 .. Len(b) : \A j \in 1 .. Len(b) : ~(w[j] > w[k])
    BY <1>1, <1>2, <2>1, GreatestIndex, Zenon
  <2> QED
    BY <1>1, <1>3, <2>2, Zenon DEF Top
<1>5. Top(b) \in SUBSET Nat
  BY <1>1 DEF Top
<1>6. heaviestTipSet(b) = b[Min(Top(b))]
  BY <1>4, Zenon DEF heaviestTipSet, Top
<1> QED
  BY <1>4, <1>5, <1>6, MinOfSet, Zenon

(* The heaviest tipset of a bucket is one of its tipsets. *)
LEMMA HeaviestOfBucket ==
  ASSUME NEW b \in Bucket
  PROVE  /\ heaviestTipSet(b) \in TipSet
         /\ \E k \in DOMAIN b : heaviestTipSet(b) = b[k]
         /\ \A k \in DOMAIN b : ~isHeavier(b[k], heaviestTipSet(b))
<1>1. /\ DOMAIN b = 1 .. Len(b)
      /\ \A k \in 1 .. Len(b) : b[k] \in TipSet
  BY DEF Bucket
<1>2. heaviestTipSet(b) = b[Min(Top(b))] /\ Min(Top(b)) \in Top(b)
  BY HeaviestIsFirst, Zenon
<1> QED
  BY <1>1, <1>2, Zenon DEF Top

(* A tipset that joins a bucket changes its heaviest one only by being     *)
(* heavier.                                                                *)
LEMMA HeaviestOfAppend ==
  ASSUME NEW b \in Bucket, NEW ts \in TipSet, Append(b, ts) \in Bucket
  PROVE  LET g == heaviestTipSet(Append(b, ts)) IN
         g = heaviestTipSet(b) \/ isHeavier(g, heaviestTipSet(b))
<1> DEFINE n  == Len(b)
           a  == Append(b, ts)
           g  == heaviestTipSet(a)
           h  == heaviestTipSet(b)
           m  == Min(Top(b))
           m2 == Min(Top(a))
<1>1. /\ b \in Seq(TipSet) /\ n \in Nat /\ DOMAIN b = 1 .. n
      /\ \A k \in 1 .. n : b[k] \in TipSet
  BY DEF Bucket
<1>2. /\ Len(a) = n + 1 /\ DOMAIN a = 1 .. n + 1
      /\ \A k \in 1 .. n : a[k] = b[k]
      /\ \A k \in 1 .. n + 1 : a[k] \in TipSet
  BY <1>1
<1> HIDE DEF a, n
<1>3. /\ h = b[m] /\ m \in Top(b) /\ \A k \in Top(b) : m <= k
      /\ g = a[m2] /\ m2 \in Top(a) /\ \A k \in Top(a) : m2 <= k
  BY HeaviestIsFirst, Zenon DEF a
<1> HIDE DEF g, h, m, m2
<1>4. m \in 1 .. n /\ m2 \in 1 .. n + 1
  BY <1>2, <1>3 DEF Top, n
<1>5. /\ ParentWeight[g] \in Nat /\ ParentWeight[h] \in Nat
      /\ \A k \in 1 .. n + 1 : ParentWeight[a[k]] \in Nat
  BY <1>1, <1>2, <1>3, <1>4, SyncAssumption, ZenonT(120)
<1>6. \A k \in 1 .. n + 1 : ParentWeight[a[k]] <= ParentWeight[g]
  BY <1>2, <1>3, <1>4, <1>5 DEF Top, isHeavier
<1>7. SUFFICES ASSUME ~isHeavier(g, h) PROVE g = h
  BY Zenon DEF g, h, a
<1>8. ParentWeight[g] <= ParentWeight[h]
  BY <1>5, <1>7 DEF isHeavier
<1>9. m \in Top(a)
  <2>1. m \in 1 .. n + 1 /\ a[m] = h
    BY <1>1, <1>2, <1>3, <1>4
  <2>2. \A k \in 1 .. n + 1 : ~(ParentWeight[a[k]] > ParentWeight[h])
    BY <1>5, <1>6, <1>8
  <2> QED
    BY <1>2, <2>1, <2>2, Zenon DEF Top, isHeavier
<1>10. m2 \in 1 .. n
  BY <1>1, <1>3, <1>4, <1>9
<1>11. m2 \in Top(b)
  <2>1. b[m2] = g
    BY <1>2, <1>3, <1>10, Zenon
  <2>2. \A k \in 1 .. n : ~(ParentWeight[b[k]] > ParentWeight[g])
    <3> SUFFICES ASSUME NEW k \in 1 .. n
                 PROVE  ~(ParentWeight[b[k]] > ParentWeight[g])
      BY Zenon
    <3>1. k \in 1 .. n + 1 /\ a[k] = b[k]
      BY <1>1, <1>2
    <3> QED
      BY <1>5, <1>6, <3>1
  <2> QED
    BY <1>1, <1>10, <2>1, <2>2, Zenon DEF Top, isHeavier, n
<1>12. m2 = m
  BY <1>3, <1>4, <1>9, <1>11
<1> QED
  BY <1>2, <1>3, <1>10, <1>12, Zenon

(* The best of some buckets is one of them, and no other one is heavier. *)
LEMMA BestOfBuckets ==
  ASSUME NEW bs \in Seq(Bucket), NEW I \in SUBSET DOMAIN bs, I # {}
  PROVE  /\ BestOf(bs, I) \in I
         /\ \A j \in I : ~isHeavier(heaviestTipSet(bs[j]),
                                    heaviestTipSet(bs[BestOf(bs, I)]))
<1>1. /\ Len(bs) \in Nat /\ DOMAIN bs = 1 .. Len(bs)
      /\ \A k \in 1 .. Len(bs) : bs[k] \in Bucket
  OBVIOUS
<1> DEFINE w == [k \in 1 .. Len(bs) |-> ParentWeight[heaviestTipSet(bs[k])]]
           S == {i \in I : \A j \in I : ~isHeavier(heaviestTipSet(bs[j]),
                                                   heaviestTipSet(bs[i]))}
<1>2. \A k \in 1 .. Len(bs) : w[k] \in Nat
  BY <1>1, SyncAssumption, HeaviestOfBucket, Zenon
<1>3. \A i, j \in 1 .. Len(bs) :
        isHeavier(heaviestTipSet(bs[j]), heaviestTipSet(bs[i])) <=> w[j] > w[i]
  BY Zenon DEF isHeavier
<1> HIDE DEF w
<1>4. S # {}
  <2>1. PICK k \in I : \A j \in I : ~(w[j] > w[k])
    BY <1>1, <1>2, GreatestIndex, Zenon
  <2> QED
    BY <1>1, <1>3, <2>1, Zenon
<1>5. S \in SUBSET Nat
  BY <1>1
<1>6. BestOf(bs, I) = Min(S)
  BY Zenon DEF BestOf
<1>7. Min(S) \in S
  BY <1>4, <1>5, MinOfSet, Zenon
<1> QED
  BY <1>6, <1>7, Zenon

(* Insert adds to a bucket of the same chain, or makes a new one. *)
LEMMA InsertIs ==
  ASSUME NEW bs \in Seq(Bucket), NEW ts \in TipSet
  PROVE  \/ /\ \A i \in DOMAIN bs : ~sameChainAs(bs[i], ts)
            /\ Insert(bs, ts) = Append(bs, <<ts>>)
         \/ \E i \in DOMAIN bs :
              /\ sameChainAs(bs[i], ts)
              /\ Insert(bs, ts) = [bs EXCEPT ![i] = addTo(bs[i], ts)]
<1> DEFINE S == {i \in DOMAIN bs : sameChainAs(bs[i], ts)}
<1>1. S \in SUBSET Nat
  OBVIOUS
<1>2. CASE S = {}
  BY <1>2, Zenon DEF Insert, Related
<1>3. CASE S # {}
  <2>1. Min(S) \in S
    BY <1>1, <1>3, MinOfSet, Zenon
  <2> DEFINE i == Min(S)
  <2>2. i \in DOMAIN bs /\ sameChainAs(bs[i], ts)
    BY <2>1, Zenon
  <2>3. Insert(bs, ts) = [bs EXCEPT ![i] = addTo(bs[i], ts)]
    BY <1>3, Zenon DEF Insert, Related
  <2> QED
    BY <2>2, <2>3, Zenon
<1> QED
  BY <1>2, <1>3, Zenon

LEMMA AddToIs ==
  ASSUME NEW b \in Bucket, NEW ts \in TipSet
  PROVE  /\ addTo(b, ts) \in Bucket
         /\ \/ addTo(b, ts) = b /\ \E k \in DOMAIN b : b[k] = ts
            \/ addTo(b, ts) = Append(b, ts) /\ \A k \in DOMAIN b : b[k] # ts
<1>1. b \in Seq(TipSet) /\ b # <<>>
  BY Zenon DEF Bucket
<1>2. Append(b, ts) \in Seq(TipSet) /\ Append(b, ts) # <<>>
  BY <1>1
<1> QED
  BY <1>1, <1>2, Zenon DEF addTo, Range, Bucket

(* The tipsets in some buckets. *)
Held(bs) == UNION {Range(bs[i]) : i \in DOMAIN bs}

(* Insert keeps what is there, in its bucket, and holds the new tipset. *)
LEMMA InsertKeeps ==
  ASSUME NEW bs \in Seq(Bucket), NEW ts \in TipSet
  PROVE  LET res == Insert(bs, ts) IN
         /\ res \in Seq(Bucket)
         /\ DOMAIN bs \subseteq DOMAIN res
         /\ \A i \in DOMAIN bs : Range(bs[i]) \subseteq Range(res[i])
         /\ \A i \in DOMAIN res \ DOMAIN bs :
              /\ res[i] = <<ts>>
              /\ \A j \in DOMAIN bs : ~sameChainAs(bs[j], ts)
         /\ ts \in Held(res)
<1> DEFINE res == Insert(bs, ts)
<1>1. /\ Len(bs) \in Nat /\ DOMAIN bs = 1 .. Len(bs)
      /\ \A k \in 1 .. Len(bs) : bs[k] \in Bucket
  OBVIOUS
<1>2. CASE /\ \A i \in DOMAIN bs : ~sameChainAs(bs[i], ts)
           /\ res = Append(bs, <<ts>>)
  <2>1. <<ts>> \in Bucket
    BY DEF Bucket
  <2>2. PICK b \in Bucket : b = <<ts>>
    BY <2>1, Zenon
  <2>3. /\ res \in Seq(Bucket) /\ DOMAIN res = 1 .. Len(bs) + 1
        /\ res[Len(bs) + 1] = b /\ \A i \in 1 .. Len(bs) : res[i] = bs[i]
    BY <1>1, <1>2, <2>2
  <2>4. ts \in Range(b)
    <3>1. 1 \in DOMAIN b /\ b[1] = ts
      BY <2>2
    <3> QED
      BY <3>1, Zenon DEF Range
  <2> HIDE DEF res
  <2>5. Len(bs) + 1 \in DOMAIN res
    BY <1>1, <2>3
  <2>6. ts \in Held(res)
    BY <2>3, <2>4, <2>5, Zenon DEF Held
  <2>7. \A i \in DOMAIN res \ DOMAIN bs : i = Len(bs) + 1
    BY <1>1, <2>3
  <2> QED
    BY <1>1, <1>2, <2>2, <2>3, <2>6, <2>7 DEF res
<1>3. ASSUME NEW i \in DOMAIN bs, sameChainAs(bs[i], ts),
             res = [bs EXCEPT ![i] = addTo(bs[i], ts)]
      PROVE  /\ res \in Seq(Bucket) /\ DOMAIN res = DOMAIN bs
             /\ \A j \in DOMAIN bs : Range(bs[j]) \subseteq Range(res[j])
             /\ ts \in Held(res)
  <2>1. bs[i] \in Bucket
    BY <1>1, Zenon
  <2> DEFINE b == bs[i]
             c == addTo(b, ts)
  <2>2. c \in Bucket /\ Range(b) \subseteq Range(c) /\ ts \in Range(c)
    <3>1. b \in Seq(TipSet) /\ b \in Bucket /\ c \in Bucket
      BY <2>1, AddToIs, Zenon DEF Bucket
    <3> HIDE DEF b, c
    <3>2. CASE c = b /\ \E k \in DOMAIN b : b[k] = ts
      BY <3>1, <3>2, Zenon DEF Range
    <3>3. CASE c = Append(b, ts)
      <4>1. /\ DOMAIN c = 1 .. Len(b) + 1 /\ Len(b) \in Nat /\ c[Len(b) + 1] = ts
            /\ DOMAIN b = 1 .. Len(b) /\ \A k \in 1 .. Len(b) : c[k] = b[k]
        BY <3>1, <3>3
      <4>2. Len(b) + 1 \in DOMAIN c /\ DOMAIN b \subseteq DOMAIN c
        BY <4>1
      <4> QED
        BY <3>1, <4>1, <4>2, Zenon DEF Range
    <3> QED
      BY <3>1, <3>2, <3>3, AddToIs, Zenon DEF c
  <2> HIDE DEF c
  <2>3. /\ res \in Seq(Bucket) /\ DOMAIN res = DOMAIN bs /\ res[i] = c
        /\ \A j \in DOMAIN bs \ {i} : res[j] = bs[j]
    BY <1>1, <1>3, <2>2 DEF c
  <2> HIDE DEF res
  <2> QED
    BY <2>2, <2>3 DEF Held
<1> QED
  BY <1>2, <1>3, InsertIs, Zenon

(* res is made of the first n buckets that are not of the chain of ts. *)
Selection(m, res, n, bs, ts) ==
  /\ m \in [1 .. Len(res) -> 1 .. n]
  /\ \A k \in 1 .. Len(res) : res[k] = bs[m[k]] /\ ~sameChainAs(bs[m[k]], ts)
  /\ \A j, k \in 1 .. Len(res) : j # k => m[j] # m[k]

LEMMA SelectionGrows ==
  ASSUME NEW bs, NEW ts, NEW n \in Nat, NEW res \in Seq(Bucket), NEW m,
         Selection(m, res, n, bs, ts), bs[n + 1] \in Bucket
  PROVE  /\ \E m2 : Selection(m2, res, n + 1, bs, ts)
         /\ ~sameChainAs(bs[n + 1], ts)
              => \E m2 : Selection(m2, Append(res, bs[n + 1]), n + 1, bs, ts)
<1>1. Len(res) \in Nat
  OBVIOUS
<1>2. /\ m \in [1 .. Len(res) -> 1 .. n]
      /\ \A k \in 1 .. Len(res) : res[k] = bs[m[k]] /\ ~sameChainAs(bs[m[k]], ts)
      /\ \A j, k \in 1 .. Len(res) : j # k => m[j] # m[k]
  BY Zenon DEF Selection
<1>3. Selection(m, res, n + 1, bs, ts)
  <2>1. m \in [1 .. Len(res) -> 1 .. n + 1]
    BY <1>2
  <2> QED
    BY <1>2, <2>1, Zenon DEF Selection
<1>4. ASSUME ~sameChainAs(bs[n + 1], ts)
      PROVE  \E m2 : Selection(m2, Append(res, bs[n + 1]), n + 1, bs, ts)
  <2> DEFINE l   == Len(res)
             out == Append(res, bs[n + 1])
             m2  == [k \in 1 .. l + 1 |-> IF k = l + 1 THEN n + 1 ELSE m[k]]
  <2>1. /\ Len(out) = l + 1 /\ out[l + 1] = bs[n + 1]
        /\ \A k \in 1 .. l : out[k] = res[k]
    BY <1>1
  <2>2. m2 \in [1 .. l + 1 -> 1 .. n + 1]
    BY <1>1, <1>2
  <2>3. m2[l + 1] = n + 1 /\ \A k \in 1 .. l : m2[k] = m[k] /\ m[k] \in 1 .. n
    BY <1>1, <1>2
  <2> HIDE DEF out, m2, l
  <2>4. ASSUME NEW k \in 1 .. l + 1
        PROVE  out[k] = bs[m2[k]] /\ ~sameChainAs(bs[m2[k]], ts)
    <3>1. CASE k = l + 1
      BY <1>4, <2>1, <2>3, <3>1, Zenon
    <3>2. CASE k \in 1 .. l
      <4>1. res[k] = bs[m[k]] /\ ~sameChainAs(bs[m[k]], ts)
        BY <1>2, <3>2, Zenon DEF l
      <4> QED
        BY <2>1, <2>3, <3>2, <4>1, Zenon
    <3> QED
      BY <1>1, <3>1, <3>2 DEF l
  <2>5. ASSUME NEW j \in 1 .. l + 1, NEW k \in 1 .. l + 1, j # k
        PROVE  m2[j] # m2[k]
    <3>1. CASE j \in 1 .. l /\ k \in 1 .. l
      BY <1>2, <2>3, <2>5, <3>1, Zenon DEF l
    <3>2. CASE j = l + 1 \/ k = l + 1
      BY <1>1, <2>3, <2>5, <3>2 DEF l
    <3> QED
      BY <1>1, <3>1, <3>2 DEF l
  <2>6. Selection(m2, out, n + 1, bs, ts)
    BY <2>1, <2>2, <2>4, <2>5, Zenon DEF Selection
  <2> QED
    BY <2>6, Zenon DEF out
<1> QED
  BY <1>3, <1>4, Zenon

(* What PopRelated leaves. *)
LEMMA UnrelatedIs ==
  ASSUME NEW bs \in Seq(Bucket), NEW ts
  PROVE  /\ Unrelated(bs, ts) \in Seq(Bucket)
         /\ \E m : Selection(m, Unrelated(bs, ts), Len(bs), bs, ts)
<1> DEFINE N  == Len(bs)
           D  == Seq(Bucket)
           st == [n \in 0 .. N |-> [s \in D |->
                    IF n = N \/ sameChainAs(bs[n + 1], ts) THEN s
                    ELSE Append(s, bs[n + 1])]]
<1>1. N \in Nat /\ \A n \in 0 .. N - 1 : bs[n + 1] \in Bucket
  OBVIOUS
<1>2. IsLoop(st, N, D)
  <2>1. ASSUME NEW n \in 0 .. N, NEW s \in D, n # N
        PROVE  Append(s, bs[n + 1]) \in D
    <3>1. n \in 0 .. N - 1
      BY <1>1, <2>1
    <3> QED
      BY <1>1, <3>1
  <2> QED
    BY <2>1, Zenon DEF IsLoop
<1>3. \A n \in 0 .. N - 1, s \in D :
        st[n][s] = IF sameChainAs(bs[n + 1], ts) THEN s ELSE Append(s, bs[n + 1])
  BY <1>1
<1>0. <<>> \in D
  OBVIOUS
<1>4. PICK b : b \in D /\ b = <<>>
  BY <1>0, Zenon
<1> HIDE DEF st, N, D
<1>5. PICK f : Runs(f, N, D, b, st)
  BY <1>1, <1>2, <1>4, LoopRuns, Zenon
<1>6. /\ f \in [0 .. N -> D] /\ f[0] = <<>>
      /\ \A n \in 0 .. N - 1 :
           f[n + 1] = IF sameChainAs(bs[n + 1], ts) THEN f[n]
                      ELSE Append(f[n], bs[n + 1])
  <2>1. f \in [0 .. N -> D] /\ f[0] = b
    BY <1>5, Zenon DEF Runs
  <2>2. ASSUME NEW n \in 0 .. N - 1
        PROVE  f[n + 1] = IF sameChainAs(bs[n + 1], ts) THEN f[n]
                          ELSE Append(f[n], bs[n + 1])
    <3>1. f[n + 1] = st[n][f[n]]
      BY <1>5, Zenon DEF Runs
    <3>2. f[n] \in D
      BY <1>1, <2>1
    <3> QED
      BY <1>3, <3>1, <3>2, Zenon
  <2> QED
    BY <1>4, <2>1, <2>2, Zenon
<1> DEFINE Eq(l) == l = [i \in 0 .. N |->
                           IF i = 0 THEN <<>>
                           ELSE IF sameChainAs(bs[i], ts) THEN l[i - 1]
                           ELSE Append(l[i - 1], bs[i])]
<1>7. Eq(f)
  <2>1. ASSUME NEW i \in 0 .. N, i # 0
        PROVE  f[i] = IF sameChainAs(bs[i], ts) THEN f[i - 1]
                      ELSE Append(f[i - 1], bs[i])
    <3>1. i - 1 \in 0 .. N - 1 /\ (i - 1) + 1 = i
      BY <1>1, <2>1
    <3> QED
      BY <1>6, <3>1, Zenon
  <2> QED
    BY <1>6, <2>1, Zenon
<1>8. PICK l : Eq(l) /\ Unrelated(bs, ts) = l[N]
  BY <1>7, Zenon DEF Unrelated, N
<1> DEFINE T == {n \in 0 .. N : /\ l[n] \in D
                                /\ \E m : Selection(m, l[n], n, bs, ts)}
<1>9. 0 \in T
  <2>1. l[0] = <<>>
    BY <1>1, <1>8
  <2> DEFINE m == [k \in 1 .. 0 |-> 0]
  <2>2. Len(<<>>) = 0 /\ 1 .. 0 = {}
    OBVIOUS
  <2>3. Selection(m, <<>>, 0, bs, ts)
    BY <2>2, Zenon DEF Selection
  <2> QED
    BY <1>1, <1>4, <2>1, <2>3
<1>10. ASSUME NEW n \in 0 .. N - 1, n \in T PROVE n + 1 \in T
  <2>1. /\ n + 1 \in 0 .. N /\ n \in Nat /\ bs[n + 1] \in Bucket
        /\ n + 1 # 0 /\ (n + 1) - 1 = n
    BY <1>1
  <2>2. l[n + 1] = IF sameChainAs(bs[n + 1], ts) THEN l[n]
                   ELSE Append(l[n], bs[n + 1])
    BY <1>8, <2>1, Zenon
  <2>3. l[n] \in D
    BY <1>10, Zenon
  <2>4. PICK m : Selection(m, l[n], n, bs, ts)
    BY <1>10, Zenon
  <2>5. /\ \E m2 : Selection(m2, l[n], n + 1, bs, ts)
        /\ ~sameChainAs(bs[n + 1], ts)
             => \E m2 : Selection(m2, Append(l[n], bs[n + 1]), n + 1, bs, ts)
    BY <2>1, <2>3, <2>4, SelectionGrows, Zenon DEF D
  <2>6. l[n + 1] \in D
    BY <2>1, <2>2, <2>3 DEF D
  <2> QED
    BY <2>1, <2>2, <2>5, <2>6, Zenon
<1> HIDE DEF T
<1>11. 0 .. N \subseteq T
  BY <1>1, <1>9, <1>10, UptoInduction, Zenon
<1>12. N \in T
  BY <1>1, <1>11
<1> QED
  BY <1>8, <1>12, Zenon DEF T, D, N

(* Pop takes one bucket and leaves the others. *)
LEMMA RemoveBucketIs ==
  ASSUME NEW bs \in Seq(Bucket), NEW i \in DOMAIN bs
  PROVE  /\ removeBucket(bs, i) \in Seq(Bucket)
         /\ Len(removeBucket(bs, i)) = Len(bs) - 1
         /\ \A j \in DOMAIN bs : j # i => \E k \in DOMAIN removeBucket(bs, i) :
              removeBucket(bs, i)[k] = bs[j]
<1> DEFINE n == Len(bs)
           e == removeBucket(bs, i)
<1>1. /\ n \in Nat /\ i \in 1 .. n /\ DOMAIN bs = 1 .. n
      /\ \A j \in 1 .. n : bs[j] \in Bucket
  OBVIOUS
<1>2. e = [k \in 1 .. n - 1 |-> IF k < i THEN bs[k] ELSE bs[k + 1]]
  BY Zenon DEF removeBucket
<1> HIDE DEF n, e
<1>3. /\ n - 1 \in Nat /\ DOMAIN e = 1 .. n - 1
      /\ \A k \in 1 .. n - 1 : e[k] \in Bucket
  BY <1>1, <1>2
<1>4. e \in Seq(Bucket) /\ Len(e) = n - 1
  BY <1>2, <1>3
<1>5. ASSUME NEW j \in 1 .. n, j # i
      PROVE  \E k \in 1 .. n - 1 : e[k] = bs[j]
  <2>1. CASE j < i
    <3>1. j \in 1 .. n - 1 /\ e[j] = bs[j]
      BY <1>1, <1>2, <2>1
    <3> QED
      BY <3>1, Zenon
  <2>2. CASE j > i
    <3>1. j - 1 \in 1 .. n - 1 /\ e[j - 1] = bs[j]
      BY <1>1, <1>2, <2>2
    <3> QED
      BY <3>1, Zenon
  <2> QED
    BY <1>1, <1>5, <2>1, <2>2
<1> QED
  BY <1>1, <1>3, <1>4, <1>5, Zenon DEF n, e

----------------------------------------------------------------------------
(* Workers. *)

(* A worker more. *)
LEMMA SpawnCounts ==
  ASSUME NEW s \in [TipSet -> Nat], NEW t \in TipSet, IsFiniteSet(WorkersOf(s))
  PROVE  /\ spawnWorker(s, t) \in [TipSet -> Nat]
         /\ Active(spawnWorker(s, t)) = Active(s) \cup {t}
         /\ IsFiniteSet(WorkersOf(spawnWorker(s, t)))
         /\ Workers(spawnWorker(s, t)) = Workers(s) + 1
<1> DEFINE s2 == spawnWorker(s, t)
           w  == <<t, s[t] + 1>>
<1>1. /\ s2 \in [TipSet -> Nat] /\ s2[t] = s[t] + 1
      /\ \A u \in TipSet : u # t => s2[u] = s[u]
  BY DEF spawnWorker
<1> HIDE DEF s2
<1>2. Active(s2) = Active(s) \cup {t}
  BY <1>1 DEF Active
<1>3. WorkersOf(s2) = WorkersOf(s) \cup {w}
  <2>1. 1 .. s[t] + 1 = (1 .. s[t]) \cup {s[t] + 1}
    OBVIOUS
  <2>2. \A u \in TipSet : {u} \X (1 .. s2[u])
          = IF u = t THEN ({u} \X (1 .. s[u])) \cup {w} ELSE {u} \X (1 .. s[u])
    BY <1>1, <2>1
  <2> QED
    BY <2>2 DEF WorkersOf
<1>4. w \notin WorkersOf(s)
  <2>1. s[t] + 1 \notin 1 .. s[t]
    OBVIOUS
  <2> QED
    BY <2>1 DEF WorkersOf
<1>5. /\ IsFiniteSet(WorkersOf(s2))
      /\ Cardinality(WorkersOf(s2)) = Cardinality(WorkersOf(s)) + 1
  BY <1>3, <1>4, FS_AddElement, Zenon
<1> QED
  BY <1>1, <1>2, <1>5, Zenon DEF Workers, s2

(* A worker less. *)
LEMMA EndCounts ==
  ASSUME NEW s \in [TipSet -> Nat], NEW t \in TipSet, IsFiniteSet(WorkersOf(s)),
         s[t] > 0
  PROVE  LET s2 == [s EXCEPT ![t] = @ - 1] IN
         /\ s2 \in [TipSet -> Nat]
         /\ s2[t] = s[t] - 1 /\ \A u \in TipSet : u # t => s2[u] = s[u]
         /\ Active(s) = Active(s2) \cup {t}
         /\ IsFiniteSet(WorkersOf(s2))
         /\ Workers(s2) = Workers(s) - 1 /\ Workers(s) \in Nat \ {0}
<1> DEFINE s2 == [s EXCEPT ![t] = @ - 1]
           w  == <<t, s[t]>>
<1>1. /\ s2 \in [TipSet -> Nat] /\ s2[t] = s[t] - 1
      /\ \A u \in TipSet : u # t => s2[u] = s[u]
  OBVIOUS
<1> HIDE DEF s2
<1>2. Active(s) = Active(s2) \cup {t}
  BY <1>1, Zenon DEF Active
<1>3. WorkersOf(s2) = WorkersOf(s) \ {w}
  <2>1. 1 .. s[t] - 1 = (1 .. s[t]) \ {s[t]}
    OBVIOUS
  <2>2. \A u \in TipSet : {u} \X (1 .. s2[u])
          = IF u = t THEN ({u} \X (1 .. s[u])) \ {w} ELSE {u} \X (1 .. s[u])
    BY <1>1, <2>1
  <2> QED
    BY <2>2 DEF WorkersOf
<1>4. w \in WorkersOf(s)
  <2>1. s[t] \in 1 .. s[t]
    OBVIOUS
  <2> QED
    BY <2>1 DEF WorkersOf
<1>5. /\ IsFiniteSet(WorkersOf(s2))
      /\ Cardinality(WorkersOf(s2)) = Cardinality(WorkersOf(s)) - 1
  BY <1>3, <1>4, FS_RemoveElement, Zenon
<1>6. Cardinality(WorkersOf(s)) \in Nat /\ Cardinality(WorkersOf(s2)) \in Nat
  BY <1>5, FS_CardinalityType, Zenon
<1> QED
  BY <1>1, <1>2, <1>5, <1>6 DEF Workers, s2

(* No worker, no work. *)
LEMMA NoWorkers ==
  ASSUME NEW s \in [TipSet -> Nat], IsFiniteSet(WorkersOf(s))
  PROVE  /\ Workers(s) \in Nat
         /\ Active(s) = {} <=> Workers(s) = 0
<1>1. Cardinality(WorkersOf(s)) \in Nat
  BY FS_CardinalityType, Zenon
<1>2. Cardinality(WorkersOf(s)) = 0 <=> WorkersOf(s) = {}
  BY FS_EmptySet, Zenon
<1>3. ASSUME Active(s) = {} PROVE WorkersOf(s) = {}
  <2>1. \A u \in TipSet : 1 .. s[u] = {}
    BY <1>3 DEF Active
  <2> QED
    BY <2>1 DEF WorkersOf
<1>4. ASSUME NEW t \in Active(s) PROVE <<t, 1>> \in WorkersOf(s)
  <2>1. t \in TipSet /\ 1 \in 1 .. s[t]
    BY <1>4 DEF Active
  <2> QED
    BY <2>1 DEF WorkersOf
<1> QED
  BY <1>1, <1>2, <1>3, <1>4, Zenon DEF Workers

----------------------------------------------------------------------------
(* The loop over the deferred targets. *)

Outcome == [over : BOOLEAN, target : TipSet \cup {NONE}, q : QueueType]

(* What popDeferred takes. *)
Popped(q)     == heaviestTipSet(q.deferred[Best(q.deferred)])
Without(q)    == [q EXCEPT !.deferred = removeBucket(q.deferred, Best(q.deferred))]
Keeping(q, h) == [q EXCEPT !.pend = Insert(q.pend, h)]

LEMMA PopDeferredCases ==
  ASSUME NEW q \in QueueType, NEW r, NEW o \in popDeferred(q, r)
  PROVE  \/ q.deferred = <<>> /\ o = Over(NONE, q)
         \/ /\ q.deferred # <<>> /\ o = GoesOn(Without(q))
            /\ \/ Synced(r, Popped(q)) \/ Active(q.state) = {}
               \/ \E w \in Active(q.state) : w = Popped(q) \/ isHeavier(w, Popped(q))
         \/ /\ q.deferred # <<>> /\ o = GoesOn(Keeping(Without(q), Popped(q)))
            /\ RelatedToAny(q.pend, Popped(q)) \/ Parents[Popped(q)] \in Active(q.state)
         \/ /\ q.deferred # <<>> /\ o = Over(Popped(q), Without(q))
            /\ Active(q.state) # {}
<1> DEFINE h    == Popped(q)
           rest == Without(q)
           Skip == GoesOn(rest)
           Conv == GoesOn(Keeping(rest, h))
<1>1. popDeferred(q, r) =
        CASE q.deferred = <<>> -> {Over(NONE, q)}
          [] q.deferred # <<>> /\ Synced(r, h) -> {Skip}
          [] q.deferred # <<>> /\ ~Synced(r, h) /\ RelatedToAny(q.pend, h) -> {Conv}
          [] OTHER ->
               IF Active(q.state) = {} THEN {Skip}
               ELSE {CASE w = h \/ isHeavier(w, h) -> Skip
                       [] w # h /\ ~isHeavier(w, h) /\ Parents[h] = w -> Conv
                       [] OTHER -> Over(h, rest) :
                     w \in Active(q.state)}
  BY Zenon DEF popDeferred, Popped, Without, Keeping
<1> HIDE DEF h, rest, Skip, Conv
<1>2. \/ q.deferred = <<>> /\ o = Over(NONE, q)
      \/ q.deferred # <<>> /\ o = Skip /\ (Synced(r, h) \/ Active(q.state) = {})
      \/ q.deferred # <<>> /\ o = Conv /\ RelatedToAny(q.pend, h)
      \/ /\ q.deferred # <<>>
         /\ \E w \in Active(q.state) :
              o = CASE w = h \/ isHeavier(w, h) -> Skip
                    [] w # h /\ ~isHeavier(w, h) /\ Parents[h] = w -> Conv
                    [] OTHER -> Over(h, rest)
  BY <1>1, Zenon
<1>3. ASSUME NEW w \in Active(q.state),
             o = CASE w = h \/ isHeavier(w, h) -> Skip
                   [] w # h /\ ~isHeavier(w, h) /\ Parents[h] = w -> Conv
                   [] OTHER -> Over(h, rest)
      PROVE  \/ o = Skip /\ (w = h \/ isHeavier(w, h))
             \/ o = Conv /\ Parents[h] \in Active(q.state)
             \/ o = Over(h, rest) /\ Active(q.state) # {}
  BY <1>3, Zenon
<1> QED
  BY <1>2, <1>3, Zenon DEF h, rest, Skip, Conv

(* selectSyncTarget will find every bucket of pend. *)
Sound(q) ==
  /\ q \in QueueType
  /\ \A i \in DOMAIN q.pend :
       \E t \in Range(q.pend[i]) : Parents[t] \in Active(q.state)

(* What became of the deferred target t when the loop went from q to o. *)
Seen(q, r, o, t) ==
  \/ t \in Targets(o.q.deferred) \/ t \in Held(o.q.pend) \/ t = o.target
  \/ Active(q.state) = {}
  \/ \E u \in Active(q.state) \cup Range(r) : u = t \/ isHeavier(u, t)

(* What the loop over the deferred targets does, from q. *)
Reaches(q, r, o) ==
  /\ o \in Outcome /\ Sound(o.q)
  /\ o.q.state = q.state /\ Len(o.q.deferred) <= Len(q.deferred)
  /\ ~o.over => o.target = NONE
  /\ o.over => \/ o.target = NONE /\ o.q.deferred = <<>>
               \/ o.target # NONE /\ Active(q.state) # {}
  /\ q.deferred = <<>> => o.target = NONE /\ o.q = q
  /\ Held(q.pend) \subseteq Held(o.q.pend)
  /\ \A t \in Targets(q.deferred) : Seen(q, r, o, t)

(* A tipset of a chain of pend, or a child of one being synced, is kept    *)
(* where selectSyncTarget will find it.                                    *)
LEMMA KeepingIsSound ==
  ASSUME NEW q, Sound(q), NEW h \in TipSet,
         RelatedToAny(q.pend, h) \/ Parents[h] \in Active(q.state)
  PROVE  /\ Sound(Keeping(q, h))
         /\ Keeping(q, h).state = q.state /\ Keeping(q, h).deferred = q.deferred
         /\ Held(q.pend) \cup {h} \subseteq Held(Keeping(q, h).pend)
<1> DEFINE p == q.pend
           k == Insert(p, h)
<1>1. q \in QueueType /\ p \in Seq(Bucket)
  BY Zenon DEF Sound, QueueType
<1>2. /\ k \in Seq(Bucket) /\ DOMAIN p \subseteq DOMAIN k
      /\ \A i \in DOMAIN p : Range(p[i]) \subseteq Range(k[i])
      /\ \A i \in DOMAIN k \ DOMAIN p :
           k[i] = <<h>> /\ \A j \in DOMAIN p : ~sameChainAs(p[j], h)
      /\ h \in Held(k)
  BY <1>1, InsertKeeps, Zenon
<1> HIDE DEF k
<1>3. /\ Keeping(q, h) \in QueueType /\ Keeping(q, h).pend = k
      /\ Keeping(q, h).state = q.state /\ Keeping(q, h).deferred = q.deferred
  BY <1>1, <1>2, Zenon DEF QueueType, Keeping, k
<1>4. ASSUME NEW i \in DOMAIN k
      PROVE  \E t \in Range(k[i]) : Parents[t] \in Active(q.state)
  <2>1. CASE i \in DOMAIN p
    BY <1>2, <2>1, Zenon DEF Sound
  <2>2. CASE i \notin DOMAIN p
    <3>1. k[i] = <<h>> /\ ~RelatedToAny(p, h)
      BY <1>2, <1>4, <2>2, Zenon DEF RelatedToAny
    <3>2. h \in Range(<<h>>)
      BY DEF Range
    <3> QED
      BY <3>1, <3>2, Zenon
  <2> QED
    BY <2>1, <2>2, Zenon
<1>5. Held(p) \subseteq Held(k)
  BY <1>2, Zenon DEF Held
<1> QED
  BY <1>2, <1>3, <1>4, <1>5, Zenon DEF Sound

(* One deferred target is taken, and the others stay. *)
LEMMA PoppedIs ==
  ASSUME NEW q, Sound(q), q.deferred # <<>>
  PROVE  /\ Popped(q) \in TipSet
         /\ Sound(Without(q))
         /\ Without(q).state = q.state /\ Without(q).pend = q.pend
         /\ Len(Without(q).deferred) = Len(q.deferred) - 1
         /\ Len(Without(q).deferred) \in Nat
         /\ \A t \in Targets(q.deferred) : t = Popped(q) \/ t \in Targets(Without(q).deferred)
<1> DEFINE d == q.deferred
           i == Best(d)
           e == removeBucket(d, i)
<1>1. q \in QueueType /\ d \in Seq(Bucket) /\ DOMAIN d # {}
  <2>1. q \in QueueType /\ d \in Seq(Bucket)
    BY Zenon DEF Sound, QueueType
  <2>2. DOMAIN d = 1 .. Len(d) /\ 1 \in 1 .. Len(d)
    BY <2>1
  <2> QED
    BY <2>1, <2>2, Zenon
<1>2. i \in DOMAIN d
  BY <1>1, BestOfBuckets, Zenon DEF Best
<1>3. d[i] \in Bucket
  BY <1>1, <1>2
<1> HIDE DEF i
<1>4. Popped(q) = heaviestTipSet(d[i]) /\ Popped(q) \in TipSet
  BY <1>3, HeaviestOfBucket, Zenon DEF Popped, i
<1>5. /\ e \in Seq(Bucket) /\ Len(e) = Len(d) - 1
      /\ \A j \in DOMAIN d : j # i => \E k \in DOMAIN e : e[k] = d[j]
  BY <1>1, <1>2, RemoveBucketIs, Zenon
<1>6. Len(e) \in Nat
  BY <1>5
<1> HIDE DEF e
<1>7. /\ Without(q) \in QueueType /\ Without(q).deferred = e
      /\ Without(q).state = q.state /\ Without(q).pend = q.pend
  BY <1>1, <1>5, Zenon DEF QueueType, Without, e, i
<1>8. ASSUME NEW t \in Targets(d) PROVE t = Popped(q) \/ t \in Targets(e)
  BY <1>4, <1>5, Zenon DEF Targets
<1> QED
  BY <1>4, <1>5, <1>6, <1>7, <1>8, Zenon DEF Sound

(* A turn of the loop. *)
LEMMA PopDeferredReaches ==
  ASSUME NEW q, Sound(q), NEW r \in Seq(TipSet), NEW o \in popDeferred(q, r)
  PROVE  /\ Reaches(q, r, o)
         /\ ~o.over => Len(o.q.deferred) < Len(q.deferred)
<1>0. q \in QueueType /\ Len(q.deferred) \in Nat /\ NONE \notin TipSet
  BY SyncAssumption DEF Sound, QueueType
<1> DEFINE h == Popped(q)
           w == Without(q)
<1>1. CASE q.deferred = <<>> /\ o = Over(NONE, q)
  <2>1. /\ o \in Outcome /\ o.q = q /\ o.over /\ o.target = NONE
    BY <1>0, <1>1, Zenon DEF Outcome, Over
  <2>2. \A t \in Targets(q.deferred) : Seen(q, r, o, t)
    BY <2>1, Zenon DEF Seen
  <2> QED
    BY <1>0, <1>1, <2>1, <2>2 DEF Reaches
<1>2. ASSUME q.deferred # <<>>
      PROVE  /\ h \in TipSet /\ Sound(w) /\ w \in QueueType
             /\ w.state = q.state /\ w.pend = q.pend
             /\ Len(w.deferred) = Len(q.deferred) - 1
             /\ Len(w.deferred) \in Nat
             /\ \A t \in Targets(q.deferred) : t = h \/ t \in Targets(w.deferred)
  BY <1>2, PoppedIs, Zenon DEF Sound
<1> HIDE DEF h, w
<1>3. CASE /\ q.deferred # <<>> /\ o = GoesOn(w)
           /\ \/ Synced(r, h) \/ Active(q.state) = {}
              \/ \E u \in Active(q.state) : u = h \/ isHeavier(u, h)
  <2>1. /\ o \in Outcome /\ o.q = w /\ ~o.over /\ o.target = NONE
    BY <1>2, <1>3, Zenon DEF Outcome, GoesOn
  <2>2. \/ Active(q.state) = {}
        \/ \E u \in Active(q.state) \cup Range(r) : u = h \/ isHeavier(u, h)
    <3>1. CASE Synced(r, h)
      <4>1. \A i \in DOMAIN r : r[i] \in Range(r)
        BY Zenon DEF Range
      <4> QED
        BY <3>1, <4>1, Zenon DEF Synced
    <3> QED
      BY <1>3, <3>1, Zenon
  <2>3. \A t \in Targets(q.deferred) : Seen(q, r, o, t)
    BY <1>2, <1>3, <2>1, <2>2, Zenon DEF Seen
  <2> QED
    BY <1>0, <1>2, <1>3, <2>1, <2>3 DEF Reaches
<1>4. CASE /\ q.deferred # <<>> /\ o = GoesOn(Keeping(w, h))
           /\ RelatedToAny(q.pend, h) \/ Parents[h] \in Active(q.state)
  <2> DEFINE k == Keeping(w, h)
  <2>1. /\ Sound(k) /\ k.state = w.state /\ k.deferred = w.deferred
        /\ Held(w.pend) \cup {h} \subseteq Held(k.pend)
    BY <1>2, <1>4, KeepingIsSound, Zenon
  <2> HIDE DEF k
  <2>2. k \in QueueType
    BY <2>1, Zenon DEF Sound
  <2>3. /\ o \in Outcome /\ o.q = k /\ ~o.over /\ o.target = NONE
    BY <1>4, <2>2, Zenon DEF Outcome, GoesOn, k
  <2>4. \A t \in Targets(q.deferred) : Seen(q, r, o, t)
    BY <1>2, <1>4, <2>1, <2>3, Zenon DEF Seen
  <2> QED
    BY <1>0, <1>2, <1>4, <2>1, <2>3, <2>4 DEF Reaches
<1>5. CASE q.deferred # <<>> /\ o = Over(h, w) /\ Active(q.state) # {}
  <2>1. /\ o \in Outcome /\ o.q = w /\ o.over /\ o.target = h /\ h # NONE
    BY <1>0, <1>2, <1>5, Zenon DEF Outcome, Over
  <2>2. \A t \in Targets(q.deferred) : Seen(q, r, o, t)
    BY <1>2, <1>5, <2>1, Zenon DEF Seen
  <2> QED
    BY <1>0, <1>2, <1>5, <2>1, <2>2 DEF Reaches
<1> QED
  BY <1>0, <1>1, <1>3, <1>4, <1>5, PopDeferredCases, Zenon DEF h, w

(* Turns add up. *)
LEMMA ReachesOn ==
  ASSUME NEW q, Sound(q), NEW r, NEW o, Reaches(q, r, o), ~o.over,
         NEW e, Reaches(o.q, r, e)
  PROVE  Reaches(q, r, e)
<1>1. /\ o \in Outcome /\ Sound(o.q) /\ o.target = NONE
      /\ o.q.state = q.state /\ Len(o.q.deferred) <= Len(q.deferred)
      /\ q.deferred = <<>> => o.q = q
      /\ Held(q.pend) \subseteq Held(o.q.pend)
      /\ \A t \in Targets(q.deferred) : Seen(q, r, o, t)
  BY Zenon DEF Reaches
<1>2. /\ e \in Outcome /\ Sound(e.q)
      /\ e.q.state = q.state /\ Len(e.q.deferred) <= Len(o.q.deferred)
      /\ ~e.over => e.target = NONE
      /\ e.over => \/ e.target = NONE /\ e.q.deferred = <<>>
                   \/ e.target # NONE /\ Active(q.state) # {}
      /\ o.q.deferred = <<>> => e.target = NONE /\ e.q = o.q
      /\ Held(o.q.pend) \subseteq Held(e.q.pend)
      /\ \A t \in Targets(o.q.deferred) : Seen(o.q, r, e, t)
  BY <1>1, Zenon DEF Reaches
<1>3. /\ Len(q.deferred) \in Nat /\ Len(o.q.deferred) \in Nat
      /\ Len(e.q.deferred) \in Nat
  BY <1>1, <1>2 DEF Sound, QueueType
<1>4. ASSUME NEW t \in Targets(q.deferred) PROVE Seen(q, r, e, t)
  <2>1. \/ t \in Targets(o.q.deferred) \/ t \in Held(o.q.pend) \/ t = NONE
        \/ Active(q.state) = {}
        \/ \E u \in Active(q.state) \cup Range(r) : u = t \/ isHeavier(u, t)
    BY <1>1, Zenon DEF Seen
  <2>2. t # NONE
    <3>1. q.deferred \in Seq(Bucket)
      BY Zenon DEF Sound, QueueType
    <3>2. PICK i \in DOMAIN q.deferred : t = heaviestTipSet(q.deferred[i])
      BY Zenon DEF Targets
    <3>3. q.deferred[i] \in Bucket
      BY <3>1
    <3>4. t \in TipSet
      BY <3>2, <3>3, HeaviestOfBucket, Zenon
    <3> QED
      BY <3>4, SyncAssumption, Zenon
  <2>3. CASE t \in Targets(o.q.deferred)
    BY <1>1, <1>2, <2>3, ZenonT(120) DEF Seen
  <2> QED
    BY <1>2, <2>1, <2>2, <2>3, Zenon DEF Seen
<1>5. Len(e.q.deferred) <= Len(q.deferred)
  BY <1>1, <1>2, <1>3
<1> QED
  BY <1>1, <1>2, <1>4, <1>5, Zenon DEF Reaches

LEMMA ReachesSelf ==
  ASSUME NEW q, Sound(q), NEW r
  PROVE  Reaches(q, r, GoesOn(q))
<1>1. q \in QueueType /\ Len(q.deferred) \in Nat
  BY DEF Sound, QueueType
<1>2. /\ GoesOn(q) \in Outcome /\ GoesOn(q).q = q
      /\ ~GoesOn(q).over /\ GoesOn(q).target = NONE
  BY <1>1, Zenon DEF Outcome, GoesOn
<1> HIDE DEF GoesOn
<1>3. \A t \in Targets(q.deferred) : Seen(q, r, GoesOn(q), t)
  BY <1>2, Zenon DEF Seen
<1> QED
  BY <1>1, <1>2, <1>3 DEF Reaches

(* The loop ends, with what its turns add up to. *)
LEMMA SelectDeferredReaches ==
  ASSUME NEW q, Sound(q), NEW r \in Seq(TipSet),
         NEW o \in selectDeferredSyncTarget(q, r)
  PROVE  Reaches(q, r, o) /\ o.over
<1> DEFINE N       == Len(q.deferred) + 1
           R       == {e \in Outcome : Reaches(q, r, e)}
           D       == SUBSET R
           Turn(S) == UNION {IF e.over THEN {e} ELSE popDeferred(e.q, r) : e \in S}
           st      == [n \in 0 .. N |-> [S \in D |-> Turn(S)]]
<1>1. N \in Nat /\ Len(q.deferred) \in Nat /\ q \in QueueType
  BY DEF Sound, QueueType
<1>2. ASSUME NEW S \in D, NEW e \in Turn(S)
      PROVE  /\ e \in R
             /\ e.over \/ \E b \in S : /\ b \in R /\ ~b.over /\ Sound(b.q)
                                       /\ Len(e.q.deferred) < Len(b.q.deferred)
  <2>1. PICK b \in S : e \in IF b.over THEN {b} ELSE popDeferred(b.q, r)
    BY <1>2, Zenon
  <2>2. b \in R /\ Reaches(q, r, b)
    BY <1>2, Zenon
  <2>3. CASE b.over
    BY <2>1, <2>2, <2>3, Zenon
  <2>4. CASE ~b.over
    <3>1. e \in popDeferred(b.q, r) /\ Sound(b.q)
      BY <2>1, <2>2, <2>4, Zenon DEF Reaches
    <3>2. /\ Reaches(b.q, r, e)
          /\ ~e.over => Len(e.q.deferred) < Len(b.q.deferred)
      BY <3>1, PopDeferredReaches, Zenon
    <3>3. Reaches(q, r, e)
      BY <2>2, <2>4, <3>2, ReachesOn, Zenon
    <3>4. e \in Outcome
      BY <3>3, Zenon DEF Reaches
    <3> QED
      BY <2>2, <2>4, <3>1, <3>2, <3>3, <3>4, Zenon
  <2> QED
    BY <2>3, <2>4, Zenon
<1>3. \A S \in D : Turn(S) \in D
  BY <1>2, Zenon
<1>4. IsLoop(st, N, D)
  BY <1>3, Zenon DEF IsLoop
<1>5. \A n \in 0 .. N, S \in D : st[n][S] = Turn(S)
  BY Zenon
<1>6. GoesOn(q) \in R
  BY ReachesSelf, Zenon DEF Reaches
<1>7. PICK b : b \in D /\ b = {GoesOn(q)}
  BY <1>6, Zenon
<1> HIDE DEF st, N, Turn, R
<1>8. PICK f : Runs(f, N, D, b, st)
  BY <1>1, <1>4, <1>7, LoopRuns, Zenon
<1> DEFINE Eq(l) == l = [n \in 0 .. N |-> IF n = 0 THEN {GoesOn(q)} ELSE Turn(l[n - 1])]
<1>9. Eq(f)
  <2>1. f \in [0 .. N -> D] /\ f[0] = {GoesOn(q)}
    BY <1>7, <1>8, Zenon DEF Runs
  <2>2. ASSUME NEW n \in 0 .. N, n # 0
        PROVE  f[n] = Turn(f[n - 1])
    <3>1. n - 1 \in 0 .. N - 1 /\ (n - 1) + 1 = n /\ n - 1 \in 0 .. N
      BY <1>1, <2>2
    <3>2. f[(n - 1) + 1] = st[n - 1][f[n - 1]] /\ f[n - 1] \in D
      BY <1>8, <2>1, <3>1, Zenon DEF Runs
    <3> QED
      BY <1>5, <3>1, <3>2, Zenon
  <2> QED
    BY <2>1, <2>2, Zenon
<1>10. PICK l : Eq(l) /\ selectDeferredSyncTarget(q, r) = l[N]
  BY <1>9, Zenon DEF selectDeferredSyncTarget, N, Turn
<1> DEFINE Left(n, e) == e.over \/ Len(e.q.deferred) + n <= Len(q.deferred)
           T == {n \in 0 .. N : l[n] \in D /\ \A e \in l[n] : Left(n, e)}
<1>11. 0 \in T
  <2>1. 0 \in 0 .. N
    BY <1>1
  <2>2. l[0] = {GoesOn(q)}
    BY <1>10, <2>1, Zenon
  <2>3. GoesOn(q).q = q
    BY Zenon DEF GoesOn
  <2> QED
    BY <1>1, <1>6, <2>1, <2>2, <2>3
<1>12. ASSUME NEW n \in 0 .. N - 1, n \in T PROVE n + 1 \in T
  <2>1. n + 1 \in 0 .. N /\ n + 1 # 0 /\ (n + 1) - 1 = n /\ n \in Nat
    BY <1>1
  <2>2. l[n + 1] = Turn(l[n]) /\ l[n] \in D
    BY <1>10, <1>12, <2>1, Zenon
  <2>3. ASSUME NEW e \in l[n + 1] PROVE e \in R /\ Left(n + 1, e)
    <3>1. /\ e \in R
          /\ e.over \/ \E a \in l[n] : /\ a \in R /\ ~a.over /\ Sound(a.q)
                                       /\ Len(e.q.deferred) < Len(a.q.deferred)
      BY <1>2, <2>2, Zenon
    <3>2. SUFFICES ASSUME ~e.over PROVE Left(n + 1, e)
      BY <3>1, Zenon
    <3>3. PICK a \in l[n] : /\ a \in R /\ ~a.over /\ Sound(a.q)
                            /\ Len(e.q.deferred) < Len(a.q.deferred)
      BY <3>1, <3>2, Zenon
    <3>4. Len(a.q.deferred) + n <= Len(q.deferred)
      BY <1>12, <3>3, Zenon
    <3>5. Len(a.q.deferred) \in Nat /\ Len(e.q.deferred) \in Nat
      <4>1. e \in Outcome
        BY <3>1, Zenon DEF R
      <4> QED
        BY <3>3, <4>1 DEF Sound, QueueType, Outcome
    <3>6. \A x, y, z \in Nat : x < y /\ y + n <= z => x + (n + 1) <= z
      BY <2>1
    <3> QED
      BY <1>1, <3>3, <3>4, <3>5, <3>6, Zenon
  <2>4. l[n + 1] \in D
    BY <2>3, Zenon
  <2> QED
    BY <2>1, <2>3, <2>4, Zenon
<1> HIDE DEF T
<1>13. 0 .. N \subseteq T
  BY <1>1, <1>11, <1>12, UptoInduction, Zenon
<1>14. o \in R /\ Left(N, o)
  BY <1>1, <1>10, <1>13, SMTT(120) DEF T
<1>15. Len(o.q.deferred) \in Nat
  BY <1>14 DEF R, Outcome, QueueType
<1>16. \A x, y \in Nat : ~(x + (y + 1) <= y)
  OBVIOUS
<1> QED
  BY <1>1, <1>14, <1>15, <1>16, Zenon DEF R, N

----------------------------------------------------------------------------
(* Starting workers. *)

Counted(q) ==
  /\ Sound(q) /\ IsFiniteSet(WorkersOf(q.state))
  /\ Workers(q.state) <= MaxSyncWorkers

Ready(q) == Counted(q) /\ (q.deferred = <<>> \/ Active(q.state) # {})

(* What became of the deferred target t between q and e. *)
LookedAt(q, r, e, t) ==
  \/ t \in Targets(e.deferred) \/ t \in Held(e.pend)
  \/ Active(q.state) = {}
  \/ \E u \in Active(e.state) \cup Range(r) : u = t \/ isHeavier(u, t)

(* What the end of a worker, or the ticker, does to the queues. *)
Grown(q, r, e) ==
  /\ Ready(e)
  /\ Active(q.state) \subseteq Active(e.state)
  /\ Held(q.pend) \subseteq Held(e.pend)
  /\ q.deferred = <<>> => e = q
  /\ Active(q.state) = {} => e.state = q.state
  /\ \A t \in Targets(q.deferred) : LookedAt(q, r, e, t)

(* A choice among the deferred targets is put into effect. *)
LEMMA ChosenGrown ==
  ASSUME NEW q, Counted(q), NEW r, NEW o, Reaches(q, r, o), o.over,
         o.target # NONE => Workers(q.state) < MaxSyncWorkers
  PROVE  Grown(q, r, Chosen(o))
<1>1. /\ Sound(q) /\ q \in QueueType /\ IsFiniteSet(WorkersOf(q.state))
      /\ Workers(q.state) <= MaxSyncWorkers /\ MaxSyncWorkers \in Nat
  BY SyncAssumption, Zenon DEF Counted, Sound
<1>2. /\ o \in Outcome /\ Sound(o.q) /\ o.q.state = q.state
      /\ \/ o.target = NONE /\ o.q.deferred = <<>>
         \/ o.target # NONE /\ Active(q.state) # {}
      /\ q.deferred = <<>> => o.target = NONE /\ o.q = q
      /\ Held(q.pend) \subseteq Held(o.q.pend)
      /\ \A t \in Targets(q.deferred) : Seen(q, r, o, t)
  BY Zenon DEF Reaches
<1>3. \A t \in Targets(q.deferred) : t # NONE
  <2> SUFFICES ASSUME NEW t \in Targets(q.deferred) PROVE t # NONE
    BY Zenon
  <2>1. q.deferred \in Seq(Bucket)
    BY <1>1, Zenon DEF QueueType
  <2>2. PICK i \in DOMAIN q.deferred : t = heaviestTipSet(q.deferred[i])
    BY Zenon DEF Targets
  <2>3. q.deferred[i] \in Bucket
    BY <2>1
  <2>4. t \in TipSet
    BY <2>2, <2>3, HeaviestOfBucket, Zenon
  <2> QED
    BY <2>4, SyncAssumption, Zenon
<1>4. CASE o.target = NONE
  <2>1. Chosen(o) = o.q /\ o.q.deferred = <<>>
    BY <1>2, <1>4, Zenon DEF Chosen
  <2>2. \A t \in Targets(q.deferred) : LookedAt(q, r, o.q, t)
    BY <1>2, <1>3, <1>4, Zenon DEF Seen, LookedAt
  <2> QED
    BY <1>1, <1>2, <2>1, <2>2, Zenon DEF Grown, Ready, Counted
<1>5. CASE o.target # NONE
  <2> DEFINE t0 == o.target
             s2 == spawnWorker(q.state, t0)
             e  == Chosen(o)
  <2>1. /\ t0 \in TipSet /\ q.state \in [TipSet -> Nat] /\ o.q \in QueueType
        /\ Workers(q.state) < MaxSyncWorkers
    BY <1>1, <1>2, <1>5, ZenonT(120) DEF Outcome, QueueType
  <2>2. /\ s2 \in [TipSet -> Nat] /\ Active(s2) = Active(q.state) \cup {t0}
        /\ IsFiniteSet(WorkersOf(s2)) /\ Workers(s2) = Workers(q.state) + 1
    BY <1>1, <2>1, SpawnCounts, Zenon
  <2>3. /\ e \in QueueType /\ e.state = s2
        /\ e.pend = o.q.pend /\ e.deferred = o.q.deferred
    BY <1>2, <1>5, <2>1, <2>2, Zenon DEF Chosen, QueueType
  <2> HIDE DEF s2, e, t0
  <2>4. Workers(s2) <= MaxSyncWorkers
    <3>1. Workers(q.state) \in Nat
      BY <1>1, <2>1, NoWorkers, Zenon
    <3> QED
      BY <1>1, <2>1, <2>2, <3>1
  <2>5. Sound(e)
    BY <1>2, <2>2, <2>3, Zenon DEF Sound
  <2>6. \A t \in Targets(q.deferred) : LookedAt(q, r, e, t)
    BY <1>2, <2>2, <2>3, Zenon DEF Seen, LookedAt, t0
  <2>7. Ready(e)
    BY <2>2, <2>3, <2>4, <2>5, Zenon DEF Ready, Counted
  <2> QED
    BY <1>2, <1>5, <2>2, <2>3, <2>6, <2>7, Zenon DEF Grown, e, t0
<1> QED
  BY <1>4, <1>5, Zenon

(* Turns add up. *)
LEMMA GrownOn ==
  ASSUME NEW q, Ready(q), NEW r, NEW e, Grown(q, r, e), NEW z, Grown(e, r, z)
  PROVE  Grown(q, r, z)
<1>1. /\ Active(q.state) \subseteq Active(e.state)
      /\ Held(q.pend) \subseteq Held(e.pend)
      /\ q.deferred = <<>> => e = q
      /\ Active(q.state) = {} => e.state = q.state
      /\ \A t \in Targets(q.deferred) : LookedAt(q, r, e, t)
  BY Zenon DEF Grown
<1>2. /\ Ready(z)
      /\ Active(e.state) \subseteq Active(z.state)
      /\ Held(e.pend) \subseteq Held(z.pend)
      /\ e.deferred = <<>> => z = e
      /\ Active(e.state) = {} => z.state = e.state
      /\ \A t \in Targets(e.deferred) : LookedAt(e, r, z, t)
  BY Zenon DEF Grown
<1>3. ASSUME NEW t \in Targets(q.deferred) PROVE LookedAt(q, r, z, t)
  <2>1. LookedAt(q, r, e, t)
    BY <1>1, Zenon
  <2>2. CASE t \in Targets(e.deferred)
    BY <1>1, <1>2, <2>2, Zenon DEF LookedAt
  <2> QED
    BY <1>1, <1>2, <2>1, <2>2, Zenon DEF LookedAt
<1> QED
  BY <1>1, <1>2, <1>3, Zenon DEF Grown

LEMMA GrownSelf ==
  ASSUME NEW q, Ready(q), NEW r
  PROVE  Grown(q, r, q)
BY Zenon DEF Grown, LookedAt

(* A turn of handleInitialSyncDone. *)
LEMMA StartDeferredGrown ==
  ASSUME NEW q, Ready(q), NEW r \in Seq(TipSet), NEW o \in startDeferred(q, r)
  PROVE  o \in Outcome /\ Grown(q, r, o.q)
<1>1. /\ Counted(q) /\ Sound(q) /\ q \in QueueType /\ MaxSyncWorkers \in Nat
      /\ Workers(q.state) \in Nat
  BY SyncAssumption, NoWorkers, Zenon DEF Ready, Counted, Sound, QueueType
<1>2. CASE Workers(q.state) >= MaxSyncWorkers
  <2>1. o = Over(NONE, q)
    BY <1>2, Zenon DEF startDeferred
  <2>2. o \in Outcome /\ o.q = q
    BY <1>1, <2>1, Zenon DEF Outcome, Over
  <2> QED
    BY <2>2, GrownSelf, Zenon
<1>3. CASE ~(Workers(q.state) >= MaxSyncWorkers)
  <2>1. PICK c \in selectDeferredSyncTarget(q, r) :
          o = IF c.target = NONE THEN c ELSE GoesOn(Chosen(c))
    BY <1>3, ZenonT(120) DEF startDeferred
  <2>2. Reaches(q, r, c) /\ c.over /\ c \in Outcome
    BY <1>1, SelectDeferredReaches DEF Reaches
  <2>3. Workers(q.state) < MaxSyncWorkers
    BY <1>1, <1>3
  <2>4. Grown(q, r, Chosen(c))
    BY <1>1, <2>2, <2>3, ChosenGrown, Zenon
  <2>5. Chosen(c) \in QueueType
    BY <2>4, Zenon DEF Grown, Ready, Counted, Sound
  <2>6. CASE c.target = NONE
    BY <2>1, <2>2, <2>4, <2>6, Zenon DEF Chosen
  <2>7. CASE c.target # NONE
    <3>1. o \in Outcome /\ o.q = Chosen(c)
      BY <2>1, <2>5, <2>7, Zenon DEF Outcome, GoesOn
    <3> QED
      BY <2>4, <3>1, Zenon
  <2> QED
    BY <2>6, <2>7, Zenon
<1> QED
  BY <1>2, <1>3, Zenon

LEMMA InitialSyncDoneGrown ==
  ASSUME NEW q, Ready(q), NEW r \in Seq(TipSet),
         NEW z \in handleInitialSyncDone(q, r)
  PROVE  Grown(q, r, z)
<1> DEFINE N       == MaxSyncWorkers
           R       == {e \in Outcome : Grown(q, r, e.q)}
           D       == SUBSET R
           Turn(S) == UNION {IF e.over THEN {e} ELSE startDeferred(e.q, r) : e \in S}
           st      == [n \in 0 .. N |-> [S \in D |-> Turn(S)]]
<1>1. N \in Nat /\ q \in QueueType
  BY SyncAssumption, Zenon DEF Ready, Counted, Sound
<1>2. ASSUME NEW S \in D, NEW e \in Turn(S) PROVE e \in R
  <2>1. PICK b \in S : e \in IF b.over THEN {b} ELSE startDeferred(b.q, r)
    BY <1>2, Zenon
  <2>2. b \in R /\ Grown(q, r, b.q)
    BY <1>2, Zenon
  <2>3. CASE b.over
    BY <2>1, <2>2, <2>3, Zenon
  <2>4. CASE ~b.over
    <3>1. e \in startDeferred(b.q, r) /\ Ready(b.q)
      BY <2>1, <2>2, <2>4, Zenon DEF Grown
    <3>2. e \in Outcome /\ Grown(b.q, r, e.q)
      BY <3>1, StartDeferredGrown, Zenon
    <3>3. Grown(q, r, e.q)
      BY <2>2, <3>2, GrownOn, Zenon
    <3> QED
      BY <3>2, <3>3, Zenon
  <2> QED
    BY <2>3, <2>4, Zenon
<1>3. \A S \in D : Turn(S) \in D
  BY <1>2, Zenon
<1>4. IsLoop(st, N, D)
  BY <1>3, Zenon DEF IsLoop
<1>5. \A n \in 0 .. N, S \in D : st[n][S] = Turn(S)
  BY Zenon
<1>6. GoesOn(q) \in R
  <2>1. GoesOn(q) \in Outcome /\ GoesOn(q).q = q
    BY <1>1, Zenon DEF Outcome, GoesOn
  <2> QED
    BY <2>1, GrownSelf, Zenon
<1>7. PICK b : b \in D /\ b = {GoesOn(q)}
  BY <1>6, Zenon
<1> HIDE DEF st, N, Turn, R
<1>8. PICK f : Runs(f, N, D, b, st)
  BY <1>1, <1>4, <1>7, LoopRuns, ZenonT(120)
<1> DEFINE Eq(l) == l = [n \in 0 .. N |-> IF n = 0 THEN {GoesOn(q)} ELSE Turn(l[n - 1])]
<1>9. Eq(f)
  <2>1. f \in [0 .. N -> D] /\ f[0] = {GoesOn(q)}
    BY <1>7, <1>8, Zenon DEF Runs
  <2>2. ASSUME NEW n \in 0 .. N, n # 0
        PROVE  f[n] = Turn(f[n - 1])
    <3>1. n - 1 \in 0 .. N - 1 /\ (n - 1) + 1 = n /\ n - 1 \in 0 .. N
      BY <1>1, <2>2
    <3>2. f[(n - 1) + 1] = st[n - 1][f[n - 1]] /\ f[n - 1] \in D
      BY <1>8, <2>1, <3>1, Zenon DEF Runs
    <3> QED
      BY <1>5, <3>1, <3>2, Zenon
  <2> QED
    BY <2>1, <2>2, Zenon
<1>10. PICK l : Eq(l) /\ handleInitialSyncDone(q, r) = {o.q : o \in l[N]}
  BY <1>9, Zenon DEF handleInitialSyncDone, N, Turn
<1> DEFINE T == {n \in 0 .. N : l[n] \in D}
<1>11. 0 \in T
  <2>1. 0 \in 0 .. N
    BY <1>1
  <2>2. l[0] = {GoesOn(q)}
    BY <1>10, <2>1, Zenon
  <2> QED
    BY <1>6, <2>1, <2>2, Zenon
<1>12. ASSUME NEW n \in 0 .. N - 1, n \in T PROVE n + 1 \in T
  <2>1. n + 1 \in 0 .. N /\ n + 1 # 0 /\ (n + 1) - 1 = n
    BY <1>1
  <2>2. l[n + 1] = Turn(l[n]) /\ l[n] \in D
    BY <1>10, <1>12, <2>1, Zenon
  <2> QED
    BY <1>3, <2>1, <2>2, Zenon
<1> HIDE DEF T
<1>13. 0 .. N \subseteq T
  BY <1>1, <1>11, <1>12, UptoInduction, Zenon
<1>14. l[N] \in D
  BY <1>1, <1>13 DEF T
<1>15. PICK o \in l[N] : z = o.q
  BY <1>10, Zenon
<1> QED
  BY <1>14, <1>15, Zenon DEF R

(* What selectSyncTarget leaves when the worker for done has ended. *)
Freed(q, done)       == [q EXCEPT !.pend = Unrelated(q.pend, done)]
PendTarget(q, done)  == heaviestTipSet(q.pend[BestOf(q.pend, Related(q.pend, done))])

LEMMA SelectSyncCases ==
  ASSUME NEW q \in QueueType, NEW r, NEW done, NEW o \in selectSyncTarget(q, r, done)
  PROVE  \/ o \in selectDeferredSyncTarget(Freed(q, done), r)
         \/ /\ o = Over(PendTarget(q, done), Freed(q, done))
            /\ Related(q.pend, done) # {}
            /\ ~isHeavier(done, PendTarget(q, done))
            /\ \A w \in Active(q.state) : ~isHeavier(w, PendTarget(q, done))
BY Zenon DEF selectSyncTarget, Freed, PendTarget

(* The tipsets of pend that waited for a worker that has ended are let go; *)
(* those that are left wait for another.                                   *)
LEMMA FreedIsSound ==
  ASSUME NEW q \in QueueType, NEW done,
         \A i \in DOMAIN q.pend :
           \E t \in Range(q.pend[i]) : Parents[t] \in Active(q.state) \cup {done}
  PROVE  /\ Sound(Freed(q, done))
         /\ Freed(q, done).state = q.state /\ Freed(q, done).deferred = q.deferred
         /\ Freed(q, done).pend = Unrelated(q.pend, done)
<1> DEFINE p == q.pend
           u == Unrelated(p, done)
<1>1. p \in Seq(Bucket) /\ DOMAIN p = 1 .. Len(p)
  BY DEF QueueType
<1>2. u \in Seq(Bucket) /\ \E m : Selection(m, u, Len(p), p, done)
  BY <1>1, UnrelatedIs, Zenon
<1>3. PICK m : Selection(m, u, Len(p), p, done)
  BY <1>2, Zenon
<1> HIDE DEF u
<1>4. /\ Freed(q, done) \in QueueType /\ Freed(q, done).pend = u
      /\ Freed(q, done).state = q.state /\ Freed(q, done).deferred = q.deferred
  BY <1>2, Zenon DEF QueueType, Freed, u
<1>5. ASSUME NEW k \in DOMAIN u
      PROVE  \E t \in Range(u[k]) : Parents[t] \in Active(q.state)
  <2>1. k \in 1 .. Len(u)
    BY <1>2
  <2>2. m[k] \in DOMAIN p /\ u[k] = p[m[k]] /\ ~sameChainAs(p[m[k]], done)
    BY <1>1, <1>3, <2>1, Zenon DEF Selection
  <2>3. PICK t \in Range(p[m[k]]) : Parents[t] \in Active(q.state) \cup {done}
    BY <2>2, Zenon
  <2>4. Parents[t] # done
    BY <2>2, <2>3, Zenon DEF sameChainAs, Range
  <2> QED
    BY <2>2, <2>3, <2>4, Zenon
<1> QED
  BY <1>4, <1>5, Zenon DEF Sound, u

(* The target taken from pend. *)
LEMMA PendTargetIs ==
  ASSUME NEW q \in QueueType, NEW done, Related(q.pend, done) # {}
  PROVE  \E i \in DOMAIN q.pend :
           /\ sameChainAs(q.pend[i], done)
           /\ PendTarget(q, done) = heaviestTipSet(q.pend[i])
           /\ q.pend[i] \in Bucket
           /\ PendTarget(q, done) \in TipSet
<1> DEFINE p == q.pend
           I == Related(p, done)
           i == BestOf(p, I)
<1>1. p \in Seq(Bucket) /\ I \in SUBSET DOMAIN p
  BY Zenon DEF QueueType, Related
<1>2. i \in I
  BY <1>1, BestOfBuckets, Zenon
<1>3. i \in DOMAIN p /\ sameChainAs(p[i], done) /\ PendTarget(q, done) = heaviestTipSet(p[i])
  BY <1>2, Zenon DEF Related, PendTarget
<1> HIDE DEF i
<1>4. p[i] \in Bucket
  BY <1>1, <1>3
<1>5. heaviestTipSet(p[i]) \in TipSet
  BY <1>4, HeaviestOfBucket, Zenon
<1> QED
  BY <1>3, <1>4, <1>5, Zenon

(* The end of a worker. *)
LEMMA SelectSyncGrown ==
  ASSUME NEW q \in QueueType, IsFiniteSet(WorkersOf(q.state)),
         Workers(q.state) < MaxSyncWorkers,
         NEW r \in Seq(TipSet), NEW done,
         \A i \in DOMAIN q.pend :
           \E t \in Range(q.pend[i]) : Parents[t] \in Active(q.state) \cup {done},
         NEW o \in selectSyncTarget(q, r, done)
  PROVE  /\ Ready(Chosen(o))
         /\ \/ \A t \in Targets(q.deferred) : t \in Targets(Chosen(o).deferred)
            \/ Active(q.state) = {} /\ Chosen(o).state = q.state
            \/ \A t \in Targets(q.deferred) :
                 \/ t \in Targets(Chosen(o).deferred) \/ t \in Held(Chosen(o).pend)
                 \/ \E u \in Active(Chosen(o).state) \cup Range(r) : u = t \/ isHeavier(u, t)
         /\ \/ q.deferred = <<>> /\ Chosen(o) = Freed(q, done)
            \/ q.deferred # <<>>
            \/ /\ Related(q.pend, done) # {}
               /\ Chosen(o).deferred = q.deferred
               /\ Chosen(o).pend = Unrelated(q.pend, done)
               /\ Chosen(o).state = spawnWorker(q.state, PendTarget(q, done))
               /\ ~isHeavier(done, PendTarget(q, done))
               /\ \A w \in Active(q.state) : ~isHeavier(w, PendTarget(q, done))
<1> DEFINE f == Freed(q, done)
           h == PendTarget(q, done)
<1>1. /\ Sound(f) /\ f.state = q.state /\ f.deferred = q.deferred
      /\ f.pend = Unrelated(q.pend, done)
  BY FreedIsSound, Zenon
<1>2. /\ Workers(q.state) \in Nat /\ MaxSyncWorkers \in Nat
      /\ q.state \in [TipSet -> Nat] /\ f \in QueueType
  BY <1>1, NoWorkers, SyncAssumption, ZenonT(120) DEF Sound, QueueType
<1> HIDE DEF f, h
<1>3. Counted(f)
  BY <1>1, <1>2 DEF Counted
<1>4. CASE o \in selectDeferredSyncTarget(f, r)
  <2>1. Reaches(f, r, o) /\ o.over
    BY <1>1, <1>4, SelectDeferredReaches, Zenon
  <2>2. Grown(f, r, Chosen(o))
    BY <1>1, <1>3, <2>1, ChosenGrown, Zenon
  <2>3. /\ Ready(Chosen(o))
        /\ q.deferred = <<>> => Chosen(o) = f
        /\ Active(q.state) = {} => Chosen(o).state = q.state
        /\ \A t \in Targets(q.deferred) : LookedAt(f, r, Chosen(o), t)
    BY <1>1, <2>2, Zenon DEF Grown
  <2> QED
    BY <1>1, <2>3, Zenon DEF LookedAt, f
<1>5. CASE /\ o = Over(h, f) /\ Related(q.pend, done) # {}
           /\ ~isHeavier(done, h) /\ \A w \in Active(q.state) : ~isHeavier(w, h)
  <2> DEFINE e  == Chosen(o)
             s2 == spawnWorker(q.state, h)
  <2>1. h \in TipSet /\ h # NONE
    BY <1>5, PendTargetIs, SyncAssumption, Zenon DEF h
  <2>2. /\ s2 \in [TipSet -> Nat] /\ Active(s2) = Active(q.state) \cup {h}
        /\ IsFiniteSet(WorkersOf(s2)) /\ Workers(s2) = Workers(q.state) + 1
    BY <1>2, <2>1, SpawnCounts, Zenon
  <2>3. e = [f EXCEPT !.state = s2]
    BY <1>1, <1>5, <2>1, Zenon DEF Chosen, Over
  <2>4. /\ e \in QueueType /\ e.state = s2 /\ e.pend = f.pend /\ e.deferred = f.deferred
    BY <1>2, <2>2, <2>3, Zenon DEF QueueType
  <2> HIDE DEF e, s2
  <2>5. Sound(e)
    BY <1>1, <2>2, <2>4, Zenon DEF Sound
  <2>6. Workers(s2) <= MaxSyncWorkers
    BY <1>2, <2>2
  <2>7. Ready(e)
    BY <2>2, <2>4, <2>5, <2>6, Zenon DEF Ready, Counted
  <2> QED
    BY <1>1, <1>5, <2>4, <2>7, Zenon DEF e, s2, h
<1> QED
  BY <1>4, <1>5, SelectSyncCases, Zenon DEF f, h

----------------------------------------------------------------------------
(* The buckets of pend until a tipset is deferred. *)

(* A tipset that is not being synced belongs to a fresh bucket only as one *)
(* of its tipsets or as a child of one.                                    *)
LEMMA FreshRelation ==
  ASSUME NEW b \in Bucket, NEW s, FreshBucket(b, s),
         NEW ts, ts \notin Active(s), sameChainAs(b, ts)
  PROVE  ts \in Range(b) \/ Parents[ts] \in Range(b)
<1>1. b \in Seq(TipSet) /\ DOMAIN b = 1 .. Len(b) /\ Len(b) \in Nat
  BY DEF Bucket
<1>2. PICK i \in DOMAIN b : ts = b[i] \/ ts = Parents[b[i]] \/ Parents[ts] = b[i]
  BY Zenon DEF sameChainAs
<1>3. CASE ts = Parents[b[i]]
  <2>1. i # 1
    BY <1>3, Zenon DEF FreshBucket
  <2>2. PICK j \in 1 .. i - 1 : Parents[b[i]] = b[j]
    BY <2>1, Zenon DEF FreshBucket
  <2>3. j \in DOMAIN b
    BY <1>1
  <2> QED
    BY <1>3, <2>2, <2>3, Zenon DEF Range
<1> QED
  BY <1>2, <1>3, Zenon DEF Range

LEMMA AppendFresh ==
  ASSUME NEW b \in Bucket, NEW s, FreshBucket(b, s),
         NEW ts \in TipSet, ts \notin Active(s), Parents[ts] \in Range(b)
  PROVE  FreshBucket(Append(b, ts), s)
<1> DEFINE n == Len(b)
           a == Append(b, ts)
<1>1. b \in Seq(TipSet) /\ DOMAIN b = 1 .. n /\ n \in Nat /\ n >= 1
  BY DEF Bucket
<1>2. /\ DOMAIN a = 1 .. n + 1 /\ a[n + 1] = ts
      /\ \A k \in 1 .. n : a[k] = b[k]
  BY <1>1
<1>3. PICK m \in 1 .. n : Parents[ts] = b[m]
  BY <1>1, Zenon DEF Range
<1> HIDE DEF a, n
<1>4. Parents[a[1]] \in Active(s)
  <2>1. 1 \in 1 .. n
    BY <1>1
  <2> QED
    BY <1>2, <2>1, Zenon DEF FreshBucket
<1>5. ASSUME NEW k \in 1 .. n + 1
      PROVE  /\ a[k] \notin Active(s)
             /\ k = 1 \/ \E j \in 1 .. k - 1 : Parents[a[k]] = a[j]
  <2>1. CASE k = n + 1
    <3>1. m \in 1 .. k - 1
      BY <1>1, <2>1
    <3> QED
      BY <1>2, <1>3, <2>1, <3>1, Zenon
  <2>2. CASE k \in 1 .. n
    <3>1. b[k] \notin Active(s) /\ (k = 1 \/ \E j \in 1 .. k - 1 : Parents[b[k]] = b[j])
      BY <1>1, <2>2, Zenon DEF FreshBucket
    <3>2. \A j \in 1 .. k - 1 : j \in 1 .. n
      BY <1>1, <2>2
    <3> QED
      BY <1>2, <2>2, <3>1, <3>2, Zenon
  <2>3. k = n + 1 \/ k \in 1 .. n
    BY <1>1
  <2> QED
    BY <2>1, <2>2, <2>3, Zenon
<1> QED
  BY <1>2, <1>4, <1>5, Zenon DEF FreshBucket, a

(* The parent of a tipset of a fresh bucket is being synced or is there.   *)
LEMMA FreshParents ==
  ASSUME NEW b \in Bucket, NEW s, FreshBucket(b, s), NEW t \in Range(b)
  PROVE  t \notin Active(s) /\ (Parents[t] \in Active(s) \/ Parents[t] \in Range(b))
<1>1. DOMAIN b = 1 .. Len(b) /\ Len(b) \in Nat
  BY DEF Bucket
<1>2. PICK k \in DOMAIN b : t = b[k]
  BY Zenon DEF Range
<1>3. CASE k # 1
  <2>1. PICK j \in 1 .. k - 1 : Parents[b[k]] = b[j]
    BY <1>3, Zenon DEF FreshBucket
  <2>2. j \in DOMAIN b
    BY <1>1
  <2> QED
    BY <1>2, <2>1, <2>2, Zenon DEF FreshBucket, Range
<1> QED
  BY <1>2, <1>3, Zenon DEF FreshBucket

(* Insert keeps the buckets fresh and disjoint. *)
LEMMA InsertFresh ==
  ASSUME NEW p \in Seq(Bucket), NEW s, PendIsFresh(p, s),
         NEW ts \in TipSet, ts \notin Active(s),
         Parents[ts] \in Active(s) \/ RelatedToAny(p, ts)
  PROVE  PendIsFresh(Insert(p, ts), s)
<1> DEFINE n == Len(p)
<1>1. n \in Nat /\ DOMAIN p = 1 .. n /\ \A i \in 1 .. n : p[i] \in Bucket
  BY SMTT(120)
<1>2. /\ \A t \in Active(s) : s[t] = 1 /\ Parents[t] \notin Active(s)
      /\ \A i \in 1 .. n : FreshBucket(p[i], s)
      /\ \A i, j \in 1 .. n : i # j => Range(p[i]) \cap Range(p[j]) = {}
  BY <1>1, Zenon DEF PendIsFresh
<1>3. \A b \in Bucket : b[1] \in Range(b)
  BY DEF Range, Bucket
<1>4. CASE /\ \A i \in DOMAIN p : ~sameChainAs(p[i], ts)
           /\ Insert(p, ts) = Append(p, <<ts>>)
  <2> DEFINE e == Append(p, <<ts>>)
  <2>1. Parents[ts] \in Active(s)
    BY <1>4, Zenon DEF RelatedToAny
  <2>2. /\ DOMAIN e = 1 .. n + 1 /\ e[n + 1] = <<ts>>
        /\ \A i \in 1 .. n : e[i] = p[i]
    BY <1>1
  <2>3. FreshBucket(<<ts>>, s)
    BY <2>1 DEF FreshBucket
  <2>4. \A i \in 1 .. n : ts \notin Range(p[i])
    BY <1>1, <1>4, Zenon DEF sameChainAs, Range
  <2>5. Range(<<ts>>) = {ts}
    BY DEF Range
  <2> HIDE DEF e, n
  <2>6. \A i \in 1 .. n + 1 : i = n + 1 \/ i \in 1 .. n
    BY <1>1
  <2>7. \A i \in 1 .. n + 1 : FreshBucket(e[i], s)
    BY <1>2, <2>2, <2>3, <2>6, Zenon
  <2>8. ASSUME NEW i \in 1 .. n + 1, NEW j \in 1 .. n + 1, i # j
        PROVE  Range(e[i]) \cap Range(e[j]) = {}
    <3>1. CASE i \in 1 .. n /\ j \in 1 .. n
      BY <1>2, <2>2, <2>8, <3>1, Zenon
    <3>2. CASE i = n + 1 /\ j \in 1 .. n
      BY <2>2, <2>4, <2>5, <3>2, Zenon
    <3>3. CASE i \in 1 .. n /\ j = n + 1
      BY <2>2, <2>4, <2>5, <3>3, Zenon
    <3> QED
      BY <2>6, <2>8, <3>1, <3>2, <3>3, Zenon
  <2> QED
    BY <1>2, <1>4, <2>2, <2>7, <2>8, Zenon DEF PendIsFresh, e
<1>5. ASSUME NEW i \in DOMAIN p, sameChainAs(p[i], ts),
             Insert(p, ts) = [p EXCEPT ![i] = addTo(p[i], ts)]
      PROVE  PendIsFresh(Insert(p, ts), s)
  <2> DEFINE b == p[i]
             e == [p EXCEPT ![i] = addTo(b, ts)]
  <2>1. b \in Bucket /\ FreshBucket(b, s) /\ i \in 1 .. n
    BY <1>1, <1>2, Zenon
  <2>2. CASE addTo(b, ts) = b
    <3>1. Insert(p, ts) = p
      BY <1>5, <2>2
    <3> QED
      BY <3>1, Zenon
  <2>3. CASE addTo(b, ts) = Append(b, ts) /\ \A k \in DOMAIN b : b[k] # ts
    <3>1. ts \notin Range(b)
      BY <2>3, Zenon DEF Range
    <3>2. Parents[ts] \in Range(b)
      BY <1>5, <2>1, <3>1, FreshRelation, Zenon
    <3>3. Parents[ts] \notin Active(s)
      BY <2>1, <3>2, FreshParents, Zenon
    <3>4. FreshBucket(Append(b, ts), s)
      BY <2>1, <3>2, AppendFresh, Zenon
    <3>5. Range(Append(b, ts)) = Range(b) \cup {ts}
      <4>1. b \in Seq(TipSet) /\ Len(b) \in Nat /\ DOMAIN b = 1 .. Len(b)
        BY <2>1 DEF Bucket
      <4>2. /\ DOMAIN Append(b, ts) = 1 .. Len(b) + 1
            /\ Append(b, ts)[Len(b) + 1] = ts
            /\ \A k \in 1 .. Len(b) : Append(b, ts)[k] = b[k]
        BY <4>1
      <4>3. 1 .. Len(b) + 1 = (1 .. Len(b)) \cup {Len(b) + 1}
        BY <4>1
      <4> QED
        BY <4>1, <4>2, <4>3 DEF Range
    <3>6. \A j \in 1 .. n : j # i => ts \notin Range(p[j])
      <4> SUFFICES ASSUME NEW j \in 1 .. n, j # i, ts \in Range(p[j])
                   PROVE  FALSE
        BY Zenon
      <4>1. Parents[ts] \in Range(p[j])
        BY <1>1, <1>2, <3>3, FreshParents, ZenonT(120)
      <4> QED
        BY <1>2, <2>1, <3>2, <4>1, ZenonT(120)
    <3>7. /\ DOMAIN e = 1 .. n /\ e[i] = Append(b, ts)
          /\ \A j \in 1 .. n : j # i => e[j] = p[j]
      BY <1>1, <2>1, <2>3, Zenon
    <3> HIDE DEF e, n
    <3>8. \A j \in 1 .. n : FreshBucket(e[j], s)
      BY <1>2, <3>4, <3>7, Zenon
    <3>9. ASSUME NEW j \in 1 .. n, NEW k \in 1 .. n, j # k
          PROVE  Range(e[j]) \cap Range(e[k]) = {}
      <4>0. \A m \in 1 .. n : m # i =>
              (Range(b) \cup {ts}) \cap Range(p[m]) = {} /\ e[m] = p[m]
        BY <1>2, <2>1, <3>6, <3>7, Zenon
      <4>1. CASE j = i
        BY <3>5, <3>7, <3>9, <4>0, <4>1, ZenonT(120)
      <4>2. CASE k = i
        BY <3>5, <3>7, <3>9, <4>0, <4>2, ZenonT(120)
      <4>3. CASE j # i /\ k # i
        BY <1>2, <3>7, <3>9, <4>3, Zenon
      <4> QED
        BY <4>1, <4>2, <4>3, Zenon
    <3>10. Insert(p, ts) = e
      BY <1>5, Zenon DEF e
    <3>11. PendIsFresh(e, s)
      BY <1>2, <3>7, <3>8, <3>9, Zenon DEF PendIsFresh
    <3> QED
      BY <3>10, <3>11, Zenon
  <2> QED
    BY <2>1, <2>2, <2>3, AddToIs, Zenon
<1> QED
  BY <1>4, <1>5, InsertIs, Zenon

(* A worker is started for a tipset that is in no bucket and whose parent  *)
(* is not being synced.                                                    *)
LEMMA SpawnFresh ==
  ASSUME NEW p, NEW s \in [TipSet -> Nat], PendIsFresh(p, s),
         NEW t \in TipSet, t \notin Active(s), Parents[t] \notin Active(s),
         \A w \in Active(s) : ~isHeavier(w, t),
         \A i \in DOMAIN p : t \notin Range(p[i])
  PROVE  PendIsFresh(p, spawnWorker(s, t))
<1> DEFINE s2 == spawnWorker(s, t)
<1>1. /\ s2 \in [TipSet -> Nat] /\ s2[t] = s[t] + 1
      /\ \A u \in TipSet : u # t => s2[u] = s[u]
  BY DEF spawnWorker
<1>2. s2[t] = 1 /\ Active(s2) = Active(s) \cup {t}
  BY <1>1 DEF Active
<1> HIDE DEF s2
<1>3. ASSUME NEW u \in TipSet, Parents[u] \in TipSet PROVE isHeavier(u, Parents[u])
  <2>1. ParentWeight[Parents[u]] < ParentWeight[u]
    BY <1>3, SyncAssumption, Zenon
  <2>2. ParentWeight[u] \in Nat /\ ParentWeight[Parents[u]] \in Nat
    BY <1>3, SyncAssumption, Zenon
  <2> QED
    BY <2>1, <2>2, Zenon DEF isHeavier
<1>4. ASSUME NEW u \in TipSet PROVE ~isHeavier(u, u)
  <2>1. ParentWeight[u] \in Nat
    BY SyncAssumption, Zenon
  <2> QED
    BY <2>1 DEF isHeavier
<1>5. \A u \in TipSet : Parents[u] # u
  BY <1>3, <1>4, Zenon
<1>6. ASSUME NEW u \in Active(s2) PROVE s2[u] = 1 /\ Parents[u] \notin Active(s2)
  <2>1. CASE u = t
    BY <1>2, <1>5, <2>1, Zenon
  <2>2. CASE u # t
    <3>1. u \in Active(s) /\ u \in TipSet
      BY <1>2, <1>6, <2>2, Zenon DEF Active
    <3>2. s[u] = 1 /\ Parents[u] \notin Active(s)
      BY <3>1, Zenon DEF PendIsFresh
    <3>3. Parents[u] # t
      BY <1>3, <3>1, Zenon
    <3> QED
      BY <1>1, <1>2, <2>2, <3>1, <3>2, <3>3, ZenonT(120)
  <2> QED
    BY <2>1, <2>2, Zenon
<1>7. ASSUME NEW i \in DOMAIN p PROVE FreshBucket(p[i], s2)
  <2>1. FreshBucket(p[i], s)
    BY Zenon DEF PendIsFresh
  <2>2. \A k \in DOMAIN p[i] : p[i][k] # t
    BY Zenon DEF Range
  <2> QED
    BY <1>2, <2>1, <2>2, Zenon DEF FreshBucket
<1>8. \A i, j \in DOMAIN p : i # j => Range(p[i]) \cap Range(p[j]) = {}
  BY Zenon DEF PendIsFresh
<1> QED
  BY <1>6, <1>7, <1>8, Zenon DEF PendIsFresh, s2

(* A worker ends: what is left of pend is fresh. *)
LEMMA EndFresh ==
  ASSUME NEW p \in Seq(Bucket), NEW s \in [TipSet -> Nat], PendIsFresh(p, s),
         NEW done \in TipSet, s[done] > 0
  PROVE  LET s2 == [s EXCEPT ![done] = @ - 1] IN
         /\ Active(s2) = Active(s) \ {done}
         /\ PendIsFresh(Unrelated(p, done), s2)
         /\ \A i \in DOMAIN p : \A t \in Range(p[i]) : sameChainAs(p[i], done) =>
              \A k \in DOMAIN Unrelated(p, done) : t \notin Range(Unrelated(p, done)[k])
<1> DEFINE s2 == [s EXCEPT ![done] = @ - 1]
           u  == Unrelated(p, done)
           n  == Len(p)
<1>1. n \in Nat /\ DOMAIN p = 1 .. n
  BY SMTT(120)
<1>2. /\ \A t \in Active(s) : s[t] = 1 /\ Parents[t] \notin Active(s)
      /\ \A i \in 1 .. n : FreshBucket(p[i], s)
      /\ \A i, j \in 1 .. n : i # j => Range(p[i]) \cap Range(p[j]) = {}
  BY <1>1, Zenon DEF PendIsFresh
<1>3. /\ s2 \in [TipSet -> Nat] /\ s2[done] = s[done] - 1
      /\ \A t \in TipSet : t # done => s2[t] = s[t]
  OBVIOUS
<1>4. s[done] = 1
  BY <1>2, Zenon DEF Active
<1> HIDE DEF s2
<1>5. Active(s2) = Active(s) \ {done}
  BY <1>3, <1>4 DEF Active
<1>6. u \in Seq(Bucket) /\ \E m : Selection(m, u, n, p, done)
  BY UnrelatedIs, Zenon
<1> HIDE DEF u, n
<1>7. PICK m : Selection(m, u, n, p, done)
  BY <1>6, Zenon
<1>8. DOMAIN u = 1 .. Len(u)
  BY <1>6
<1>9. /\ \A k \in DOMAIN u : m[k] \in 1 .. n /\ u[k] = p[m[k]] /\ ~sameChainAs(p[m[k]], done)
      /\ \A j, k \in DOMAIN u : j # k => m[j] # m[k]
  BY <1>7, <1>8, Zenon DEF Selection
<1>10. ASSUME NEW t \in Active(s2) PROVE s2[t] = 1 /\ Parents[t] \notin Active(s2)
  BY <1>2, <1>3, <1>5, <1>10, ZenonT(120) DEF Active
<1>11. ASSUME NEW k \in DOMAIN u PROVE FreshBucket(u[k], s2)
  <2>1. FreshBucket(u[k], s) /\ ~sameChainAs(u[k], done) /\ u[k] \in Bucket
    BY <1>2, <1>6, <1>9
  <2>2. 1 \in DOMAIN u[k]
    BY <2>1 DEF Bucket
  <2>3. Parents[u[k][1]] # done
    BY <2>1, <2>2, Zenon DEF sameChainAs
  <2> QED
    BY <1>5, <2>1, <2>3, ZenonT(120) DEF FreshBucket
<1>12. ASSUME NEW j \in DOMAIN u, NEW k \in DOMAIN u, j # k
       PROVE  Range(u[j]) \cap Range(u[k]) = {}
  <2>1. m[j] \in 1 .. n /\ m[k] \in 1 .. n /\ m[j] # m[k]
    BY <1>9, <1>12, Zenon
  <2>2. u[j] = p[m[j]] /\ u[k] = p[m[k]]
    BY <1>9, Zenon
  <2> QED
    BY <1>2, <2>1, <2>2, ZenonT(120)
<1>13. PendIsFresh(u, s2)
  BY <1>10, <1>11, <1>12, Zenon DEF PendIsFresh
<1>14. ASSUME NEW i \in DOMAIN p, NEW t \in Range(p[i]), sameChainAs(p[i], done),
              NEW k \in DOMAIN u
       PROVE  t \notin Range(u[k])
  BY <1>1, <1>2, <1>9, <1>14, Zenon
<1> QED
  BY <1>5, <1>13, <1>14, ZenonT(120) DEF s2, u

(* The target taken from pend when a worker ends may be started.           *)
LEMMA PendTargetFresh ==
  ASSUME NEW b \in Bucket, NEW s, FreshBucket(b, s),
         NEW done \in TipSet, done \in Active(s), sameChainAs(b, done),
         NEW h, h = heaviestTipSet(b), ~isHeavier(done, h)
  PROVE  /\ h \in Range(b) /\ h \in TipSet /\ h \notin Active(s)
         /\ Parents[h] \notin Active(s) \ {done}
<1>1. b \in Seq(TipSet) /\ DOMAIN b = 1 .. Len(b) /\ Len(b) \in Nat
  BY DEF Bucket
<1>2. PICK k \in DOMAIN b : h = b[k]
  BY HeaviestOfBucket, Zenon
<1>3. h \in TipSet /\ \A i \in DOMAIN b : ~isHeavier(b[i], h)
  BY HeaviestOfBucket, Zenon
<1>4. ASSUME NEW t \in TipSet, Parents[t] \in TipSet PROVE isHeavier(t, Parents[t])
  <2>1. ParentWeight[Parents[t]] < ParentWeight[t]
    BY <1>4, SyncAssumption, Zenon
  <2>2. ParentWeight[t] \in Nat /\ ParentWeight[Parents[t]] \in Nat
    BY <1>4, SyncAssumption, Zenon
  <2> QED
    BY <2>1, <2>2, Zenon DEF isHeavier
<1>5. h \in Range(b) /\ h \notin Active(s)
  BY <1>2, Zenon DEF Range, FreshBucket
<1>6. \A t \in Range(b) : t \notin Active(s)
  BY FreshParents, Zenon
<1>7. CASE k # 1
  <2>1. PICK j \in 1 .. k - 1 : Parents[b[k]] = b[j]
    BY <1>7, Zenon DEF FreshBucket
  <2>2. b[j] \in Range(b)
    BY <1>1, <2>1 DEF Range
  <2> QED
    BY <1>2, <1>3, <1>5, <1>6, <2>1, <2>2, ZenonT(120)
<1>8. CASE k = 1
  <2>1. PICK i \in DOMAIN b : done = b[i] \/ done = Parents[b[i]] \/ Parents[done] = b[i]
    BY Zenon DEF sameChainAs
  <2>2. b[i] \in Range(b) /\ b[i] \in TipSet
    BY <1>1 DEF Range
  <2>3. CASE i = 1
    <3>1. Parents[done] # h
      BY <1>3, <1>4, Zenon
    <3>2. done # b[i]
      BY <1>6, <2>2, Zenon
    <3>3. done = Parents[h]
      BY <1>2, <1>8, <2>1, <2>3, <3>1, <3>2, ZenonT(120)
    <3> QED
      BY <1>3, <1>5, <3>3, ZenonT(120)
  <2>4. i # 1 => FALSE
    <3> SUFFICES ASSUME i # 1 PROVE FALSE
      BY Zenon
    <3>1. 2 \in DOMAIN b /\ 2 # 1 /\ 1 .. 2 - 1 = {1}
      BY <1>1
    <3>2. Parents[b[2]] = h
      BY <1>2, <1>8, <3>1, ZenonT(120) DEF FreshBucket
    <3>3. b[2] \in TipSet
      BY <1>1, <3>1
    <3> QED
      BY <1>3, <1>4, <3>1, <3>2, <3>3, ZenonT(120)
  <2> QED
    BY <2>3, <2>4, Zenon
<1> QED
  BY <1>7, <1>8, Zenon

----------------------------------------------------------------------------
(* The inductive invariant. *)

(* A tipset that is deferred takes no target away, unless it is heavier.   *)
LEMMA InsertTargets ==
  ASSUME NEW bs \in Seq(Bucket), NEW ts \in TipSet, NEW t \in Targets(bs)
  PROVE  \E u \in Targets(Insert(bs, ts)) : u = t \/ isHeavier(u, t)
<1>1. PICK i \in DOMAIN bs : t = heaviestTipSet(bs[i])
  BY Zenon DEF Targets
<1>2. bs[i] \in Bucket /\ DOMAIN bs = 1 .. Len(bs) /\ Len(bs) \in Nat
  OBVIOUS
<1>3. CASE Insert(bs, ts) = Append(bs, <<ts>>)
  <2>1. i \in DOMAIN Append(bs, <<ts>>) /\ Append(bs, <<ts>>)[i] = bs[i]
    BY <1>2
  <2>2. t \in Targets(Insert(bs, ts))
    BY <1>1, <1>3, <2>1, Zenon DEF Targets
  <2> QED
    BY <2>2, Zenon
<1>4. ASSUME NEW j \in DOMAIN bs, Insert(bs, ts) = [bs EXCEPT ![j] = addTo(bs[j], ts)]
      PROVE  \E u \in Targets(Insert(bs, ts)) : u = t \/ isHeavier(u, t)
  <2> DEFINE e == [bs EXCEPT ![j] = addTo(bs[j], ts)]
  <2>1. DOMAIN e = DOMAIN bs /\ e[i] = IF i = j THEN addTo(bs[i], ts) ELSE bs[i]
    BY <1>2, Zenon
  <2>2. heaviestTipSet(e[i]) \in Targets(Insert(bs, ts))
    BY <1>4, <2>1, Zenon DEF Targets
  <2> HIDE DEF e
  <2>3. e[i] = bs[i] \/ (e[i] = Append(bs[i], ts) /\ Append(bs[i], ts) \in Bucket)
    <3>1. /\ addTo(bs[i], ts) \in Bucket
          /\ addTo(bs[i], ts) = bs[i] \/ addTo(bs[i], ts) = Append(bs[i], ts)
      BY <1>2, AddToIs, Zenon
    <3>2. CASE i = j
      BY <2>1, <3>1, <3>2, ZenonT(120)
    <3>3. CASE i # j
      BY <2>1, <3>3, Zenon
    <3> QED
      BY <3>2, <3>3, Zenon
  <2>4. heaviestTipSet(e[i]) = t \/ isHeavier(heaviestTipSet(e[i]), t)
    <3>1. CASE e[i] = bs[i]
      BY <1>1, <3>1, Zenon
    <3>2. CASE e[i] = Append(bs[i], ts) /\ Append(bs[i], ts) \in Bucket
      <4>1. \/ heaviestTipSet(Append(bs[i], ts)) = heaviestTipSet(bs[i])
            \/ isHeavier(heaviestTipSet(Append(bs[i], ts)), heaviestTipSet(bs[i]))
        BY <1>2, <3>2, HeaviestOfAppend, ZenonT(120)
      <4> QED
        BY <1>1, <3>2, <4>1
    <3> QED
      BY <2>3, <3>1, <3>2, Zenon
  <2> QED
    BY <2>2, <2>4, Zenon
<1> QED
  BY <1>3, <1>4, InsertIs, Zenon

(* The parts of a record of queues, and its type. *)
LEMMA QueueFields ==
  ASSUME NEW p, NEW d, NEW s
  PROVE  Queues(p, d, s).pend = p /\ Queues(p, d, s).deferred = d /\ Queues(p, d, s).state = s
  BY Zenon DEF Queues

LEMMA QueueTyped ==
  ASSUME NEW p \in Seq(Bucket), NEW d \in Seq(Bucket), NEW s \in [TipSet -> Nat]
  PROVE  Queues(p, d, s) \in QueueType
  BY Zenon DEF Queues, QueueType

LEMMA ReadyIs ==
  ASSUME NEW p, NEW d, NEW s
  PROVE  /\ Queues(p, d, s).pend = p /\ Queues(p, d, s).deferred = d
         /\ Queues(p, d, s).state = s
         /\ Queues(p, d, s) \in QueueType
              <=> p \in Seq(Bucket) /\ d \in Seq(Bucket) /\ s \in [TipSet -> Nat]
         /\ Ready(Queues(p, d, s))
              <=> /\ Queues(p, d, s) \in QueueType
                  /\ \A i \in DOMAIN p : \E t \in Range(p[i]) : Parents[t] \in Active(s)
                  /\ IsFiniteSet(WorkersOf(s)) /\ Workers(s) <= MaxSyncWorkers
                  /\ d = <<>> \/ Active(s) # {}
<1>1. /\ Queues(p, d, s).pend = p /\ Queues(p, d, s).deferred = d
      /\ Queues(p, d, s).state = s
  BY Zenon DEF Queues
<1>2. Queues(p, d, s) \in QueueType
        <=> p \in Seq(Bucket) /\ d \in Seq(Bucket) /\ s \in [TipSet -> Nat]
  BY Zenon DEF Queues, QueueType
<1> QED
  BY <1>1, <1>2, Zenon DEF Ready, Counted, Sound

(* The part of the invariant that takes more than types. *)
Kept ==
  /\ Ready(Queues(pend, deferred, state))
  /\ ~started => Active(state) = {} /\ pend = <<>>
  /\ ~put => deferred = <<>> /\ PendIsFresh(pend, state)

LEMMA InvKept == SyncInv <=> TypeOK /\ Kept
<1>1. TypeOK => Queues(pend, deferred, state) \in QueueType
  BY Zenon DEF TypeOK
<1>2. Ready(Queues(pend, deferred, state))
        <=> /\ Queues(pend, deferred, state) \in QueueType
            /\ \A i \in DOMAIN pend : \E t \in Range(pend[i]) : Parents[t] \in Active(state)
            /\ IsFiniteSet(WorkersOf(state)) /\ Workers(state) <= MaxSyncWorkers
            /\ deferred = <<>> \/ Active(state) # {}
  BY ReadyIs
<1> QED
  BY <1>1, <1>2, Zenon DEF SyncInv, Kept, NothingOrphaned

(* A worker is started where there is room. *)
LEMMA SpawnReady ==
  ASSUME NEW p, NEW d, NEW s, Ready(Queues(p, d, s)), NEW t \in TipSet,
         Workers(s) < MaxSyncWorkers
  PROVE  Ready(Queues(p, d, spawnWorker(s, t)))
<1>1. /\ p \in Seq(Bucket) /\ d \in Seq(Bucket) /\ s \in [TipSet -> Nat]
      /\ \A i \in DOMAIN p : \E u \in Range(p[i]) : Parents[u] \in Active(s)
      /\ IsFiniteSet(WorkersOf(s))
  BY ReadyIs, SMTT(120)
<1>2. Workers(s) \in Nat /\ MaxSyncWorkers \in Nat
  BY <1>1, NoWorkers, SyncAssumption, Zenon
<1> DEFINE s2 == spawnWorker(s, t)
<1>3. /\ s2 \in [TipSet -> Nat] /\ Active(s2) = Active(s) \cup {t}
      /\ IsFiniteSet(WorkersOf(s2)) /\ Workers(s2) = Workers(s) + 1
  BY <1>1, SpawnCounts, Zenon
<1> HIDE DEF s2
<1>4. Workers(s2) <= MaxSyncWorkers
  BY <1>2, <1>3
<1>5. /\ \A i \in DOMAIN p : \E u \in Range(p[i]) : Parents[u] \in Active(s2)
      /\ Active(s2) # {}
  BY <1>1, <1>3, Zenon
<1>6. Queues(p, d, s2) \in QueueType
  BY <1>1, <1>3, ReadyIs, Zenon
<1>7. Ready(Queues(p, d, s2))
  BY <1>3, <1>4, <1>5, <1>6, ReadyIs, ZenonT(120)
<1> QED
  BY <1>7, Zenon DEF s2

(* The step does with every deferred target what DeferredAreLookedAt says. *)
Looks ==
  \A t \in Targets(deferred) :
    \/ t \in Targets(deferred')
    \/ t \in UNION {Range(pend'[i]) : i \in DOMAIN pend'}
    \/ \E u \in Active(state') \cup Range(recent') \cup Targets(deferred') :
         u = t \/ isHeavier(u, t)
    \/ Workers(state) = 1 /\ Workers(state') = 0

LEMMA KeptFacts ==
  ASSUME TypeOK, Kept
  PROVE  /\ pend \in Seq(Bucket) /\ deferred \in Seq(Bucket) /\ state \in [TipSet -> Nat]
         /\ \A i \in DOMAIN pend : \E t \in Range(pend[i]) : Parents[t] \in Active(state)
         /\ IsFiniteSet(WorkersOf(state)) /\ Workers(state) <= MaxSyncWorkers
         /\ Workers(state) \in Nat /\ (Active(state) = {} <=> Workers(state) = 0)
         /\ MaxSyncWorkers \in Nat \ {0}
         /\ \A i \in DOMAIN pend : pend[i] \in Bucket
<1>1. Ready(Queues(pend, deferred, state))
  BY ZenonT(120) DEF Kept
<1>2. /\ pend \in Seq(Bucket) /\ deferred \in Seq(Bucket) /\ state \in [TipSet -> Nat]
      /\ \A i \in DOMAIN pend : \E t \in Range(pend[i]) : Parents[t] \in Active(state)
      /\ IsFiniteSet(WorkersOf(state)) /\ Workers(state) <= MaxSyncWorkers
  BY <1>1, ReadyIs
<1>3. Workers(state) \in Nat /\ (Active(state) = {} <=> Workers(state) = 0)
  BY <1>2, NoWorkers, ZenonT(120)
<1> QED
  BY <1>2, <1>3, SyncAssumption

(* A worker for t where none is active, when pend is empty. *)
LEMMA FirstWorkerKeeps ==
  ASSUME TypeOK, Kept, Active(state) = {}, NEW t,
         state' = spawnWorker(state, t), started', UNCHANGED <<pend, deferred, put>>
  PROVE  Kept' /\ Looks
<1>1. /\ pend \in Seq(Bucket) /\ state \in [TipSet -> Nat] /\ Workers(state) < MaxSyncWorkers
      /\ \A i \in DOMAIN pend : \E u \in Range(pend[i]) : Parents[u] \in Active(state)
  BY KeptFacts
<1>2. Looks
  BY Zenon DEF Looks
<1>3. CASE t \in TipSet
  <2>1. Ready(Queues(pend, deferred, state'))
    BY <1>1, <1>3, SpawnReady, ZenonT(120) DEF Kept
  <2>2. ASSUME ~put PROVE deferred = <<>> /\ PendIsFresh(pend, state')
    <3>1. deferred = <<>> /\ PendIsFresh(pend, state)
      BY <2>2, Zenon DEF Kept
    <3>2. DOMAIN pend = {}
      BY <1>1, Zenon
    <3>3. PendIsFresh(pend, spawnWorker(state, t))
      BY <1>1, <1>3, <3>1, <3>2, SpawnFresh, ZenonT(120)
    <3> QED
      BY <3>1, <3>3, ZenonT(120)
  <2> QED
    BY <1>2, <2>1, <2>2, ZenonT(120) DEF Kept
<1>4. CASE t \notin TipSet
  <2>1. state' = state
    BY <1>1, <1>4, Zenon DEF spawnWorker
  <2> QED
    BY <1>2, <2>1, Zenon DEF Kept
<1> QED
  BY <1>3, <1>4, ZenonT(120)

(* Announced heads until a worker starts. *)
LEMMA FirstHeadsKeeps ==
  ASSUME TypeOK, Kept, NEW p \in Peer, NEW ts \in TipSet, handleFirstHeads(p, ts)
  PROVE  /\ Kept' /\ Looks
         /\ heads' \in [Peer -> TipSet \cup {NONE}] /\ started' \in BOOLEAN /\ put' \in BOOLEAN
<1>1. heads' \in [Peer -> TipSet \cup {NONE}]
  BY Zenon DEF handleFirstHeads, TypeOK
<1>2. UNCHANGED <<pend, deferred, put>> /\ ~started
  BY Zenon DEF handleFirstHeads
<1>3. CASE UNCHANGED <<started, state>>
  BY <1>1, <1>2, <1>3, Zenon DEF Kept, Looks, TypeOK
<1>4. ASSUME started' = TRUE, NEW t, state' = spawnWorker(state, t)
      PROVE  Kept' /\ Looks /\ started' \in BOOLEAN
  <2>1. Active(state) = {}
    BY <1>2, Zenon DEF Kept
  <2> QED
    BY <1>2, <1>4, <2>1, FirstWorkerKeeps, ZenonT(120)
<1>5. \/ UNCHANGED <<started, state>>
      \/ started' = TRUE /\ \E t : state' = spawnWorker(state, t)
  BY Zenon DEF handleFirstHeads
<1> QED
  BY <1>1, <1>2, <1>3, <1>4, <1>5, ZenonT(120) DEF TypeOK

(* A tipset is kept in pend. *)
LEMMA PendKeeps ==
  ASSUME TypeOK, Kept, NEW ts \in TipSet, started',
         RelatedToAny(pend, ts) \/ Parents[ts] \in Active(state),
         ~put => ts \notin Active(state),
         pend' = Insert(pend, ts), UNCHANGED <<state, deferred, put>>
  PROVE  Kept' /\ Looks
<1>1. pend \in Seq(Bucket)
  BY KeptFacts, ZenonT(120)
<1> DEFINE q == Queues(pend, deferred, state)
           k == Queues(pend', deferred, state)
<1>2. /\ q.pend = pend /\ q.deferred = deferred /\ q.state = state
      /\ k.pend = pend' /\ k.deferred = deferred /\ k.state = state
      /\ Ready(q)
  <2>1. Ready(q)
    BY Zenon DEF Kept
  <2> QED
    BY <2>1, QueueFields, SMTT(120)
<1>3. Keeping(q, ts) = k
  BY DEF Keeping, Queues
<1> HIDE DEF q, k
<1>4. Sound(k)
  BY <1>2, <1>3, KeepingIsSound, Zenon DEF Ready, Counted
<1>5. Ready(k)
  BY <1>2, <1>4, Zenon DEF Ready, Counted
<1>6. ASSUME ~put PROVE deferred = <<>> /\ PendIsFresh(pend', state)
  <2>1. deferred = <<>> /\ PendIsFresh(pend, state)
    BY <1>6, Zenon DEF Kept
  <2> QED
    BY <1>1, <1>6, <2>1, InsertFresh, ZenonT(120)
<1>7. Looks
  BY Zenon DEF Looks
<1> QED
  BY <1>5, <1>6, <1>7, ZenonT(120) DEF Kept, k

(* An announced head once syncing has started. *)
LEMMA AddSyncTargetKeeps ==
  ASSUME TypeOK, Kept, NEW ts \in TipSet, addSyncTarget(ts)
  PROVE  Kept' /\ Looks /\ UNCHANGED <<heads, started>> /\ put' \in BOOLEAN
<1>0. /\ pend \in Seq(Bucket) /\ deferred \in Seq(Bucket) /\ state \in [TipSet -> Nat]
      /\ Workers(state) \in Nat /\ MaxSyncWorkers \in Nat
      /\ \A i \in DOMAIN pend : pend[i] \in Bucket
  BY KeptFacts, Zenon
<1>1. started /\ UNCHANGED <<heads, started>>
  BY Zenon DEF addSyncTarget
<1>2. CASE UNCHANGED <<state, pend, deferred, put>>
  BY <1>1, <1>2, ZenonT(120) DEF Kept, Looks, TypeOK
<1>3. CASE /\ Active(state) = {}
           /\ state' = spawnWorker(state, ts) /\ UNCHANGED <<pend, deferred, put>>
  BY <1>1, <1>3, FirstWorkerKeeps, ZenonT(120) DEF TypeOK
<1>4. CASE /\ Parents[ts] \in Active(state)
           /\ pend' = Insert(pend, ts) /\ UNCHANGED <<state, deferred, put>>
  <2>1. ~put => ts \notin Active(state)
    <3>1. ~put => PendIsFresh(pend, state)
      BY Zenon DEF Kept
    <3> QED
      BY <1>4, <3>1, ZenonT(120) DEF PendIsFresh
  <2>2. started' /\ put' \in BOOLEAN
    BY <1>1, <1>4, ZenonT(120) DEF TypeOK
  <2>3. Kept' /\ Looks
    BY <1>4, <2>1, <2>2, PendKeeps, ZenonT(120)
  <2> QED
    BY <1>1, <2>2, <2>3, ZenonT(120)
<1>5. CASE /\ RelatedToActive(ts) = {} /\ RelatedToAny(pend, ts)
           /\ pend' = Insert(pend, ts) /\ UNCHANGED <<state, deferred, put>>
  <2>1. ts \notin Active(state)
    BY <1>5, Zenon DEF RelatedToActive
  <2>2. started' /\ put' \in BOOLEAN
    BY <1>1, <1>5, ZenonT(120) DEF TypeOK
  <2>3. Kept' /\ Looks
    BY <1>5, <2>1, <2>2, PendKeeps, ZenonT(120)
  <2> QED
    BY <1>1, <2>2, <2>3, Zenon
<1>6. CASE /\ Active(state) # {}
           /\ deferred' = Insert(deferred, ts) /\ put' = TRUE /\ UNCHANGED <<state, pend>>
  <2>1. deferred' \in Seq(Bucket)
    BY <1>0, <1>6, InsertKeeps, ZenonT(120)
  <2>2. /\ Queues(pend, deferred, state) \in QueueType
        /\ \A i \in DOMAIN pend : \E t \in Range(pend[i]) : Parents[t] \in Active(state)
        /\ IsFiniteSet(WorkersOf(state)) /\ Workers(state) <= MaxSyncWorkers
    BY ReadyIs, Zenon DEF Kept
  <2>3. Ready(Queues(pend', deferred', state'))
    <3>1. Queues(pend', deferred', state') \in QueueType
      BY <1>0, <1>6, <2>1, ReadyIs, ZenonT(120)
    <3> QED
      BY <1>6, <2>2, <3>1, ReadyIs, ZenonT(120)
  <2>4. Looks
    BY <1>0, <1>6, InsertTargets, ZenonT(120) DEF Looks
  <2> QED
    BY <1>1, <1>6, <2>3, <2>4, ZenonT(120) DEF Kept
<1>7. CASE /\ RelatedToActive(ts) = {} /\ ~RelatedToAny(pend, ts)
           /\ \A w \in Active(state) : ~isHeavier(w, ts)
           /\ ~(Workers(state) >= MaxSyncWorkers)
           /\ state' = spawnWorker(state, ts) /\ UNCHANGED <<pend, deferred, put>>
  <2>1. Workers(state) < MaxSyncWorkers
    BY <1>0, <1>7
  <2>2. Ready(Queues(pend, deferred, state'))
    BY <1>7, <2>1, SpawnReady, Zenon DEF Kept
  <2>3. /\ ts \notin Active(state) /\ Parents[ts] \notin Active(state)
    BY <1>7, Zenon DEF RelatedToActive
  <2>4. \A i \in DOMAIN pend : ts \notin Range(pend[i])
    BY <1>7, Zenon DEF RelatedToAny, sameChainAs, Range
  <2>5. ASSUME ~put PROVE deferred = <<>> /\ PendIsFresh(pend, state')
    <3>1. deferred = <<>> /\ PendIsFresh(pend, state)
      BY <2>5, Zenon DEF Kept
    <3>2. PendIsFresh(pend, spawnWorker(state, ts))
      BY <1>0, <1>7, <2>3, <2>4, <3>1, SpawnFresh, ZenonT(120)
    <3> QED
      BY <1>7, <3>1, <3>2, ZenonT(120)
  <2>6. Looks
    BY <1>7, Zenon DEF Looks
  <2> QED
    BY <1>1, <1>7, <2>2, <2>5, <2>6, ZenonT(120) DEF Kept, TypeOK
<1>8. \/ UNCHANGED <<state, pend, deferred, put>>
      \/ /\ Active(state) = {}
         /\ state' = spawnWorker(state, ts) /\ UNCHANGED <<pend, deferred, put>>
      \/ /\ Parents[ts] \in Active(state)
         /\ pend' = Insert(pend, ts) /\ UNCHANGED <<state, deferred, put>>
      \/ /\ RelatedToActive(ts) = {} /\ RelatedToAny(pend, ts)
         /\ pend' = Insert(pend, ts) /\ UNCHANGED <<state, deferred, put>>
      \/ /\ Active(state) # {}
         /\ deferred' = Insert(deferred, ts) /\ put' = TRUE /\ UNCHANGED <<state, pend>>
      \/ /\ RelatedToActive(ts) = {} /\ ~RelatedToAny(pend, ts)
         /\ \A w \in Active(state) : ~isHeavier(w, ts)
         /\ ~(Workers(state) >= MaxSyncWorkers)
         /\ state' = spawnWorker(state, ts) /\ UNCHANGED <<pend, deferred, put>>
  <2>1. CASE RelatedToActive(ts) # {}
    <3>1. \A w \in RelatedToActive(ts) :
            w # ts => w = Parents[ts] /\ Parents[ts] \in Active(state)
      BY Zenon DEF RelatedToActive
    <3> QED
      BY <2>1, <3>1, Zenon DEF addSyncTarget
  <2>2. CASE RelatedToActive(ts) = {}
    BY <2>2, Zenon DEF addSyncTarget
  <2> QED
    BY <2>1, <2>2, ZenonT(120)
<1> QED
  BY <1>2, <1>3, <1>4, <1>5, <1>6, <1>7, <1>8, ZenonT(120)

(* A worker ends while nothing has been deferred. *)
LEMMA EndKeepsFresh ==
  ASSUME NEW p \in Seq(Bucket), NEW s \in [TipSet -> Nat], PendIsFresh(p, s),
         NEW ts \in TipSet, s[ts] > 0, NEW q,
         q = Queues(p, <<>>, [s EXCEPT ![ts] = @ - 1]), NEW e,
         \/ e = Freed(q, ts)
         \/ /\ Related(p, ts) # {}
            /\ e.pend = Unrelated(p, ts)
            /\ e.state = spawnWorker(q.state, PendTarget(q, ts))
            /\ ~isHeavier(ts, PendTarget(q, ts))
            /\ \A w \in Active(q.state) : ~isHeavier(w, PendTarget(q, ts))
  PROVE  PendIsFresh(e.pend, e.state)
<1> DEFINE s2 == [s EXCEPT ![ts] = @ - 1]
           u  == Unrelated(p, ts)
<1>1. /\ Active(s2) = Active(s) \ {ts}
      /\ PendIsFresh(u, s2)
      /\ \A i \in DOMAIN p : \A t \in Range(p[i]) : sameChainAs(p[i], ts) =>
           \A k \in DOMAIN u : t \notin Range(u[k])
  BY EndFresh, ZenonT(120)
<1>2. s2 \in [TipSet -> Nat]
  OBVIOUS
<1> HIDE DEF s2
<1>3. q.pend = p /\ q.state = s2 /\ q \in QueueType
  <2>1. <<>> \in Seq(Bucket)
    OBVIOUS
  <2>2. PICK d : d = <<>> /\ d \in Seq(Bucket)
    BY <2>1, Zenon
  <2>3. q = Queues(p, d, s2)
    BY <2>2, ZenonT(120) DEF s2
  <2>4. Queues(p, d, s2).pend = p /\ Queues(p, d, s2).state = s2
    BY QueueFields
  <2>5. Queues(p, d, s2) \in QueueType
    BY <1>2, <2>2, QueueTyped, ZenonT(120)
  <2> QED
    BY <2>3, <2>4, <2>5, ZenonT(120)
<1> HIDE DEF u
<1>4. CASE e = Freed(q, ts)
  <2>1. e.pend = u /\ e.state = s2
    BY <1>3, <1>4, Zenon DEF Freed, QueueType, u
  <2> QED
    BY <1>1, <2>1, ZenonT(120)
<1>5. CASE /\ Related(p, ts) # {}
           /\ e.pend = Unrelated(p, ts)
           /\ e.state = spawnWorker(q.state, PendTarget(q, ts))
           /\ ~isHeavier(ts, PendTarget(q, ts))
           /\ \A w \in Active(q.state) : ~isHeavier(w, PendTarget(q, ts))
  <2> DEFINE h == PendTarget(q, ts)
  <2>1. PICK i \in DOMAIN p :
          /\ sameChainAs(p[i], ts) /\ h = heaviestTipSet(p[i])
          /\ p[i] \in Bucket
    BY <1>3, <1>5, PendTargetIs, ZenonT(120)
  <2> HIDE DEF h
  <2>2. FreshBucket(p[i], s) /\ ts \in Active(s) /\ ~isHeavier(ts, h)
    BY <1>5, Zenon DEF PendIsFresh, Active, h
  <2>3. /\ h \in Range(p[i]) /\ h \in TipSet /\ h \notin Active(s)
        /\ Parents[h] \notin Active(s) \ {ts}
    BY <2>1, <2>2, PendTargetFresh, ZenonT(120)
  <2>4. /\ h \notin Active(s2) /\ Parents[h] \notin Active(s2)
        /\ \A w \in Active(s2) : ~isHeavier(w, h)
        /\ \A k \in DOMAIN u : h \notin Range(u[k])
    BY <1>1, <1>3, <1>5, <2>1, <2>3, ZenonT(120) DEF h
  <2>5. PendIsFresh(u, spawnWorker(s2, h))
    BY <1>1, <1>2, <2>3, <2>4, SpawnFresh, ZenonT(120)
  <2> QED
    BY <1>3, <1>5, <2>5, ZenonT(120) DEF h, u
<1> QED
  BY <1>4, <1>5, ZenonT(120)

LEMMA WorkerStatusKeeps ==
  ASSUME TypeOK, Kept, NEW ts \in TipSet, NEW ok \in BOOLEAN, NEW fast \in BOOLEAN,
         handleWorkerStatus(ts, ok, fast)
  PROVE  Kept' /\ Looks /\ recent' \in Seq(TipSet) /\ initialSyncDone' \in BOOLEAN
<1> DEFINE s2 == [state EXCEPT ![ts] = @ - 1]
           q  == Queues(pend, deferred, s2)
<1>1. /\ pend \in Seq(Bucket) /\ deferred \in Seq(Bucket) /\ state \in [TipSet -> Nat]
      /\ \A i \in DOMAIN pend : \E t \in Range(pend[i]) : Parents[t] \in Active(state)
      /\ IsFiniteSet(WorkersOf(state)) /\ Workers(state) <= MaxSyncWorkers
      /\ MaxSyncWorkers \in Nat
  BY KeptFacts, Zenon
<1>2. state[ts] > 0 /\ UNCHANGED <<heads, started, ticking, put>>
  BY Zenon DEF handleWorkerStatus
<1>3. recent' \in Seq(TipSet) /\ initialSyncDone' \in BOOLEAN
  <2>0. recent \in Seq(TipSet)
    BY Zenon DEF TypeOK
  <2>1. Append(recent, ts) \in Seq(TipSet) /\ Append(recent, ts) # <<>>
    BY <2>0
  <2>2. Push(recent, ts) \in Seq(TipSet)
    BY <2>1 DEF Push
  <2> QED
    BY <2>2, Zenon DEF handleWorkerStatus, TypeOK
<1>4. /\ s2 \in [TipSet -> Nat]
      /\ Active(state) = Active(s2) \cup {ts}
      /\ IsFiniteSet(WorkersOf(s2))
      /\ Workers(s2) = Workers(state) - 1 /\ Workers(state) \in Nat \ {0}
  BY <1>1, <1>2, EndCounts, ZenonT(120)
<1>5. PICK o \in selectSyncTarget(q, recent', ts) : Becomes(Chosen(o))
  BY Zenon DEF handleWorkerStatus
<1> HIDE DEF s2
<1>6. q.pend = pend /\ q.deferred = deferred /\ q.state = s2 /\ q \in QueueType
  <2>1. q.pend = pend /\ q.deferred = deferred /\ q.state = s2
    BY QueueFields
  <2>2. q \in QueueType
    BY <1>1, <1>4, QueueTyped, ZenonT(120)
  <2> QED
    BY <2>1, <2>2, Zenon
<1> HIDE DEF q
<1> DEFINE e == Chosen(o)
<1>7. /\ \A i \in DOMAIN q.pend :
           \E t \in Range(q.pend[i]) : Parents[t] \in Active(q.state) \cup {ts}
      /\ IsFiniteSet(WorkersOf(q.state)) /\ Workers(q.state) < MaxSyncWorkers
  <2>1. Workers(s2) < MaxSyncWorkers
    BY <1>1, <1>4
  <2>2. \A i \in DOMAIN pend : \E t \in Range(pend[i]) : Parents[t] \in Active(s2) \cup {ts}
    BY <1>1, <1>4, Zenon
  <2> QED
    BY <1>4, <1>6, <2>1, <2>2, ZenonT(120)
<1>8. /\ Ready(e)
      /\ \/ \A t \in Targets(q.deferred) : t \in Targets(e.deferred)
         \/ Active(q.state) = {} /\ e.state = q.state
         \/ \A t \in Targets(q.deferred) :
              \/ t \in Targets(e.deferred) \/ t \in Held(e.pend)
              \/ \E u \in Active(e.state) \cup Range(recent') : u = t \/ isHeavier(u, t)
      /\ \/ q.deferred = <<>> /\ e = Freed(q, ts)
         \/ q.deferred # <<>>
         \/ /\ Related(q.pend, ts) # {}
            /\ e.deferred = q.deferred
            /\ e.pend = Unrelated(q.pend, ts)
            /\ e.state = spawnWorker(q.state, PendTarget(q, ts))
            /\ ~isHeavier(ts, PendTarget(q, ts))
            /\ \A w \in Active(q.state) : ~isHeavier(w, PendTarget(q, ts))
  BY <1>3, <1>6, <1>7, SelectSyncGrown, ZenonT(120)
<1>9. pend' = e.pend /\ deferred' = e.deferred /\ state' = e.state
  BY <1>5, Zenon DEF Becomes
<1> HIDE DEF e
<1>10. Ready(Queues(pend', deferred', state'))
  <2>1. e \in QueueType
    BY <1>8, Zenon DEF Ready, Counted, Sound
  <2>2. Queues(pend', deferred', state') = e
    BY <1>9, <2>1, ZenonT(120) DEF QueueType, Queues
  <2> QED
    BY <1>8, <2>2, Zenon
<1>11. Looks
  <2>1. Active(s2) = {} => Workers(state) = 1 /\ Workers(s2) = 0
    BY <1>4, NoWorkers
  <2>2. Held(pend') = UNION {Range(pend'[i]) : i \in DOMAIN pend'}
    BY Zenon DEF Held
  <2>3. CASE \A t \in Targets(deferred) : t \in Targets(deferred')
    BY <2>3, Zenon DEF Looks
  <2>4. CASE Active(s2) = {} /\ state' = s2
    BY <2>1, <2>4, Zenon DEF Looks
  <2>5. CASE \A t \in Targets(deferred) :
               \/ t \in Targets(deferred') \/ t \in Held(pend')
               \/ \E u \in Active(state') \cup Range(recent') : u = t \/ isHeavier(u, t)
    BY <2>2, <2>5, Zenon DEF Looks
  <2> QED
    BY <1>6, <1>8, <1>9, <2>3, <2>4, <2>5, ZenonT(120)
<1>12. ASSUME ~put PROVE deferred' = <<>> /\ PendIsFresh(pend', state')
  <2>1. deferred = <<>> /\ PendIsFresh(pend, state)
    BY <1>12, Zenon DEF Kept
  <2>2. \/ e = Freed(q, ts)
        \/ /\ Related(pend, ts) # {}
           /\ e.deferred = deferred
           /\ e.pend = Unrelated(pend, ts)
           /\ e.state = spawnWorker(q.state, PendTarget(q, ts))
           /\ ~isHeavier(ts, PendTarget(q, ts))
           /\ \A w \in Active(q.state) : ~isHeavier(w, PendTarget(q, ts))
    BY <1>6, <1>8, <2>1, ZenonT(120)
  <2>3. e.deferred = <<>>
    BY <1>6, <2>1, <2>2, ZenonT(120) DEF Freed, QueueType
  <2>4. q = Queues(pend, <<>>, [state EXCEPT ![ts] = @ - 1])
    BY <2>1, Zenon DEF q, s2
  <2>5. PendIsFresh(e.pend, e.state)
    BY <1>1, <1>2, <2>1, <2>2, <2>4, EndKeepsFresh, ZenonT(120)
  <2> QED
    BY <1>9, <2>3, <2>5, ZenonT(120)
<1>13. ~started' => Active(state') = {} /\ pend' = <<>>
  BY <1>2, <1>4, ZenonT(120) DEF Kept
<1> QED
  BY <1>2, <1>3, <1>10, <1>11, <1>12, <1>13, ZenonT(120) DEF Kept

LEMMA TickKeeps ==
  ASSUME TypeOK, Kept, Tick
  PROVE  Kept' /\ Looks
<1> DEFINE q == Queues(pend, deferred, state)
<1>1. q.pend = pend /\ q.deferred = deferred /\ q.state = state /\ Ready(q)
  BY ReadyIs, ZenonT(120) DEF Kept
<1>2. UNCHANGED <<heads, started, recent, put>> /\ recent \in Seq(TipSet)
  BY Zenon DEF Tick, TypeOK
<1>3. PICK e \in handleInitialSyncDone(q, recent) : Becomes(e)
  BY Zenon DEF Tick
<1> HIDE DEF q
<1>4. Grown(q, recent, e)
  BY <1>1, <1>2, <1>3, InitialSyncDoneGrown, Zenon
<1>5. /\ Ready(e) /\ Active(state) \subseteq Active(e.state)
      /\ deferred = <<>> => e = q
      /\ \A t \in Targets(deferred) : LookedAt(q, recent, e, t)
  BY <1>1, <1>4, ZenonT(120) DEF Grown
<1>6. pend' = e.pend /\ deferred' = e.deferred /\ state' = e.state
  BY <1>3, Zenon DEF Becomes
<1>7. Ready(Queues(pend', deferred', state'))
  <2>1. e \in QueueType
    BY <1>5, Zenon DEF Ready, Counted, Sound
  <2>2. Queues(pend', deferred', state') = e
    BY <1>6, <2>1, ZenonT(120) DEF QueueType, Queues
  <2> QED
    BY <1>5, <2>2, ZenonT(120)
<1>8. Looks
  <2> SUFFICES ASSUME NEW t \in Targets(deferred)
               PROVE  \/ t \in Targets(deferred') \/ t \in Held(pend')
                      \/ \E u \in Active(state') \cup Range(recent') :
                           u = t \/ isHeavier(u, t)
    BY Zenon DEF Looks, Held
  <2>1. Active(state) # {}
    <3>1. deferred # <<>>
      BY SMTT(120) DEF Targets
    <3> QED
      BY <1>1, <3>1, Zenon DEF Ready
  <2> QED
    BY <1>1, <1>2, <1>5, <1>6, <2>1, ZenonT(120) DEF LookedAt
<1>9. ~put => deferred' = <<>> /\ PendIsFresh(pend', state')
  BY <1>1, <1>5, <1>6, ZenonT(120) DEF Kept
<1>10. ~started => Active(state') = {} /\ pend' = <<>>
  <2> SUFFICES ASSUME ~started PROVE Active(state') = {} /\ pend' = <<>>
    BY Zenon
  <2>1. Active(state) = {} /\ pend = <<>>
    BY Zenon DEF Kept
  <2>2. deferred = <<>>
    BY <1>1, <2>1, ZenonT(120) DEF Ready
  <2> QED
    BY <1>1, <1>5, <1>6, <2>1, <2>2, ZenonT(120)
<1> QED
  BY <1>2, <1>7, <1>8, <1>9, <1>10, ZenonT(120) DEF Kept

LEMMA InitSyncInv == Init => SyncInv
<1> SUFFICES ASSUME Init PROVE SyncInv
  BY Zenon
<1>1. /\ <<>> \in Seq(Bucket) /\ <<>> \in Seq(TipSet) /\ DOMAIN <<>> = {}
  OBVIOUS
<1>2. state \in [TipSet -> Nat] /\ Active(state) = {}
  BY DEF Init, Active
<1>3. /\ Queues(pend, deferred, state) \in QueueType
      /\ heads \in [Peer -> TipSet \cup {NONE}] /\ recent \in Seq(TipSet)
  BY <1>1, <1>2, Zenon DEF Init, Queues, QueueType
<1>4. TypeOK
  BY <1>3, Zenon DEF Init, TypeOK
<1>5. IsFiniteSet(WorkersOf(state)) /\ Workers(state) <= MaxSyncWorkers
  <2>1. \A t \in TipSet : 1 .. state[t] = {}
    BY DEF Init
  <2>2. WorkersOf(state) = {}
    BY <2>1, Zenon DEF WorkersOf
  <2>3. IsFiniteSet({}) /\ Cardinality({}) = 0
    BY FS_EmptySet, Zenon
  <2> QED
    BY <2>2, <2>3, SyncAssumption DEF Workers
<1>6. NothingOrphaned /\ PendIsFresh(pend, state)
  BY <1>1, <1>2, ZenonT(120) DEF Init, NothingOrphaned, PendIsFresh
<1> QED
  BY <1>2, <1>4, <1>5, <1>6, ZenonT(120) DEF Init, SyncInv

(* Every step of the scheduler keeps the invariant and looks at what was   *)
(* deferred.                                                               *)
LEMMA NextSyncInv ==
  ASSUME SyncInv, [Next]_vars
  PROVE  SyncInv' /\ (Looks \/ UNCHANGED vars)
<1>1. TypeOK /\ Kept
  BY InvKept, Zenon
<1>2. ASSUME NEW p \in Peer, NEW ts \in TipSet, handlePeerHead(p, ts)
      PROVE  TypeOK' /\ Kept' /\ Looks
  <2>1. UNCHANGED <<recent, initialSyncDone, ticking>>
    BY <1>2, Zenon DEF handlePeerHead
  <2>2. /\ Kept' /\ Looks
        /\ heads' \in [Peer -> TipSet \cup {NONE}] /\ started' \in BOOLEAN /\ put' \in BOOLEAN
    <3>1. CASE handleFirstHeads(p, ts)
      BY <1>1, <3>1, FirstHeadsKeeps, ZenonT(120)
    <3>2. CASE addSyncTarget(ts)
      BY <1>1, <3>2, AddSyncTargetKeeps, ZenonT(120) DEF TypeOK
    <3> QED
      BY <1>2, <3>1, <3>2, ZenonT(120) DEF handlePeerHead
  <2>3. Queues(pend', deferred', state') \in QueueType
    BY <2>2, ReadyIs, ZenonT(120) DEF Kept
  <2> QED
    BY <1>1, <2>1, <2>2, <2>3, ZenonT(120) DEF TypeOK
<1>3. ASSUME NEW ts \in TipSet, NEW ok \in BOOLEAN, NEW fast \in BOOLEAN,
             handleWorkerStatus(ts, ok, fast)
      PROVE  TypeOK' /\ Kept' /\ Looks
  <2>1. UNCHANGED <<heads, started, ticking, put>>
    BY <1>3, Zenon DEF handleWorkerStatus
  <2>2. Kept' /\ Looks /\ recent' \in Seq(TipSet) /\ initialSyncDone' \in BOOLEAN
    BY <1>1, <1>3, WorkerStatusKeeps, Zenon
  <2>3. Queues(pend', deferred', state') \in QueueType
    BY <2>2, ReadyIs, Zenon DEF Kept
  <2> QED
    BY <1>1, <2>1, <2>2, <2>3, ZenonT(120) DEF TypeOK
<1>4. ASSUME Tick PROVE TypeOK' /\ Kept' /\ Looks
  <2>1. UNCHANGED <<heads, started, recent, initialSyncDone, put>> /\ ticking' = FALSE
    BY <1>4, Zenon DEF Tick
  <2>2. Kept' /\ Looks
    BY <1>1, <1>4, TickKeeps, ZenonT(120)
  <2>3. Queues(pend', deferred', state') \in QueueType
    BY <2>2, ReadyIs, Zenon DEF Kept
  <2> QED
    BY <1>1, <2>1, <2>2, <2>3, ZenonT(120) DEF TypeOK
<1>5. CASE UNCHANGED vars
  BY <1>1, <1>5, ZenonT(120) DEF vars, TypeOK, Kept, SyncInv, NothingOrphaned
<1>6. TypeOK' /\ Kept' => SyncInv'
  <2>1. Ready(Queues(pend', deferred', state'))
          <=> /\ Queues(pend', deferred', state') \in QueueType
              /\ \A i \in DOMAIN pend' :
                   \E t \in Range(pend'[i]) : Parents[t] \in Active(state')
              /\ IsFiniteSet(WorkersOf(state')) /\ Workers(state') <= MaxSyncWorkers
              /\ deferred' = <<>> \/ Active(state') # {}
    BY ReadyIs
  <2> QED
    BY <2>1, ZenonT(120) DEF SyncInv, Kept, NothingOrphaned
<1> QED
  BY <1>2, <1>3, <1>4, <1>5, <1>6, ZenonT(120) DEF Next

LEMMA SpecSyncInv == Spec => []SyncInv
<1>1. Init => SyncInv
  BY InitSyncInv, Zenon
<1>2. SyncInv /\ [Next]_vars => SyncInv'
  BY NextSyncInv, Zenon
<1> QED
  BY <1>1, <1>2, PTL DEF Spec

(* For any tree of tipsets, any number of peers and of workers: every      *)
(* bucket of pend holds a child of a tipset some worker syncs, so that     *)
(* selectSyncTarget finds it when the worker ends, and deferred targets    *)
(* are kept only while a worker runs.                                      *)
THEOREM NothingForgotten == Spec => []NothingOrphaned
<1>1. SyncInv => NothingOrphaned
  BY ZenonT(120) DEF SyncInv
<1> QED
  BY <1>1, SpecSyncInv, PTL

(* There are never more than MaxSyncWorkers workers, and as long as        *)
(* addSyncTarget has deferred nothing no tipset is synced by two workers.  *)
THEOREM Deduplicated == Spec => []DedupUnlessDeferred
<1>1. SyncInv => DedupUnlessDeferred
  <2> SUFFICES ASSUME SyncInv, ~put PROVE OneWorkerPerTarget
    BY Zenon DEF SyncInv, DedupUnlessDeferred
  <2>1. state \in [TipSet -> Nat]
    BY ReadyIs, Zenon DEF SyncInv, TypeOK
  <2>2. \A t \in Active(state) : state[t] = 1
    BY Zenon DEF SyncInv, PendIsFresh
  <2> QED
    BY <2>1, <2>2 DEF Active, OneWorkerPerTarget
<1> QED
  BY <1>1, SpecSyncInv, PTL

(* A deferred target leaves deferred only for a worker or for pend,        *)
(* because one as heavy is known, or when the last worker ends             *)
(* (selectDeferredSyncTarget).                                             *)
THEOREM DeferredLookedAt == Spec => DeferredAreLookedAt
<1>1. SyncInv /\ [Next]_vars => [Looks]_vars
  BY NextSyncInv, Zenon
<1>2. [][Looks]_vars => DeferredAreLookedAt
  BY PTL DEF Looks, DeferredAreLookedAt
<1> QED
  BY <1>1, <1>2, SpecSyncInv, PTL DEF Spec
============================================================================
