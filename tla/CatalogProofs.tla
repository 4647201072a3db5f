--------------------------- MODULE CatalogProofs ---------------------------
(***************************************************************************)
(* Proofs about the catalog for any cids, requests, stamps and handlers:   *)
(* what recording preserves, what the labels of the versions say, and that *)
(* catalog.json, through interleavings, failures and crashes, changes only *)
(* by whole records.                                                       *)
(***************************************************************************)
EXTENDS CatalogStore, CatalogLabels, FiniteSetTheorems, TLAPS

(* The fields of a new version. *)
LEMMA NewVersionFields ==
  ASSUME NEW root \in Cid, NEW r \in Request,
         NEW prev \in Cid \cup {NULL}, NEW t \in Time
  PROVE  LET v == NewVersion(root, r, prev, t)
         IN v \in Version /\ v.root = root /\ v.cid = r.cid /\ v.prev = prev
  BY CatalogAssumption, Zenon DEF NewVersion, Version

(* Adding a version leaves the files and the other versions alone. *)
LEMMA WithVersionAdds ==
  ASSUME NEW cat \in CatalogType, NEW v \in Version
  PROVE  /\ WithVersion(cat, v) \in CatalogType
         /\ WithVersion(cat, v).files = cat.files
         /\ WithVersion(cat, v).versions = cat.versions \cup {v}
  BY Zenon DEF WithVersion, CatalogType

(* Adding a file leaves the versions and the other files alone. *)
LEMMA WithFileAdds ==
  ASSUME NEW cat \in CatalogType, NEW r \in Request, NEW t \in Time
  PROVE  LET f == NewFile(r, t) IN
         /\ f.root = r.cid
         /\ WithFile(cat, f) \in CatalogType
         /\ WithFile(cat, f).files = cat.files \cup {f}
         /\ WithFile(cat, f).versions = cat.versions
<1>1. NewFile(r, t) \in File /\ NewFile(r, t).root = r.cid
  BY CatalogAssumption, Zenon DEF NewFile, File
<1> QED
  BY <1>1, Zenon DEF WithFile, CatalogType

(* What a record of r makes of a catalog: nothing, one more version of a   *)
(* file that has the previous version, or a new file with its root.        *)
Kept(cat, r, res) ==
  /\ res = cat
  /\ r.prev = NULL => HasVersion(cat, r.cid, r.cid)
  /\ r.prev # NULL => \E f \in cat.files : /\ HasVersion(cat, f.root, r.prev)
                                           /\ HasVersion(cat, f.root, r.cid)

Patched(cat, r, t, res, root) ==
  /\ r.prev # NULL
  /\ HasFile(cat, root)
  /\ HasVersion(cat, root, r.prev)
  /\ ~HasVersion(cat, root, r.cid)
  /\ res.files = cat.files
  /\ res.versions = cat.versions \cup {NewVersion(root, r, r.prev, t)}

Created(cat, r, t, res) ==
  /\ r.prev = NULL
  /\ ~HasFile(cat, r.cid)
  /\ res.files = cat.files \cup {NewFile(r, t)}
  /\ res.versions = cat.versions \cup {NewVersion(r.cid, r, NULL, t)}

LEMMA ResultsAre ==
  ASSUME NEW cat \in CatalogType, Rooted(cat), NEW r \in Request,
         NEW t \in Time, NEW res \in Results(cat, r, t)
  PROVE  /\ res \in CatalogType
         /\ \/ Kept(cat, r, res)
            \/ \E root \in Cid : Patched(cat, r, t, res, root)
            \/ Created(cat, r, t, res)
<1>0. r.cid \in Cid /\ r.prev \in Cid \cup {NULL}
  BY CatalogAssumption, Zenon
<1>1. CASE r.prev = NULL
  <2> DEFINE v == NewVersion(r.cid, r, NULL, t)
  <2>1. res = upsertInitialVersion(cat, r, t)
    BY <1>1, Zenon DEF Results
  <2>2. CASE HasFile(cat, r.cid)
    <3>1. HasVersion(cat, r.cid, r.cid)
      BY <2>2, Zenon DEF Rooted, HasFile
    <3> QED
      BY <1>1, <2>1, <2>2, <3>1, Zenon DEF upsertInitialVersion, Kept
  <2>3. CASE ~HasFile(cat, r.cid)
    <3> DEFINE c1 == WithFile(cat, NewFile(r, t))
    <3>1. res = WithVersion(c1, v)
      BY <2>1, <2>3, Zenon DEF upsertInitialVersion
    <3>2. /\ c1 \in CatalogType
          /\ c1.files = cat.files \cup {NewFile(r, t)}
          /\ c1.versions = cat.versions
      BY WithFileAdds, Zenon
    <3>3. v \in Version
      BY <1>0, NewVersionFields, Zenon
    <3> HIDE DEF c1, v
    <3>4. /\ res \in CatalogType
          /\ res.files = c1.files
          /\ res.versions = c1.versions \cup {v}
      BY <3>1, <3>2, <3>3, WithVersionAdds, Zenon
    <3> QED
      BY <1>1, <2>3, <3>2, <3>4, Zenon DEF Created, v
  <2> QED
    BY <2>2, <2>3, Zenon
<1>2. CASE r.prev # NULL
  <2>1. PICK f \in Locations(cat, r.prev) :
               res = appendPatchVersion(cat, r, t, f)
    BY <1>2, Zenon DEF Results
  <2>2. f \in cat.files /\ HasVersion(cat, f.root, r.prev)
    BY <2>1, Zenon DEF Locations, Holders
  <2>3. f.root \in Cid /\ HasFile(cat, f.root)
    BY <2>2, Zenon DEF CatalogType, File, HasFile
  <2>4. CASE HasVersion(cat, f.root, r.cid)
    BY <1>2, <2>1, <2>2, <2>4, Zenon DEF appendPatchVersion, Kept
  <2>5. CASE ~HasVersion(cat, f.root, r.cid)
    <3> DEFINE v == NewVersion(f.root, r, r.prev, t)
    <3>1. res = WithVersion(cat, v)
      BY <2>1, <2>5, Zenon DEF appendPatchVersion
    <3>2. v \in Version
      BY <1>0, <2>3, NewVersionFields, Zenon
    <3> HIDE DEF v
    <3>3. /\ res \in CatalogType
          /\ res.files = cat.files
          /\ res.versions = cat.versions \cup {v}
      BY <3>1, <3>2, WithVersionAdds, Zenon
    <3> QED
      BY <1>2, <2>2, <2>3, <2>5, <3>3, Zenon DEF Patched, v
  <2> QED
    BY <2>4, <2>5, Zenon
<1> QED
  BY <1>1, <1>2, Zenon

(* Recording only adds. *)
LEMMA ResultsGrow ==
  ASSUME NEW cat \in CatalogType, Rooted(cat), NEW r \in Request,
         NEW t \in Time, NEW res \in Results(cat, r, t)
  PROVE  cat.files \subseteq res.files /\ cat.versions \subseteq res.versions
  BY ResultsAre DEF Kept, Patched, Created

(* Recording keeps every file rooted. *)
LEMMA ResultsRooted ==
  ASSUME NEW cat \in CatalogType, Rooted(cat), NEW r \in Request,
         NEW t \in Time, NEW res \in Results(cat, r, t)
  PROVE  Rooted(res)
<1>0. r.cid \in Cid /\ r.prev \in Cid \cup {NULL}
  BY CatalogAssumption, Zenon
<1>1. CASE Kept(cat, r, res)
  BY <1>1, Zenon DEF Kept
<1>2. ASSUME NEW root \in Cid, Patched(cat, r, t, res, root)
      PROVE  Rooted(res)
  <2> DEFINE v == NewVersion(root, r, r.prev, t)
  <2>1. v.root = root /\ v.cid = r.cid /\ v.prev = r.prev
    BY <1>0, NewVersionFields
  <2>2. r.cid # root
    BY <1>2 DEF Patched, Rooted, HasFile
  <2>3. res.files = cat.files /\ res.versions = cat.versions \cup {v}
    BY <1>2, Zenon DEF Patched
  <2> HIDE DEF v
  <2> QED
    BY <1>2, <2>1, <2>2, <2>3 DEF Patched, Rooted, HasFile, HasVersion
<1>3. CASE Created(cat, r, t, res)
  <2> DEFINE v == NewVersion(r.cid, r, NULL, t)
             f == NewFile(r, t)
  <2>1. v.root = r.cid /\ v.cid = r.cid /\ v.prev = NULL /\ f.root = r.cid
    BY <1>0, NewVersionFields, WithFileAdds, SMTT(120)
  <2>2. res.files = cat.files \cup {f} /\ res.versions = cat.versions \cup {v}
    BY <1>3, Zenon DEF Created
  <2>3. /\ \A g \in cat.files : g.root # r.cid
        /\ \A w \in cat.versions : w.root # r.cid
    BY <1>3 DEF Created, Rooted, HasFile
  <2> HIDE DEF v, f
  <2> QED
    BY <2>1, <2>2, <2>3 DEF Rooted, HasFile, HasVersion
<1> QED
  BY <1>1, <1>2, <1>3, ResultsAre, Zenon

(* Recording leaves the version in the catalog. *)
LEMMA ResultsRecorded ==
  ASSUME NEW cat \in CatalogType, Rooted(cat), NEW r \in Request,
         NEW t \in Time, NEW res \in Results(cat, r, t)
  PROVE  Recorded(res, r)
<1>0. r.cid \in Cid /\ r.prev \in Cid \cup {NULL}
  BY CatalogAssumption, Zenon
<1>1. CASE Kept(cat, r, res)
  BY <1>1, Zenon DEF Kept, HasVersion, Recorded
<1>2. ASSUME NEW root \in Cid, Patched(cat, r, t, res, root)
      PROVE  Recorded(res, r)
  <2> DEFINE v == NewVersion(root, r, r.prev, t)
  <2>1. v.root = root /\ v.cid = r.cid /\ v.prev = r.prev
    BY <1>0, NewVersionFields
  <2>2. v \in res.versions /\ cat.versions \subseteq res.versions
    BY <1>2, Zenon DEF Patched
  <2> HIDE DEF v
  <2> QED
    BY <1>2, <2>1, <2>2, Zenon DEF Patched, HasVersion, Recorded
<1>3. CASE Created(cat, r, t, res)
  <2> DEFINE v == NewVersion(r.cid, r, NULL, t)
  <2>1. v.root = r.cid /\ v.cid = r.cid /\ v.prev = NULL
    BY <1>0, NewVersionFields, SMTT(120)
  <2>2. v \in res.versions /\ r.prev = NULL
    BY <1>3, Zenon DEF Created
  <2> HIDE DEF v
  <2> QED
    BY <2>1, <2>2, Zenon DEF Recorded
<1> QED
  BY <1>1, <1>2, <1>3, ResultsAre, Zenon

----------------------------------------------------------------------------
(* The abstract catalog. *)

CatalogInv == TypeOK /\ CatalogRooted

LEMMA InitCatalogInv == Init => CatalogInv
  BY DEF Init, CatalogInv, TypeOK, CatalogRooted, Empty, CatalogType, Rooted

LEMMA NextCatalogInv == CatalogInv /\ [Next]_catalog => CatalogInv'
<1> SUFFICES ASSUME CatalogInv, [Next]_catalog PROVE CatalogInv'
  BY Zenon
<1>1. catalog \in CatalogType /\ Rooted(catalog)
  BY Zenon DEF CatalogInv, TypeOK, CatalogRooted
<1>2. CASE Next
  <2>1. PICK r \in Request, t \in Time : catalog' \in Results(catalog, r, t)
    BY <1>2, Zenon DEF Next, Record
  <2>2. catalog' \in CatalogType
    BY <1>1, <2>1, ResultsAre, Zenon
  <2>3. Rooted(catalog')
    BY <1>1, <2>1, ResultsRooted, Zenon
  <2> QED
    BY <2>2, <2>3, Zenon DEF CatalogInv, TypeOK, CatalogRooted
<1>3. CASE UNCHANGED catalog
  BY <1>3, Zenon DEF CatalogInv, TypeOK, CatalogRooted
<1> QED
  BY <1>2, <1>3, Zenon

(* Whatever deals are recorded, in whatever order, with whatever stamps:   *)
(* the catalog has its type and each of its files is a tree under its root *)
(* version in which a cid occurs once (upsertInitialVersion,               *)
(* appendPatchVersion).                                                    *)
THEOREM CatalogCorrect == Spec => [](TypeOK /\ CatalogRooted)
<1>1. Spec => []CatalogInv
  BY InitCatalogInv, NextCatalogInv, PTL DEF Spec
<1> QED
  BY <1>1, Zenon DEF CatalogInv

(* A record never drops or alters a file or a version recorded before. *)
THEOREM CatalogGrows == Spec => NothingLost
<1>1. CatalogInv /\ [Next]_catalog
        => [catalog.files \subseteq catalog'.files
            /\ catalog.versions \subseteq catalog'.versions]_catalog
  <2> SUFFICES ASSUME CatalogInv, Next
               PROVE  /\ catalog.files \subseteq catalog'.files
                      /\ catalog.versions \subseteq catalog'.versions
    BY Zenon
  <2>1. PICK r \in Request, t \in Time : catalog' \in Results(catalog, r, t)
    BY Zenon DEF Next, Record
  <2>2. catalog \in CatalogType /\ Rooted(catalog)
    BY Zenon DEF CatalogInv, TypeOK, CatalogRooted
  <2> QED
    BY <2>1, <2>2, ResultsGrow, Zenon
<1> QED
  BY <1>1, InitCatalogInv, NextCatalogInv, PTL DEF Spec, NothingLost

----------------------------------------------------------------------------
(* Induction and recursion, for sets of numbers and for trees of versions. *)

(* A set of numbers with 0 that is closed under successor is all of Nat. *)
LEMMA NatSetInduction ==
  ASSUME NEW T, 0 \in T, \A n \in Nat : n \in T => n + 1 \in T
  PROVE  Nat \subseteq T
<1> DEFINE R == OpToRel(<, Nat)
           C == {n \in Nat : n \notin T}
<1>1. SUFFICES ASSUME C # {} PROVE FALSE
  BY Zenon
<1>2. IsWellFoundedOn(R, Nat)
  BY NatLessThanWellFounded, Zenon
<1>3. \A x, y \in Nat : <<x, y>> \in R <=> x < y
  BY Zenon DEF OpToRel
<1> HIDE DEF R
<1>4. PICK x \in C : \A y \in C : ~(<<y, x>> \in R)
  BY <1>1, <1>2, WFMin, Zenon
<1>5. x # 0
  BY Zenon
<1>6. x - 1 \in Nat /\ x - 1 < x
  BY <1>5
<1>7. x - 1 \in T
  BY <1>3, <1>4, <1>6, Zenon
<1>8. (x - 1) + 1 \in T
  BY <1>6, <1>7, Zenon
<1> QED
  BY <1>8

(* f follows the step st from b for n steps. *)
Iterates(f, n, D, b, st) ==
  /\ f \in [0 .. n -> D]
  /\ f[0] = b
  /\ \A i \in 0 .. n - 1 : f[i + 1] = st[f[i]]

(* There is a sequence of iterates of every length. *)
LEMMA IteratesExist ==
  ASSUME NEW D, NEW b \in D, NEW st \in [D -> D]
  PROVE  \A n \in Nat : \E f : Iterates(f, n, D, b, st)
<1> DEFINE T == {n \in Nat : \E f : Iterates(f, n, D, b, st)}
<1>1. 0 \in T
  <2> DEFINE f == [i \in 0 .. 0 |-> b]
  <2>1. Iterates(f, 0, D, b, st)
    BY DEF Iterates
  <2> QED
    BY <2>1, Zenon
<1>2. ASSUME NEW n \in Nat, n \in T PROVE n + 1 \in T
  <2>1. PICK f : Iterates(f, n, D, b, st)
    BY <1>2, Zenon
  <2> DEFINE h == [i \in 0 .. n + 1 |-> IF i = n + 1 THEN st[f[n]] ELSE f[i]]
  <2>2. h \in [0 .. n + 1 -> D]
    BY <2>1 DEF Iterates
  <2>3. ASSUME NEW i \in 0 .. (n + 1) - 1 PROVE h[i + 1] = st[h[i]]
    BY <2>1 DEF Iterates
  <2>4. h[0] = b
    BY <2>1 DEF Iterates
  <2> HIDE DEF h
  <2>5. Iterates(h, n + 1, D, b, st)
    BY <2>2, <2>3, <2>4, Zenon DEF Iterates
  <2> QED
    BY <2>5
<1> HIDE DEF T
<1>3. Nat \subseteq T
  BY <1>1, <1>2, NatSetInduction, Zenon
<1> QED
  BY <1>3, Zenon DEF T

(* Two of them agree at the end of the shorter one. *)
LEMMA IteratesAgree ==
  ASSUME NEW D, NEW b, NEW st, NEW m \in Nat, NEW n \in Nat, m <= n,
         NEW f, Iterates(f, m, D, b, st), NEW h, Iterates(h, n, D, b, st)
  PROVE  f[m] = h[m]
<1> DEFINE T == {i \in Nat : i <= m => f[i] = h[i]}
<1>1. 0 \in T
  BY Zenon DEF Iterates
<1>2. ASSUME NEW i \in Nat, i \in T PROVE i + 1 \in T
  <2> SUFFICES ASSUME i + 1 <= m PROVE f[i + 1] = h[i + 1]
    OBVIOUS
  <2>1. f[i] = h[i] /\ i \in 0 .. m - 1 /\ i \in 0 .. n - 1
    BY <1>2
  <2> QED
    BY <2>1, ZenonT(120) DEF Iterates
<1> HIDE DEF T
<1>3. Nat \subseteq T
  BY <1>1, <1>2, NatSetInduction, Zenon
<1> QED
  BY <1>3 DEF T

IsMap(st, D) == st \in [D -> D]

Iteration(f, D, b, st) ==
  f \in [Nat -> D] /\ f[0] = b /\ \A n \in Nat : f[n + 1] = st[f[n]]

(* A function on Nat may be defined by a first value and a step. *)
LEMMA NatRecursion ==
  ASSUME NEW D, NEW b \in D, NEW st, IsMap(st, D)
  PROVE  \E f : Iteration(f, D, b, st)
<1> DEFINE it == [n \in Nat |-> CHOOSE f : Iterates(f, n, D, b, st)]
           F  == [n \in Nat |-> it[n][n]]
<1>1. \A n \in Nat : Iterates(it[n], n, D, b, st)
  BY IteratesExist, Zenon DEF IsMap
<1> HIDE DEF it
<1>2. F \in [Nat -> D]
  BY <1>1 DEF Iterates
<1>3. F[0] = b
  BY <1>1, Zenon DEF Iterates
<1>4. ASSUME NEW n \in Nat PROVE F[n + 1] = st[F[n]]
  <2>1. it[n + 1][n] = it[n][n]
    <3>1. n <= n + 1 /\ n + 1 \in Nat
      OBVIOUS
    <3> QED
      BY <1>1, <3>1, IteratesAgree
  <2>2. it[n + 1][n + 1] = st[it[n + 1][n]]
    BY <1>1 DEF Iterates
  <2> QED
    BY <2>1, <2>2
<1> HIDE DEF F
<1> QED
  BY <1>2, <1>3, <1>4, Zenon DEF Iteration

(* Every version but the root has a previous one, with a lower number. *)
LEMMA TreeFacts ==
  ASSUME NEW vs, NEW root, IsTree(vs, root)
  PROVE  /\ \A v \in vs : /\ v.cid \in Cid /\ v.at \in Nat /\ v.name \in Nat
                          /\ v.cid \in Nat /\ v.cid # NULL
         /\ \A w \in vs : w.cid # root => \E v \in vs : w.prev = v.cid
         /\ \A v, w \in vs : w.prev = v.cid => w.cid # root
         /\ Cardinality(vs) \in Nat
         /\ \E num \in [vs -> Nat] :
              /\ \A v \in vs : num[v] < Cardinality(vs)
              /\ \A v, w \in vs : w.prev = v.cid => num[v] < num[w]
<1>1. \A v \in vs : /\ v.cid \in Cid /\ v.at \in Nat /\ v.name \in Nat
                    /\ v.cid \in Nat /\ v.cid # NULL
  BY CatalogAssumption, Zenon DEF IsTree, Version
<1>2. Cardinality(vs) \in Nat
  BY FS_CardinalityType, Zenon DEF IsTree
<1>3. PICK num \in [vs -> 0 .. Cardinality(vs) - 1] : Numbering(vs, num)
  BY Zenon DEF IsTree
<1>4. num \in [vs -> Nat] /\ \A v \in vs : num[v] < Cardinality(vs)
  BY <1>2, <1>3
<1>5. \A v, w \in vs : w.prev = v.cid => num[v] < num[w]
  BY <1>3, Zenon DEF Numbering
<1>6. /\ \A w \in vs : w.cid # root => \E v \in vs : w.prev = v.cid
      /\ \A v, w \in vs : w.prev = v.cid => w.cid # root
  BY <1>1, Zenon DEF IsTree
<1> QED
  BY <1>1, <1>2, <1>4, <1>5, <1>6, Zenon

(* A set with the root and the children of its members has all versions. *)
LEMMA TreeInduction ==
  ASSUME NEW vs, NEW root, IsTree(vs, root), NEW T,
         \A v \in vs : v.cid = root => v \in T,
         \A v, w \in vs : w.prev = v.cid /\ v \in T => w \in T
  PROVE  vs \subseteq T
<1>1. PICK num \in [vs -> Nat] :
             \A v, w \in vs : w.prev = v.cid => num[v] < num[w]
  BY TreeFacts, Zenon
<1>2. \A w \in vs : w.cid # root => \E v \in vs : w.prev = v.cid
  BY TreeFacts
<1> DEFINE U == {n \in Nat : \A v \in vs : num[v] < n => v \in T}
<1>3. 0 \in U
  BY <1>1
<1>4. ASSUME NEW n \in Nat, n \in U PROVE n + 1 \in U
  <2> SUFFICES ASSUME NEW w \in vs, num[w] < n + 1 PROVE w \in T
    OBVIOUS
  <2>1. CASE w.cid # root
    <3>1. PICK v \in vs : w.prev = v.cid
      BY <1>2, <2>1, Zenon
    <3>2. num[v] < num[w] /\ num[v] \in Nat /\ num[w] \in Nat
      BY <1>1, <3>1, Zenon
    <3>3. num[v] < n
      BY <3>2
    <3> QED
      BY <1>4, <3>1, <3>3, Zenon
  <2> QED
    BY <2>1, Zenon
<1> HIDE DEF U
<1>5. Nat \subseteq U
  BY <1>3, <1>4, NatSetInduction, Zenon
<1>6. ASSUME NEW v \in vs PROVE v \in T
  <2>1. num[v] \in Nat /\ num[v] + 1 \in Nat /\ num[v] < num[v] + 1
    BY <1>1
  <2> QED
    BY <1>5, <2>1, Zenon DEF U
<1> QED
  BY <1>6, Zenon

(* st is a step to each version, and f is b at the root and follows st. *)
IsStep(st, vs, D) == st \in [vs -> [D -> D]]

Follows(f, vs, root, D, b, st) ==
  /\ f \in [vs -> D]
  /\ \A v \in vs : v.cid = root => f[v] = b
  /\ \A v, w \in vs : w.prev = v.cid => f[w] = st[w][f[v]]

(* A function on the versions may be defined by its value for the root and *)
(* a step from a version to its children.                                  *)
LEMMA TreeRecursion ==
  ASSUME NEW vs, NEW root, IsTree(vs, root),
         NEW D, NEW b \in D, NEW st, IsStep(st, vs, D)
  PROVE  \E f : Follows(f, vs, root, D, b, st)
<1>0. st \in [vs -> [D -> D]]
  BY Zenon DEF IsStep
<1>1. PICK num \in [vs -> Nat] :
             /\ \A v \in vs : num[v] < Cardinality(vs)
             /\ \A v, w \in vs : w.prev = v.cid => num[v] < num[w]
  BY TreeFacts, Zenon
<1>2. /\ \A w \in vs : w.cid # root => \E v \in vs : w.prev = v.cid
      /\ \A v, w \in vs : w.prev = v.cid => w.cid # root
      /\ \A v, w \in vs : v.cid = w.cid => v = w
  BY TreeFacts, Zenon DEF IsTree
<1> DEFINE Upto(n, f) ==
             /\ \A v \in vs : v.cid = root => f[v] = b
             /\ \A v, w \in vs : w.prev = v.cid /\ num[w] < n
                                   => f[w] = st[w][f[v]]
           U == {n \in Nat : \E f \in [vs -> D] : Upto(n, f)}
<1>3. 0 \in U
  <2> DEFINE f == [v \in vs |-> b]
  <2>1. f \in [vs -> D] /\ Upto(0, f)
    BY <1>1
  <2> QED
    BY <2>1, Zenon
<1>4. ASSUME NEW n \in Nat, n \in U PROVE n + 1 \in U
  <2>1. PICK f \in [vs -> D] : Upto(n, f)
    BY <1>4, Zenon
  <2> DEFINE up(w) == CHOOSE v \in vs : w.prev = v.cid
             h == [w \in vs |-> IF num[w] = n /\ w.cid # root
                                THEN st[w][f[up(w)]] ELSE f[w]]
  <2>2. \A v, w \in vs : w.prev = v.cid => up(w) = v
    BY <1>2, Zenon
  <2>3. \A w \in vs : w.cid # root => up(w) \in vs
    BY <1>2, <2>2, Zenon
  <2> HIDE DEF up
  <2>4. h \in [vs -> D]
    BY <1>0, <2>3
  <2>5. \A v \in vs : v.cid = root => h[v] = b
    BY <2>1, Zenon
  <2>6. ASSUME NEW v \in vs, NEW w \in vs, w.prev = v.cid, num[w] < n + 1
        PROVE  h[w] = st[w][h[v]]
    <3>1. num[v] < num[w] /\ num[v] \in Nat /\ num[w] \in Nat
      BY <1>1, <2>6, Zenon
    <3>2. num[v] # n /\ h[v] = f[v]
      BY <2>6, <3>1
    <3>3. CASE num[w] = n
      <4>1. h[w] = st[w][f[up(w)]]
        BY <1>2, <2>6, <3>3, Zenon
      <4> QED
        BY <2>2, <2>6, <3>2, <4>1, Zenon
    <3>4. CASE num[w] # n
      <4>1. num[w] < n /\ h[w] = f[w]
        BY <2>6, <3>1, <3>4
      <4> QED
        BY <2>1, <2>6, <3>2, <4>1, Zenon
    <3> QED
      BY <3>3, <3>4, Zenon
  <2> HIDE DEF h
  <2>7. Upto(n + 1, h)
    BY <2>5, <2>6, Zenon
  <2> QED
    BY <2>4, <2>7
<1> HIDE DEF U
<1>5. Nat \subseteq U
  BY <1>3, <1>4, NatSetInduction, Zenon
<1>6. Cardinality(vs) \in Nat
  BY TreeFacts, Zenon
<1>7. PICK f \in [vs -> D] : Upto(Cardinality(vs), f)
  BY <1>5, <1>6, Zenon DEF U
<1> QED
  BY <1>1, <1>7, ZenonT(120) DEF Follows

----------------------------------------------------------------------------
(* Labels. *)

Labels == {l \in Seq(Nat) : Len(l) >= 1}

(* lab labels the versions as the walk from the root does. *)
Labelling(vs, root, lab) ==
  /\ lab \in [vs -> Labels]
  /\ \A v \in vs : v.cid = root => lab[v] = <<1>>
  /\ \A v, w \in vs : w.prev = v.cid => lab[w] = ChildLabel(lab[v], Rank(vs, w))

LEMMA RankType ==
  ASSUME NEW vs, NEW root, IsTree(vs, root), NEW v \in vs
  PROVE  Rank(vs, v) \in Nat
<1> DEFINE S == {w \in Children(vs, v.prev) : Earlier(w, v)}
<1>1. S \subseteq vs /\ IsFiniteSet(vs)
  BY Zenon DEF Children, IsTree
<1>2. IsFiniteSet(S)
  BY <1>1, FS_Subset, Zenon
<1> QED
  BY <1>2, FS_CardinalityType, Zenon DEF Rank

(* The root version is the only one without a previous version. *)
LEMMA RankOfRoot ==
  ASSUME NEW vs, NEW root, IsTree(vs, root), NEW v \in vs, v.cid = root
  PROVE  Rank(vs, v) = 0
<1>1. Children(vs, v.prev) = {v}
  BY DEF Children, IsTree
<1>2. ~Earlier(v, v)
  BY TreeFacts DEF Earlier
<1>3. {w \in Children(vs, v.prev) : Earlier(w, v)} = {}
  BY <1>1, <1>2, Zenon
<1> QED
  BY <1>3, FS_EmptySet, Zenon DEF Rank

(* The label of a child: the first number is raised, and the rank follows  *)
(* at the end unless it is 0.                                              *)
LEMMA ChildLabelIs ==
  ASSUME NEW l \in Labels, NEW k \in Nat
  PROVE  LET c == ChildLabel(l, k) IN
         /\ c \in Labels
         /\ c[1] = l[1] + 1
         /\ \A i \in 2 .. Len(l) : c[i] = l[i]
         /\ k = 0 => Len(c) = Len(l)
         /\ k # 0 => Len(c) = Len(l) + 1 /\ c[Len(l) + 1] = k
<1> DEFINE g == nextGenerationLabel(l)
<1>1. l \in Seq(Nat) /\ Len(l) \in Nat /\ Len(l) >= 1 /\ l[1] \in Nat
  BY DEF Labels
<1>2. /\ g \in Seq(Nat) /\ Len(g) = Len(l)
      /\ g[1] = l[1] + 1
      /\ \A i \in 2 .. Len(l) : g[i] = l[i]
  BY <1>1 DEF nextGenerationLabel
<1> HIDE DEF g
<1>3. CASE k = 0
  <2>1. ChildLabel(l, k) = g
    BY <1>3, Zenon DEF ChildLabel, g
  <2> QED
    BY <1>1, <1>2, <1>3, <2>1, Zenon DEF Labels
<1>4. CASE k # 0
  <2> DEFINE c == Append(g, k)
  <2>1. ChildLabel(l, k) = c
    BY <1>4, Zenon DEF ChildLabel, g
  <2>2. /\ c \in Seq(Nat) /\ Len(c) = Len(l) + 1 /\ c[Len(l) + 1] = k
        /\ \A i \in 1 .. Len(l) : c[i] = g[i]
    BY <1>1, <1>2
  <2> HIDE DEF c
  <2>3. c[1] = l[1] + 1 /\ \A i \in 2 .. Len(l) : c[i] = l[i]
    BY <1>1, <1>2, <2>2
  <2>4. c \in Labels
    BY <1>1, <2>2 DEF Labels
  <2> QED
    BY <1>4, <2>1, <2>2, <2>3, <2>4, Zenon
<1> QED
  BY <1>3, <1>4, Zenon

LEMMA LabellingExists ==
  ASSUME NEW vs, NEW root, IsTree(vs, root)
  PROVE  \E lab : Labelling(vs, root, lab)
<1> DEFINE st == [w \in vs |-> [l \in Labels |-> ChildLabel(l, Rank(vs, w))]]
<1>1. PICK b \in Labels : b = <<1>>
  <2>1. <<1>> \in Labels
    BY DEF Labels
  <2> QED
    BY <2>1, Zenon
<1>2. ASSUME NEW l \in Labels, NEW v \in vs
      PROVE  ChildLabel(l, Rank(vs, v)) \in Labels
  BY RankType, ChildLabelIs, Zenon
<1>3. IsStep(st, vs, Labels)
  BY <1>2, Zenon DEF IsStep
<1>4. \A l \in Labels, v \in vs : st[v][l] = ChildLabel(l, Rank(vs, v))
  BY Zenon
<1> HIDE DEF st
<1>5. PICK lab : Follows(lab, vs, root, Labels, b, st)
  BY <1>3, TreeRecursion, Zenon
<1>6. \A v, w \in vs :
        w.prev = v.cid => lab[w] = ChildLabel(lab[v], Rank(vs, w))
  BY <1>4, <1>5 DEF Follows
<1> QED
  BY <1>1, <1>5, <1>6, ZenonT(120) DEF Labelling, Follows

Nodes     == [cid : Cid, label : Labels]
Top(root) == {[cid |-> root, label |-> <<1>>]}

(* The walk goes down a generation at a time. *)
LEMMA WalkSteps ==
  ASSUME NEW vs, NEW root, IsTree(vs, root)
  PROVE  /\ walkTree(vs, root)[0] = Top(root)
         /\ \A n \in Nat : walkTree(vs, root)[n + 1] =
              Top(root) \cup labelChildren(vs, walkTree(vs, root)[n])
<1> DEFINE D  == SUBSET Nodes
           st == [X \in D |-> Top(root) \cup labelChildren(vs, X)]
<1>1. Top(root) \in D
  <2>1. <<1>> \in Labels
    BY DEF Labels
  <2> QED
    BY <2>1 DEF Top, Nodes, IsTree
<1>2. ASSUME NEW X \in D PROVE labelChildren(vs, X) \in D
  <2> SUFFICES ASSUME NEW n \in X, NEW v \in vs
               PROVE  [cid |-> v.cid, label |-> ChildLabel(n.label, Rank(vs, v))]
                        \in Nodes
    BY DEF labelChildren, Children
  <2>1. n.label \in Labels
    BY Zenon DEF Nodes
  <2>2. Rank(vs, v) \in Nat /\ v.cid \in Cid
    BY RankType, TreeFacts, Zenon
  <2>3. ChildLabel(n.label, Rank(vs, v)) \in Labels
    BY <2>1, <2>2, ChildLabelIs, Zenon
  <2> QED
    BY <2>2, <2>3, Zenon DEF Nodes
<1>3. IsMap(st, D)
  BY <1>1, <1>2, Zenon DEF IsMap
<1>4. \A X \in D : st[X] = Top(root) \cup labelChildren(vs, X)
  BY Zenon
<1> HIDE DEF D, st
<1>5. PICK f : Iteration(f, D, Top(root), st)
  BY <1>1, <1>3, NatRecursion, Zenon
<1>6. f = [n \in Nat |-> IF n = 0 THEN Top(root)
                         ELSE Top(root) \cup labelChildren(vs, f[n - 1])]
  <2>1. /\ f \in [Nat -> D] /\ f[0] = Top(root)
        /\ \A n \in Nat : f[n + 1] = Top(root) \cup labelChildren(vs, f[n])
    BY <1>4, <1>5, Zenon DEF Iteration
  <2>2. ASSUME NEW n \in Nat
        PROVE  f[n] = IF n = 0 THEN Top(root)
                      ELSE Top(root) \cup labelChildren(vs, f[n - 1])
    <3>1. CASE n # 0
      <4>1. n - 1 \in Nat /\ (n - 1) + 1 = n
        BY <3>1
      <4> QED
        BY <2>1, <3>1, <4>1, Zenon
    <3> QED
      BY <2>1, <3>1, Zenon
  <2> QED
    BY <2>1, <2>2, Zenon
<1> DEFINE W == walkTree(vs, root)
<1>7. W = [n \in Nat |-> IF n = 0 THEN Top(root)
                         ELSE Top(root) \cup labelChildren(vs, W[n - 1])]
  BY <1>6, Zenon DEF walkTree, Top
<1> HIDE DEF W
<1>8. W[0] = Top(root)
  BY <1>7, Zenon
<1>9. ASSUME NEW n \in Nat
      PROVE  W[n + 1] = Top(root) \cup labelChildren(vs, W[n])
  <2>1. n + 1 \in Nat /\ n + 1 # 0 /\ (n + 1) - 1 = n
    OBVIOUS
  <2> QED
    BY <1>7, <2>1, Zenon
<1> QED
  BY <1>8, <1>9, Zenon DEF W

(* What labelByCID has for a version. *)
Node(v, lab) == [cid |-> v.cid, label |-> lab[v]]

(* As many generations down as there are versions, the walk has labelled   *)
(* each of them, and with its own label only.                              *)
LEMMA WalkLabels ==
  ASSUME NEW vs, NEW root, IsTree(vs, root), NEW lab, Labelling(vs, root, lab)
  PROVE  walkTree(vs, root)[Cardinality(vs)] = {Node(v, lab) : v \in vs}
<1> DEFINE W   == walkTree(vs, root)
           All == {Node(v, lab) : v \in vs}
<1>1. PICK num \in [vs -> Nat] :
             /\ \A v \in vs : num[v] < Cardinality(vs)
             /\ \A v, w \in vs : w.prev = v.cid => num[v] < num[w]
  BY TreeFacts, Zenon
<1>2. \A w \in vs : w.cid # root => \E v \in vs : w.prev = v.cid
  BY TreeFacts
<1>3. \A v \in vs : v.cid = root => Top(root) = {Node(v, lab)}
  BY Zenon DEF Labelling, Top, Node
<1>4. Top(root) \subseteq All
  BY <1>3 DEF IsTree
<1>5. ASSUME NEW X, NEW v \in vs, NEW w \in vs, w.prev = v.cid, Node(v, lab) \in X
      PROVE  Node(w, lab) \in labelChildren(vs, X)
  <2>1. Node(w, lab) = [cid |-> w.cid,
                        label |-> ChildLabel(Node(v, lab).label, Rank(vs, w))]
    BY <1>5, Zenon DEF Labelling, Node
  <2>2. w \in Children(vs, Node(v, lab).cid)
    BY <1>5, Zenon DEF Children, Node
  <2> QED
    BY <1>5, <2>1, <2>2 DEF labelChildren
<1>6. ASSUME NEW X, X \subseteq All PROVE labelChildren(vs, X) \subseteq All
  <2> SUFFICES ASSUME NEW n \in X, NEW w \in Children(vs, n.cid)
               PROVE  [cid |-> w.cid, label |-> ChildLabel(n.label, Rank(vs, w))]
                        \in All
    BY DEF labelChildren
  <2>1. PICK v \in vs : n = Node(v, lab)
    BY <1>6, Zenon
  <2>2. n.cid = v.cid /\ n.label = lab[v] /\ w \in vs /\ w.prev = v.cid
    BY <2>1, Zenon DEF Node, Children
  <2>3. Node(w, lab) = [cid |-> w.cid, label |-> ChildLabel(n.label, Rank(vs, w))]
    BY <2>2, Zenon DEF Labelling, Node
  <2> QED
    BY <2>2, <2>3, Zenon
<1>7. /\ W[0] = Top(root)
      /\ \A n \in Nat : W[n + 1] = Top(root) \cup labelChildren(vs, W[n])
  BY WalkSteps, Zenon
<1> HIDE DEF W, All
<1> DEFINE U == {n \in Nat : /\ W[n] \subseteq All
                             /\ \A v \in vs : num[v] <= n => Node(v, lab) \in W[n]}
<1>8. 0 \in U
  <2> SUFFICES ASSUME NEW w \in vs, num[w] <= 0 PROVE Node(w, lab) \in W[0]
    BY <1>4, <1>7, Zenon
  <2>1. w.cid = root
    BY <1>1, <1>2
  <2> QED
    BY <1>3, <1>7, <2>1, Zenon
<1>9. ASSUME NEW n \in Nat, n \in U PROVE n + 1 \in U
  <2>1. W[n + 1] \subseteq All
    BY <1>4, <1>6, <1>7, <1>9, Zenon
  <2>2. ASSUME NEW w \in vs, num[w] <= n + 1 PROVE Node(w, lab) \in W[n + 1]
    <3>1. CASE w.cid = root
      BY <1>3, <1>7, <3>1, Zenon
    <3>2. CASE w.cid # root
      <4>1. PICK v \in vs : w.prev = v.cid
        BY <1>2, <3>2, Zenon
      <4>2. num[v] < num[w] /\ num[v] \in Nat /\ num[w] \in Nat
        BY <1>1, <4>1, Zenon
      <4>3. num[v] <= n
        BY <2>2, <4>2
      <4>4. Node(v, lab) \in W[n]
        BY <1>9, <4>3, Zenon
      <4>5. Node(w, lab) \in labelChildren(vs, W[n])
        BY <1>5, <4>1, <4>4, Zenon
      <4> QED
        BY <1>7, <4>5, Zenon
    <3> QED
      BY <3>1, <3>2, Zenon
  <2> QED
    BY <2>1, <2>2
<1> HIDE DEF U
<1>10. Nat \subseteq U
  BY <1>8, <1>9, NatSetInduction, Zenon
<1>11. Cardinality(vs) \in U
  BY <1>10, TreeFacts, Zenon
<1>12. ASSUME NEW v \in vs PROVE Node(v, lab) \in W[Cardinality(vs)]
  <2>1. num[v] <= Cardinality(vs)
    BY <1>1, TreeFacts
  <2> QED
    BY <1>11, <2>1, Zenon DEF U
<1>13. W[Cardinality(vs)] \subseteq All
  BY <1>11, Zenon DEF U
<1> QED
  BY <1>12, <1>13, Zenon DEF W, All

(* What the tree of labels has for a cid. *)
LEMMA LabelOfNode ==
  ASSUME NEW vs, NEW root, IsTree(vs, root), NEW lab, NEW v \in vs
  PROVE  LabelIn({Node(w, lab) : w \in vs}, v.cid) = lab[v]
<1> DEFINE All == {Node(w, lab) : w \in vs}
           n == CHOOSE n \in All : n.cid = v.cid
<1>1. Node(v, lab) \in All /\ Node(v, lab).cid = v.cid
  BY Zenon DEF Node
<1>2. n \in All /\ n.cid = v.cid
  BY <1>1, Zenon
<1>3. LabelIn(All, v.cid) = n.label
  BY Zenon DEF LabelIn
<1> HIDE DEF n
<1>4. PICK w \in vs : n = Node(w, lab)
  BY <1>2, Zenon
<1>5. n.cid = w.cid /\ n.label = lab[w]
  BY <1>4, Zenon DEF Node
<1>6. w = v
  BY <1>2, <1>5, Zenon DEF IsTree
<1> QED
  BY <1>3, <1>5, <1>6, Zenon

(* A file with its root version only is a tree. *)
LEMMA SingleTree ==
  ASSUME NEW n \in Version, n.prev = NULL
  PROVE  IsTree({n}, n.cid)
<1>1. n.cid \in Cid /\ n.cid # NULL
  BY CatalogAssumption, Zenon DEF Version
<1>2. IsFiniteSet({n}) /\ Cardinality({n}) = 1
  BY FS_Singleton, Zenon
<1> DEFINE num == [v \in {n} |-> 0]
<1>3. num \in [{n} -> 0 .. Cardinality({n}) - 1]
  BY <1>2
<1>4. Numbering({n}, num)
  BY <1>1, <1>3, Zenon DEF Numbering
<1> QED
  BY <1>1, <1>2, <1>3, <1>4, Zenon DEF IsTree

(* A new version of a version that is present leaves a tree a tree. *)
LEMMA GrownTree ==
  ASSUME NEW vs, NEW root, IsTree(vs, root), NEW n \in Version,
         n.prev # NULL, \E w \in vs : w.cid = n.prev, \A w \in vs : w.cid # n.cid
  PROVE  IsTree(vs \cup {n}, root)
<1> DEFINE ws == vs \cup {n}
<1>1. n \notin vs
  BY Zenon
<1>2. /\ IsFiniteSet(ws) /\ Cardinality(ws) = Cardinality(vs) + 1
      /\ Cardinality(vs) \in Nat
  BY <1>1, FS_AddElement, FS_CardinalityType, Zenon DEF IsTree
<1>3. PICK old \in [vs -> Nat] :
             /\ \A v \in vs : old[v] < Cardinality(vs)
             /\ \A v, w \in vs : w.prev = v.cid => old[v] < old[w]
  BY TreeFacts, Zenon
<1> DEFINE num == [v \in ws |-> IF v = n THEN Cardinality(vs) ELSE old[v]]
<1>4. num \in [ws -> 0 .. Cardinality(ws) - 1]
  <2> SUFFICES ASSUME NEW v \in ws PROVE num[v] \in 0 .. Cardinality(ws) - 1
    BY Zenon
  <2>1. CASE v = n
    BY <1>2, <2>1
  <2>2. CASE v \in vs
    <3>1. num[v] = old[v] /\ old[v] \in Nat /\ old[v] < Cardinality(vs)
      BY <1>1, <1>3, <2>2, Zenon
    <3> QED
      BY <1>2, <3>1
  <2> QED
    BY <2>1, <2>2, Zenon
<1>5. ASSUME NEW v \in ws, NEW w \in ws, w.prev = v.cid
      PROVE  num[v] < num[w]
  <2>1. v \in vs
    <3> SUFFICES ASSUME v = n PROVE FALSE
      BY Zenon
    <3>1. w.prev = n.cid /\ n.cid # NULL
      BY <1>5, CatalogAssumption, Zenon DEF Version
    <3>2. \E u \in vs : u.cid = n.cid
      BY <3>1, Zenon DEF IsTree
    <3> QED
      BY <3>2, Zenon
  <2>2. num[v] = old[v] /\ old[v] < Cardinality(vs)
    BY <1>1, <1>3, <2>1, Zenon
  <2>3. CASE w = n
    BY <2>2, <2>3, Zenon
  <2>4. CASE w \in vs
    BY <1>1, <1>3, <1>5, <2>1, <2>2, <2>4, Zenon
  <2> QED
    BY <2>3, <2>4, Zenon
<1>6. Numbering(ws, num)
  BY <1>4, <1>5, Zenon DEF Numbering
<1> HIDE DEF num
<1>7. /\ ws \subseteq Version /\ root \in Cid
      /\ \A v, w \in ws : v.cid = w.cid => v = w
      /\ \E v \in ws : v.cid = root
      /\ \A v \in ws : /\ v.prev = NULL <=> v.cid = root
                       /\ v.prev # NULL => \E w \in ws : w.cid = v.prev
  BY Zenon DEF IsTree
<1> QED
  BY <1>2, <1>4, <1>6, <1>7, Zenon DEF IsTree

(* The versions of the files after a record: those of one file grow. *)
LEMMA NextTreeInv == TreeInv /\ [Next]_catalog => TreeInv'
<1> SUFFICES ASSUME TreeInv, [Next]_catalog PROVE TreeInv'
  BY Zenon
<1>0. CatalogInv /\ CatalogInv'
  BY NextCatalogInv, Zenon DEF TreeInv, CatalogInv
<1>1. catalog \in CatalogType /\ Rooted(catalog)
  BY <1>0, Zenon DEF CatalogInv, TypeOK, CatalogRooted
<1> SUFFICES ASSUME NEW root \in Roots' PROVE IsTree(Of(root)', root)
  BY <1>0, Zenon DEF TreeInv, CatalogInv, IsTree, Numbering
<1> DEFINE vs == Of(root)
           ws == {v \in catalog'.versions : v.root = root}
<1> SUFFICES IsTree(ws, root)
  BY Zenon DEF Of
<1>2. root \in Roots => IsTree(vs, root)
  BY Zenon DEF TreeInv
<1>3. CASE UNCHANGED catalog
  BY <1>2, <1>3, Zenon DEF Roots, Of
<1>4. CASE Next
  <2>1. PICK r \in Request, t \in Time : catalog' \in Results(catalog, r, t)
    BY <1>4, Zenon DEF Next, Record
  <2>0. r.cid \in Cid /\ r.prev \in Cid \cup {NULL}
    BY CatalogAssumption, Zenon
  <2>2. CASE Kept(catalog, r, catalog')
    BY <1>2, <2>2, Zenon DEF Kept, Roots, Of
  <2>3. ASSUME NEW at0 \in Cid, Patched(catalog, r, t, catalog', at0)
        PROVE  IsTree(ws, root)
    <3>1. PICK n \in Version :
            /\ n.root = at0 /\ n.cid = r.cid /\ n.prev = r.prev
            /\ catalog'.versions = catalog.versions \cup {n}
      BY <2>0, <2>3, NewVersionFields DEF Patched
    <3>2. root \in Roots
      BY <2>3, Zenon DEF Patched, Roots
    <3>3. CASE root # at0
      BY <1>2, <3>1, <3>2, <3>3, Zenon DEF Of
    <3>4. CASE root = at0
      <4>1. /\ ws = vs \cup {n}
            /\ n.prev # NULL
            /\ \E w \in vs : w.cid = n.prev
            /\ \A w \in vs : w.cid # n.cid
        BY <2>3, <3>1, <3>4, Zenon DEF Patched, HasVersion, Of
      <4> HIDE DEF ws, vs
      <4> QED
        BY <1>2, <3>1, <3>2, <4>1, GrownTree, Zenon
    <3> QED
      BY <3>3, <3>4, Zenon
  <2>4. CASE Created(catalog, r, t, catalog')
    <3>1. PICK n \in Version :
            /\ n.root = r.cid /\ n.cid = r.cid /\ n.prev = NULL
            /\ catalog'.versions = catalog.versions \cup {n}
      BY <2>0, <2>4, NewVersionFields DEF Created
    <3>2. PICK f : f.root = r.cid /\ catalog'.files = catalog.files \cup {f}
      BY <2>4, <1>1, WithFileAdds, Zenon DEF Created
    <3>3. CASE root # r.cid
      <4>1. root \in Roots
        BY <3>2, <3>3, Zenon DEF Roots
      <4>2. ws = vs
        BY <3>1, <3>3, Zenon DEF Of
      <4> QED
        BY <1>2, <4>1, <4>2, Zenon
    <3>4. CASE root = r.cid
      <4>1. \A w \in catalog.versions : w.root # root
        BY <1>1, <2>4, <3>4, Zenon DEF Created, Rooted
      <4>2. ws = {n}
        BY <3>1, <3>4, <4>1, Zenon
      <4> QED
        BY <3>1, <3>4, <4>2, SingleTree, Zenon
    <3> QED
      BY <3>3, <3>4, Zenon
  <2> QED
    BY <1>1, <2>1, <2>2, <2>3, <2>4, ResultsAre, Zenon
<1> QED
  BY <1>3, <1>4, Zenon

LEMMA SpecTreeInv == Spec => []TreeInv
<1>1. Init => TreeInv
  BY InitCatalogInv DEF Init, TreeInv, CatalogInv, Empty, Roots
<1> QED
  BY <1>1, NextTreeInv, PTL DEF Spec

(* The labels of a file, and how they are looked up. *)
LEMMA LabelsOfTree ==
  ASSUME NEW vs, NEW root, IsTree(vs, root)
  PROVE  \E lab :
           /\ Labelling(vs, root, lab)
           /\ walkTree(vs, root)[Cardinality(vs)] = {Node(v, lab) : v \in vs}
           /\ \A v \in vs :
                LabelIn(walkTree(vs, root)[Cardinality(vs)], v.cid) = lab[v]
<1>1. PICK lab : Labelling(vs, root, lab)
  BY LabellingExists, Zenon
<1>2. walkTree(vs, root)[Cardinality(vs)] = {Node(v, lab) : v \in vs}
  BY <1>1, WalkLabels
<1>3. \A v \in vs : LabelIn({Node(w, lab) : w \in vs}, v.cid) = lab[v]
  BY LabelOfNode, Zenon
<1> QED
  BY <1>1, <1>2, <1>3, Zenon

(* normalizeVersions labels every version of a file by its walk from the   *)
(* root, each once, whatever was recorded in whatever order: the labels it *)
(* invents for versions out of reach are never needed.                     *)
THEOREM WalkLabelsAll == Spec => []NoOrphans
<1>1. TreeInv => NoOrphans
  <2> SUFFICES ASSUME TreeInv, NEW root \in Roots
               PROVE  /\ {n.cid : n \in Labelled(root)} = {v.cid : v \in Of(root)}
                      /\ \A n, m \in Labelled(root) : n.cid = m.cid => n = m
    BY Zenon DEF NoOrphans
  <2>1. PICK vs : vs = Of(root) /\ IsTree(vs, root)
    BY Zenon DEF TreeInv
  <2>2. PICK lab : walkTree(vs, root)[Cardinality(vs)] = {Node(v, lab) : v \in vs}
    BY <2>1, LabelsOfTree
  <2>3. Labelled(root) = {Node(v, lab) : v \in vs}
    BY <2>1, <2>2, Zenon DEF Labelled
  <2>4. \A v \in vs : Node(v, lab).cid = v.cid
    BY Zenon DEF Node
  <2>5. \A v, w \in vs : v.cid = w.cid => v = w
    BY <2>1, Zenon DEF IsTree
  <2> QED
    BY <2>1, <2>3, <2>4, <2>5
<1> QED
  BY <1>1, SpecTreeInv, PTL

(* The versions of a file are listed after the versions they were made     *)
(* from, as the first number of a label grows along every line.            *)
THEOREM ListedAfterPrevious == Spec => []PreviousListedFirst
<1>1. TreeInv => PreviousListedFirst
  <2> SUFFICES ASSUME TreeInv, NEW root \in Roots,
                      NEW v \in Of(root), NEW w \in Of(root), w.prev = v.cid
               PROVE  ListedBefore(v, w, Labelled(root))
    BY Zenon DEF PreviousListedFirst
  <2>1. PICK vs : vs = Of(root) /\ IsTree(vs, root)
    BY Zenon DEF TreeInv
  <2>2. PICK lab : /\ Labelling(vs, root, lab)
                   /\ \A u \in vs : LabelIn(Labelled(root), u.cid) = lab[u]
    BY <2>1, LabelsOfTree DEF Labelled
  <2>3. lab[w] = ChildLabel(lab[v], Rank(vs, w)) /\ lab[v] \in Labels
    BY <2>1, <2>2, Zenon DEF Labelling
  <2>4. lab[w] \in Labels /\ lab[w][1] = lab[v][1] + 1
    BY <2>1, <2>3, RankType, ChildLabelIs
  <2>5. LabelLess(lab[v], lab[w])
    <3>1. /\ 1 \in 1 .. Len(lab[v]) /\ 1 <= Len(lab[w])
          /\ lab[v][1] < lab[w][1]
      BY <2>3, <2>4, SMTT(120) DEF Labels
    <3> QED
      BY <3>1 DEF LabelLess
  <2> QED
    BY <2>1, <2>2, <2>5, Zenon DEF ListedBefore
<1> QED
  BY <1>1, SpecTreeInv, PTL

(* ln leads from the root down to each version. *)
Lines(vs, root, ln) ==
  /\ ln \in [vs -> Seq(vs)]
  /\ \A v \in vs : v.cid = root => ln[v] = <<v>>
  /\ \A v, w \in vs : w.prev = v.cid => ln[w] = Append(ln[v], w)

LEMMA LineIs ==
  ASSUME NEW root, IsTree(Of(root), root)
  PROVE  Lines(Of(root), root, Line(root))
<1>1. PICK vs : vs = Of(root) /\ IsTree(vs, root)
  BY Zenon
<1> DEFINE D  == Seq(vs)
           st == [w \in vs |-> [s \in D |-> Append(s, w)]]
<1>2. PICK r \in vs : r.cid = root
  BY <1>1, Zenon DEF IsTree
<1>3. /\ \A v \in vs : v.cid = root => v = r
      /\ \A v, w \in vs : v.cid = w.cid => v = w
      /\ \A w \in vs : w.cid # root => \E v \in vs : w.prev = v.cid
      /\ \A v, w \in vs : w.prev = v.cid => w.cid # root
  BY <1>1, <1>2, TreeFacts DEF IsTree
<1>4. \A s \in D, w \in vs : Append(s, w) \in D
  OBVIOUS
<1>5. IsStep(st, vs, D)
  BY <1>4, Zenon DEF IsStep
<1>6. \A s \in D, w \in vs : st[w][s] = Append(s, w)
  BY Zenon
<1>7. PICK b \in D : b = <<r>>
  <2>1. <<r>> \in D
    OBVIOUS
  <2> QED
    BY <2>1, Zenon
<1> HIDE DEF D, st
<1>8. PICK f : Follows(f, vs, root, D, b, st)
  BY <1>1, <1>5, TreeRecursion, Zenon
<1>9. /\ f \in [vs -> D]
      /\ \A v \in vs : v.cid = root => f[v] = b
      /\ \A v, w \in vs : w.prev = v.cid => f[w] = Append(f[v], w)
  BY <1>6, <1>8 DEF Follows
<1>10. \A v, w \in vs : w.prev = v.cid => VersionOf(root, w.prev) = v
  BY <1>1, <1>3 DEF VersionOf
<1> DEFINE Eq(l) == l = [v \in vs |-> IF v.cid = root THEN <<v>>
                                      ELSE Append(l[VersionOf(root, v.prev)], v)]
<1>11. Eq(f)
  <2>1. ASSUME NEW w \in vs
        PROVE  f[w] = IF w.cid = root THEN <<w>>
                      ELSE Append(f[VersionOf(root, w.prev)], w)
    <3>1. CASE w.cid = root
      BY <1>3, <1>7, <1>9, <3>1, Zenon
    <3>2. CASE w.cid # root
      <4>1. PICK v \in vs : w.prev = v.cid
        BY <1>3, <3>2, Zenon
      <4>2. f[w] = Append(f[v], w) /\ VersionOf(root, w.prev) = v
        BY <1>9, <1>10, <4>1, Zenon
      <4> QED
        BY <3>2, <4>2, Zenon
    <3> QED
      BY <3>1, <3>2, Zenon
  <2> QED
    BY <1>9, <2>1, Zenon
<1>12. Eq(Line(root))
  BY <1>1, <1>11, Zenon DEF Line
<1>13. PICK ln : ln = Line(root) /\ Eq(ln)
  BY <1>12, Zenon
<1>14. \A v \in vs : v.cid = root => ln[v] = <<v>>
  BY <1>13, Zenon
<1>15. ASSUME NEW v \in vs, NEW w \in vs, w.prev = v.cid
       PROVE  ln[w] = Append(ln[v], w)
  <2>1. w.cid # root /\ VersionOf(root, w.prev) = v
    BY <1>3, <1>10, <1>15, Zenon
  <2> QED
    BY <1>13, <2>1, Zenon
<1>16. \A v \in vs : ln[v] = f[v]
  <2> DEFINE T == {v \in vs : ln[v] = f[v]}
  <2>1. ASSUME NEW v \in vs, v.cid = root PROVE v \in T
    <3>1. v = r /\ f[v] = b /\ ln[v] = <<v>>
      BY <1>3, <1>9, <1>14, <2>1, Zenon
    <3>2. ln[v] = f[v]
      BY <1>7, <3>1, Zenon
    <3> QED
      BY <3>2, Zenon
  <2>2. ASSUME NEW v \in vs, NEW w \in vs, w.prev = v.cid, v \in T
        PROVE  w \in T
    <3>1. ln[w] = Append(ln[v], w) /\ f[w] = Append(f[v], w) /\ ln[v] = f[v]
      BY <1>9, <1>15, <2>2, Zenon
    <3>2. ln[w] = f[w]
      BY <3>1, Zenon
    <3> QED
      BY <3>2, Zenon
  <2> HIDE DEF T
  <2>3. vs \subseteq T
    BY <1>1, <2>1, <2>2, TreeInduction, Zenon
  <2> QED
    BY <2>3, Zenon DEF T
<1>17. ln \in [vs -> D]
  BY <1>9, <1>13, <1>16, Zenon
<1> QED
  BY <1>1, <1>13, <1>14, <1>15, <1>17, Zenon DEF Lines, D

(* The places on a line where it branches off, and what a label tells of   *)
(* a line.                                                                 *)
Branches(vs, line) == {i \in DOMAIN line : Rank(vs, line[i]) > 0}

Tells(vs, line, label) ==
  /\ label[1] = Len(line)
  /\ Len(label) = 1 + Cardinality(Branches(vs, line))
  /\ \A i \in Branches(vs, line) :
       label[1 + Cardinality({j \in Branches(vs, line) : j <= i})]
         = Rank(vs, line[i])

(* A child's label tells its line if its previous version's does. *)
LEMMA TellsStep ==
  ASSUME NEW vs, NEW root, IsTree(vs, root), NEW line \in Seq(vs),
         NEW label \in Labels, Tells(vs, line, label), NEW w \in vs
  PROVE  Tells(vs, Append(line, w), ChildLabel(label, Rank(vs, w)))
<1> DEFINE k  == Rank(vs, w)
           n  == Len(line)
           l2 == Append(line, w)
           c  == ChildLabel(label, k)
           B  == Branches(vs, line)
           B2 == Branches(vs, l2)
<1>1. k \in Nat /\ n \in Nat /\ \A i \in 1 .. n : Rank(vs, line[i]) \in Nat
  BY RankType
<1>2. /\ Len(l2) = n + 1 /\ DOMAIN l2 = 1 .. n + 1 /\ l2[n + 1] = w
      /\ \A i \in 1 .. n : l2[i] = line[i]
  BY <1>1
<1>3. /\ c \in Labels /\ c[1] = label[1] + 1
      /\ \A i \in 2 .. Len(label) : c[i] = label[i]
      /\ k = 0 => Len(c) = Len(label)
      /\ k # 0 => Len(c) = Len(label) + 1 /\ c[Len(label) + 1] = k
  BY <1>1, ChildLabelIs, Zenon
<1>4. B \subseteq 1 .. n /\ IsFiniteSet(B) /\ Cardinality(B) \in Nat
  <2>1. B \subseteq 1 .. n
    BY DEF Branches
  <2>2. IsFiniteSet(1 .. n)
    BY <1>1, FS_Interval
  <2> QED
    BY <2>1, <2>2, FS_Subset, FS_CardinalityType, Zenon
<1>5. /\ k = 0 => B2 = B
      /\ k # 0 => B2 = B \cup {n + 1}
      /\ n + 1 \notin B
  BY <1>1, <1>2, <1>4 DEF Branches
<1>6. k # 0 => Cardinality(B2) = Cardinality(B) + 1
  BY <1>4, <1>5, FS_AddElement, Zenon
<1>7. /\ label[1] = n
      /\ Len(label) = 1 + Cardinality(B)
      /\ \A i \in B :
           label[1 + Cardinality({j \in B : j <= i})] = Rank(vs, line[i])
  BY Zenon DEF Tells
<1> HIDE DEF k, n, l2, c, B, B2
<1>8. c[1] = Len(l2)
  BY <1>1, <1>2, <1>3, <1>7, Zenon
<1>9. Len(c) = 1 + Cardinality(B2)
  BY <1>3, <1>4, <1>5, <1>6, <1>7
<1>10. ASSUME NEW i \in B
       PROVE  c[1 + Cardinality({j \in B2 : j <= i})] = Rank(vs, l2[i])
  <2> DEFINE S == {j \in B : j <= i}
  <2>1. {j \in B2 : j <= i} = S
    BY <1>1, <1>4, <1>5
  <2>2. S \subseteq B /\ i \in S
    BY <1>4
  <2>3. label[1 + Cardinality(S)] = Rank(vs, line[i])
    BY <1>7, Zenon
  <2> HIDE DEF S
  <2>4. Cardinality(S) \in Nat /\ Cardinality(S) <= Cardinality(B) /\ IsFiniteSet(S)
    BY <1>4, <2>2, FS_Subset, FS_CardinalityType, Zenon
  <2>5. Cardinality(S) # 0
    BY <2>2, <2>4, FS_EmptySet, Zenon
  <2>6. 1 + Cardinality(S) \in 2 .. Len(label)
    BY <1>4, <1>7, <2>4, <2>5
  <2>7. l2[i] = line[i]
    BY <1>2, <1>4, Zenon
  <2> QED
    BY <1>3, <2>1, <2>6, <2>3, <2>7, Zenon
<1>11. ASSUME k # 0
       PROVE  c[1 + Cardinality({j \in B2 : j <= n + 1})] = Rank(vs, l2[n + 1])
  <2>1. {j \in B2 : j <= n + 1} = B2
    <3>1. B2 \subseteq 1 .. n + 1
      BY <1>2, Zenon DEF Branches, B2
    <3>2. \A j \in B2 : j <= n + 1
      BY <1>1, <3>1
    <3> QED
      BY <3>2, Zenon
  <2>2. 1 + Cardinality(B2) = Len(label) + 1
    BY <1>4, <1>6, <1>7, <1>11
  <2> QED
    BY <1>2, <1>3, <1>11, <2>1, <2>2, Zenon DEF k
<1>12. \A i \in B2 : c[1 + Cardinality({j \in B2 : j <= i})] = Rank(vs, l2[i])
  BY <1>5, <1>10, <1>11, Zenon
<1> QED
  BY <1>8, <1>9, <1>12, ZenonT(120) DEF Tells, k, l2, c, B2

LEMMA TellsAll ==
  ASSUME NEW vs, NEW root, IsTree(vs, root), NEW lab, Labelling(vs, root, lab),
         NEW ln, Lines(vs, root, ln)
  PROVE  \A v \in vs : Tells(vs, ln[v], lab[v])
<1> DEFINE T == {v \in vs : Tells(vs, ln[v], lab[v])}
<1>1. ASSUME NEW v \in vs, v.cid = root PROVE v \in T
  <2>1. ln[v] = <<v>> /\ lab[v] = <<1>>
    BY <1>1, Zenon DEF Lines, Labelling
  <2>2. Rank(vs, v) = 0
    BY <1>1, RankOfRoot, Zenon
  <2>3. Branches(vs, <<v>>) = {}
    <3>1. DOMAIN <<v>> = {1} /\ <<v>>[1] = v
      OBVIOUS
    <3>2. \A i \in DOMAIN <<v>> : Rank(vs, <<v>>[i]) = 0
      BY <2>2, <3>1, Zenon
    <3> QED
      BY <3>2 DEF Branches
  <2>4. Len(<<v>>) = 1 /\ <<1>>[1] = 1 /\ Len(<<1>>) = 1 + Cardinality({})
    BY FS_EmptySet
  <2>5. Tells(vs, <<v>>, <<1>>)
    BY <2>3, <2>4, Zenon DEF Tells
  <2> QED
    BY <2>1, <2>5, Zenon
<1>2. ASSUME NEW v \in vs, NEW w \in vs, w.prev = v.cid, v \in T PROVE w \in T
  <2>1. /\ ln[v] \in Seq(vs) /\ ln[w] = Append(ln[v], w)
        /\ lab[v] \in Labels /\ lab[w] = ChildLabel(lab[v], Rank(vs, w))
    BY <1>2, Zenon DEF Lines, Labelling
  <2>2. Tells(vs, ln[v], lab[v])
    BY <1>2, Zenon
  <2>3. Tells(vs, Append(ln[v], w), ChildLabel(lab[v], Rank(vs, w)))
    BY <2>1, <2>2, TellsStep, Zenon
  <2> QED
    BY <2>1, <2>3, Zenon
<1> HIDE DEF T
<1>3. vs \subseteq T
  BY <1>1, <1>2, TreeInduction, Zenon
<1> QED
  BY <1>3, Zenon DEF T

(* The first number of a label is the generation of its version and the    *)
(* others are the ranks of the branches on the line from the root, for     *)
(* any tree of versions (nextGenerationLabel and the walk in               *)
(* normalizeVersions).                                                     *)
THEOREM LabelsTellPaths == Spec => []LabelsTellThePath
<1>1. TreeInv => LabelsTellThePath
  <2> SUFFICES ASSUME TreeInv PROVE LabelsTellThePath
    BY Zenon
  <2>1. ASSUME NEW root \in Roots, NEW v \in Of(root)
        PROVE  Tells(Of(root), Line(root)[v], LabelIn(Labelled(root), v.cid))
    <3>1. IsTree(Of(root), root)
      BY Zenon DEF TreeInv
    <3>2. Lines(Of(root), root, Line(root))
      BY <3>1, LineIs, Zenon
    <3>3. PICK vs, ln : /\ vs = Of(root) /\ ln = Line(root)
                        /\ IsTree(vs, root) /\ Lines(vs, root, ln)
      BY <3>1, <3>2, Zenon
    <3>4. PICK lab : /\ Labelling(vs, root, lab)
                     /\ \A u \in vs : LabelIn(Labelled(root), u.cid) = lab[u]
      BY <3>3, LabelsOfTree DEF Labelled
    <3>5. Tells(vs, ln[v], lab[v])
      BY <3>3, <3>4, TellsAll, Zenon
    <3> QED
      BY <3>3, <3>4, <3>5, Zenon
  <2>2. ASSUME NEW root \in Roots, NEW v \in Of(root)
        PROVE  LET line     == Line(root)[v]
                   rank     == [i \in DOMAIN line |-> Rank(Of(root), line[i])]
                   branches == {i \in DOMAIN line : rank[i] > 0}
                   label    == LabelIn(Labelled(root), v.cid)
               IN /\ label[1] = Len(line)
                  /\ Len(label) = 1 + Cardinality(branches)
                  /\ \A i \in branches :
                       label[1 + Cardinality({j \in branches : j <= i})] = rank[i]
    <3> DEFINE line     == Line(root)[v]
               rank     == [i \in DOMAIN line |-> Rank(Of(root), line[i])]
               branches == {i \in DOMAIN line : rank[i] > 0}
               label    == LabelIn(Labelled(root), v.cid)
    <3>1. Tells(Of(root), line, label)
      BY <2>1, Zenon
    <3> HIDE DEF line, label
    <3>2. branches = Branches(Of(root), line)
      BY Zenon DEF Branches
    <3>3. \A i \in branches : rank[i] = Rank(Of(root), line[i])
      BY Zenon
    <3> HIDE DEF rank, branches
    <3>4. /\ label[1] = Len(line)
          /\ Len(label) = 1 + Cardinality(branches)
          /\ \A i \in branches :
               label[1 + Cardinality({j \in branches : j <= i})] = rank[i]
      BY <3>1, <3>2, <3>3, Zenon DEF Tells
    <3> QED
      BY <3>4, Zenon DEF rank, branches, line, label
  <2> QED
    BY <2>2, Zenon DEF LabelsTellThePath
<1> QED
  BY <1>1, SpecTreeInv, PTL

(* A version on the line has a new sibling with a stamp no later. *)
Overtaken(line, new) ==
  \E n \in new, i \in DOMAIN line : line[i].prev = n.prev /\ n.at <= line[i].at

(* When a tree grows, what is not overtaken keeps its label. *)
LEMMA LabelsStay ==
  ASSUME NEW vs, NEW ws, NEW root, IsTree(vs, root), IsTree(ws, root),
         vs \subseteq ws, NEW lab, Labelling(vs, root, lab),
         NEW lab2, Labelling(ws, root, lab2), NEW ln, Lines(vs, root, ln)
  PROVE  \A v \in vs : lab2[v] = lab[v] \/ Overtaken(ln[v], ws \ vs)
<1> DEFINE T == {v \in vs : lab2[v] = lab[v] \/ Overtaken(ln[v], ws \ vs)}
<1>1. \A v \in vs : v.cid = root => v \in T
  BY Zenon DEF Labelling
<1>2. ASSUME NEW v \in vs, NEW w \in vs, w.prev = v.cid, v \in T PROVE w \in T
  <2> SUFFICES ASSUME ~Overtaken(ln[w], ws \ vs) PROVE lab2[w] = lab[w]
    BY Zenon
  <2>1. ln[v] \in Seq(vs) /\ ln[w] = Append(ln[v], w)
    BY <1>2, Zenon DEF Lines
  <2> DEFINE k == Len(ln[v])
  <2>2. /\ k \in Nat /\ DOMAIN ln[v] = 1 .. k /\ DOMAIN ln[w] = 1 .. k + 1
        /\ ln[w][k + 1] = w
        /\ \A i \in 1 .. k : ln[w][i] = ln[v][i]
    BY <2>1
  <2> HIDE DEF k
  <2>3. ~Overtaken(ln[v], ws \ vs)
    BY <2>2 DEF Overtaken
  <2>4. lab2[v] = lab[v]
    BY <1>2, <2>3, Zenon
  <2>5. \A n \in ws \ vs : n.prev = w.prev => ~(n.at <= w.at)
    BY <2>2 DEF Overtaken
  <2>6. Rank(ws, w) = Rank(vs, w)
    <3>1. ASSUME NEW n \in ws, n.prev = w.prev, Earlier(n, w) PROVE n \in vs
      <4>1. n.at \in Nat /\ w.at \in Nat
        BY TreeFacts, Zenon
      <4>2. n.at <= w.at
        BY <3>1, <4>1 DEF Earlier
      <4> QED
        BY <2>5, <3>1, <4>2, Zenon
    <3>2. {n \in Children(ws, w.prev) : Earlier(n, w)}
            = {n \in Children(vs, w.prev) : Earlier(n, w)}
      BY <3>1, Zenon DEF Children
    <3> QED
      BY <3>2, Zenon DEF Rank
  <2>7. /\ lab[w] = ChildLabel(lab[v], Rank(vs, w))
        /\ lab2[w] = ChildLabel(lab2[v], Rank(ws, w))
    BY <1>2, Zenon DEF Labelling
  <2> QED
    BY <2>4, <2>6, <2>7, Zenon
<1> HIDE DEF T
<1>3. vs \subseteq T
  BY <1>1, <1>2, TreeInduction, Zenon
<1> QED
  BY <1>3, Zenon DEF T

(* Recording a version moves the labels of its siblings with stamps that   *)
(* are no earlier, and of what descends from them, and no others: the      *)
(* stamps may tie or be taken out of order (uploadedAt is taken before     *)
(* catalogMu), and cids may be shared between files.                       *)
THEOREM LabelsMoveOnlyWhenOvertaken == Spec => LabelsMoveOnlyForAnEarlierSibling
<1>1. ASSUME TreeInv, TreeInv', Next, NEW root \in Roots, NEW v \in Of(root)
      PROVE  \/ LabelIn(Labelled(root)', v.cid) = LabelIn(Labelled(root), v.cid)
             \/ Overtaken(Line(root)[v], Of(root)' \ Of(root))
  <2>1. /\ catalog.files \subseteq catalog'.files
        /\ catalog.versions \subseteq catalog'.versions
    <3>1. PICK r \in Request, t \in Time : catalog' \in Results(catalog, r, t)
      BY <1>1, Zenon DEF Next, Record
    <3>2. catalog \in CatalogType /\ Rooted(catalog)
      BY <1>1, Zenon DEF TreeInv, TypeOK, CatalogRooted
    <3> QED
      BY <3>1, <3>2, ResultsGrow, Zenon
  <2>2. IsTree(Of(root), root) /\ Lines(Of(root), root, Line(root))
    BY <1>1, LineIs, Zenon DEF TreeInv
  <2>3. PICK vs, ln : /\ vs = Of(root) /\ ln = Line(root)
                      /\ IsTree(vs, root) /\ Lines(vs, root, ln)
    BY <2>2, Zenon
  <2>4. PICK ws : ws = Of(root)' /\ vs \subseteq ws /\ IsTree(ws, root)
    <3>1. root \in Roots'
      BY <1>1, <2>1, Zenon DEF Roots
    <3>2. IsTree(Of(root), root)'
      BY <1>1, <3>1, Zenon DEF TreeInv
    <3>3. IsTree(Of(root)', root)
      BY <3>2, Zenon DEF IsTree, Numbering
    <3>4. Of(root) \subseteq Of(root)'
      BY <2>1, Zenon DEF Of
    <3> QED
      BY <2>3, <3>3, <3>4, Zenon
  <2>5. Labelled(root) = walkTree(vs, root)[Cardinality(vs)]
    BY <2>3, Zenon DEF Labelled
  <2>6. Labelled(root)' = walkTree(ws, root)[Cardinality(ws)]
    BY <2>4, SMTT(120) DEF Labelled, walkTree, labelChildren, Children, Rank, Earlier,
                ChildLabel, nextGenerationLabel
  <2>7. PICK lab : /\ Labelling(vs, root, lab)
                   /\ \A u \in vs : LabelIn(Labelled(root), u.cid) = lab[u]
    BY <2>3, <2>5, LabelsOfTree, SMTT(120)
  <2>8. PICK lab2 : /\ Labelling(ws, root, lab2)
                    /\ \A u \in ws : LabelIn(Labelled(root)', u.cid) = lab2[u]
    BY <2>4, <2>6, LabelsOfTree, SMTT(120)
  <2>9. lab2[v] = lab[v] \/ Overtaken(ln[v], ws \ vs)
    <3>1. /\ IsTree(vs, root) /\ IsTree(ws, root) /\ vs \subseteq ws
          /\ Labelling(vs, root, lab) /\ Labelling(ws, root, lab2)
          /\ Lines(vs, root, ln) /\ v \in vs
      BY <1>1, <2>3, <2>4, <2>7, <2>8, ZenonT(120)
    <3>2. \A u \in vs : lab2[u] = lab[u] \/ Overtaken(ln[u], ws \ vs)
      BY <3>1, LabelsStay, SMTT(120)
    <3> QED
      BY <3>1, <3>2, Zenon
  <2> QED
    BY <1>1, <2>3, <2>4, <2>7, <2>8, <2>9, Zenon
<1>2. TreeInv /\ TreeInv' /\ [Next]_catalog
        => [\A root \in Roots :
              LET new   == Of(root)' \ Of(root)
                  old   == Labelled(root)
                  after == Labelled(root)'
              IN \A v \in Of(root) :
                   \/ LabelIn(after, v.cid) = LabelIn(old, v.cid)
                   \/ LET line == Line(root)[v] IN
                      \E n \in new, i \in DOMAIN line :
                        line[i].prev = n.prev /\ n.at <= line[i].at]_catalog
  BY <1>1, Zenon DEF Overtaken
<1> QED
  BY <1>2, SpecTreeInv, PTL DEF Spec, LabelsMoveOnlyForAnEarlierSibling

----------------------------------------------------------------------------
(* The stored catalog. *)

(* Growing keeps what was recorded. *)
LEMMA RecordedStays ==
  ASSUME NEW cat, NEW res, NEW r, Recorded(cat, r),
         cat.versions \subseteq res.versions
  PROVE  Recorded(res, r)
  BY Zenon DEF Recorded, HasVersion

LEMMA EmptyType == Empty \in CatalogType
  BY Zenon DEF Empty, CatalogType

LEMMA InitStoreInv == StoreInit => StoreInv
<1> SUFFICES ASSUME StoreInit PROVE StoreInv
  BY Zenon
<1>1. StoreTypeOK
  BY EmptyType, Zenon DEF StoreInit, StoreTypeOK, TmpType
<1>2. Rooted(catalog)
  BY Zenon DEF StoreInit, Empty, Rooted
<1> QED
  BY <1>1, <1>2, Zenon
  DEF StoreInit, StoreInv, AnsweredIsCatalogued, Critical, Saving, Active

(* Every step keeps the types. *)
LEMMA NextStoreType == StoreInv /\ StoreNext => StoreTypeOK'
<1> SUFFICES ASSUME StoreInv, StoreNext PROVE StoreTypeOK'
  BY Zenon
<1> USE DEF StoreTypeOK, Goto, Active, Critical, Saving, Over
<1>0. StoreTypeOK
  BY Zenon DEF StoreInv
<1>1. CASE Tick
  BY <1>0, <1>1, Zenon DEF Tick
<1>2. CASE Crash
  BY <1>0, <1>2, Zenon DEF Crash
<1>3. ASSUME NEW h \in Handler, NEW r \in Request, Begin(h, r)
      PROVE  StoreTypeOK'
  BY <1>0, <1>3, Zenon DEF Begin
<1>4. ASSUME NEW h \in Handler, Step(h)
      PROVE  StoreTypeOK'
  <2>1. CASE DealEnds(h)
    BY <1>0, <2>1, Zenon DEF DealEnds
  <2>2. CASE Lock(h)
    BY <1>0, <2>2, Zenon DEF Lock
  <2>3. CASE Load(h)
    <3>1. PICK cat \in Results(catalog, req[h], at[h]) :
                 mem' = [mem EXCEPT ![h] = cat]
      BY <2>3, Zenon DEF Load
    <3>2. req[h] \in Request /\ at[h] \in Time /\ Rooted(catalog)
      BY <1>0, <2>3, Zenon DEF StoreInv, Load
    <3>3. cat \in CatalogType
      BY <1>0, <3>1, <3>2, ResultsAre, Zenon
    <3> QED
      BY <1>0, <2>3, <3>1, <3>3, Zenon DEF Load
  <2>4. CASE TruncTmp(h)
    BY <1>0, <2>4, EmptyType, Zenon DEF TruncTmp, TmpType
  <2>5. CASE WriteTmp(h)
    BY <1>0, <2>5, Zenon DEF WriteTmp, TmpType
  <2>6. CASE Rename(h)
    BY <1>0, <2>6, EmptyType, Zenon DEF Rename, TmpType
  <2>7. CASE RecordFails(h)
    BY <1>0, <2>7, Zenon DEF RecordFails
  <2> QED
    BY <1>4, <2>1, <2>2, <2>3, <2>4, <2>5, <2>6, <2>7, ZenonT(120) DEF Step
<1> QED
  BY <1>1, <1>2, <1>3, <1>4, Zenon DEF StoreNext

(* The renamed file is a record of the deal into the current catalog.json. *)
LEMMA RenameRecords ==
  ASSUME StoreInv, NEW h \in Handler, Rename(h)
  PROVE  /\ req[h] \in Request /\ at[h] \in Time
         /\ catalog \in CatalogType /\ Rooted(catalog)
         /\ catalog' \in Results(catalog, req[h], at[h])
  BY Zenon DEF StoreInv, StoreTypeOK, Rename, Active, Critical, Saving

LEMMA NextStoreInv == StoreInv /\ [StoreNext]_vars => StoreInv'
<1> SUFFICES ASSUME StoreInv, [StoreNext]_vars PROVE StoreInv'
  BY Zenon
<1> DEFINE Own(h) ==
      /\ pc[h] \in Critical => lock = h
      /\ pc[h] \in Active \cup {"catalogued"} => req[h] \in Request
      /\ pc[h] \in Saving => mem[h] \in Results(catalog, req[h], at[h])
      /\ pc[h] = "rename" => tmp.content = mem[h]
<1>0. /\ StoreTypeOK /\ Rooted(catalog) /\ AnsweredIsCatalogued
      /\ \A h \in Handler : Own(h)
  BY Zenon DEF StoreInv
<1>1. CASE UNCHANGED vars
  <2>1. StoreTypeOK' /\ Rooted(catalog)' /\ AnsweredIsCatalogued'
    BY <1>0, <1>1, Zenon DEF vars, StoreTypeOK, AnsweredIsCatalogued
  <2>2. \A h \in Handler : Own(h)'
    BY <1>0, <1>1, Zenon DEF vars
  <2> QED
    BY <2>1, <2>2, Zenon DEF StoreInv
<1>2. CASE StoreNext
  <2>1. StoreTypeOK'
    BY <1>2, NextStoreType, Zenon
  <2>2. SUFFICES /\ Rooted(catalog)'
                 /\ AnsweredIsCatalogued'
                 /\ \A h \in Handler : Own(h)'
    BY <2>1, Zenon DEF StoreInv
  <2> USE DEF StoreTypeOK, Goto, AnsweredIsCatalogued
  <2>3. CASE Tick
    BY <1>0, <2>3, Zenon DEF Tick
  <2>4. CASE Crash
    BY <1>0, <2>4, Zenon DEF Crash, Active, Critical, Saving
  <2>5. ASSUME NEW i \in Handler, NEW r \in Request, Begin(i, r)
        PROVE  /\ Rooted(catalog)'
               /\ AnsweredIsCatalogued'
               /\ \A h \in Handler : Own(h)'
    BY <1>0, <2>5, Zenon DEF Begin, Active, Critical, Saving
  <2>6. ASSUME NEW i \in Handler, Step(i)
        PROVE  /\ Rooted(catalog)'
               /\ AnsweredIsCatalogued'
               /\ \A h \in Handler : Own(h)'
    <3> USE DEF Active, Critical, Saving
    <3>1. CASE DealEnds(i)
      BY <1>0, <3>1, ZenonT(120) DEF DealEnds
    <3>2. CASE Lock(i)
      BY <1>0, <3>2, HandlerAssumption, Zenon DEF Lock
    <3>3. CASE Load(i)
      BY <1>0, <3>3, Zenon DEF Load
    <3>4. CASE TruncTmp(i)
      BY <1>0, <3>4, Zenon DEF TruncTmp
    <3>5. CASE WriteTmp(i)
      BY <1>0, <3>5, Zenon DEF WriteTmp
    <3>6. CASE Rename(i)
      <4>1. /\ req[i] \in Request /\ at[i] \in Time
            /\ catalog \in CatalogType /\ Rooted(catalog)
            /\ catalog' \in Results(catalog, req[i], at[i])
        BY <3>6, RenameRecords, Zenon
      <4>2. Rooted(catalog')
        BY <4>1, ResultsRooted, Zenon
      <4>3. Recorded(catalog', req[i])
        BY <4>1, ResultsRecorded, Zenon
      <4>4. catalog.versions \subseteq catalog'.versions
        BY <4>1, ResultsGrow, Zenon
      <4>5. AnsweredIsCatalogued'
        BY <1>0, <3>6, <4>3, <4>4, RecordedStays, Zenon DEF Rename
      <4>6. \A h \in Handler : Own(h)'
        BY <1>0, <3>6, Zenon DEF Rename
      <4> QED
        BY <4>2, <4>5, <4>6, Zenon
    <3>7. CASE RecordFails(i)
      BY <1>0, <3>7, Zenon DEF RecordFails
    <3> QED
      BY <2>6, <3>1, <3>2, <3>3, <3>4, <3>5, <3>6, <3>7, ZenonT(120) DEF Step
  <2> QED
    BY <1>2, <2>3, <2>4, <2>5, <2>6, Zenon DEF StoreNext
<1> QED
  BY <1>1, <1>2, Zenon

LEMMA SpecStoreInv == StoreSpec => []StoreInv
  BY InitStoreInv, NextStoreInv, PTL DEF StoreSpec

(* For any number of handlers: every variable keeps its type, and a deal   *)
(* that was answered without a catalog error stays in catalog.json, rooted *)
(* (recordInitialVersion, recordPatchVersion, saveCatalogLocked).          *)
THEOREM AnswersKept == StoreSpec => [](StoreTypeOK /\ AnsweredIsCatalogued)
<1>1. StoreInv => StoreTypeOK /\ AnsweredIsCatalogued
  BY Zenon DEF StoreInv
<1> QED
  BY <1>1, SpecStoreInv, PTL

(* Loading, changing, writing and renaming under catalogMu, with failures  *)
(* and crashes between any two of them, implements the atomic catalog.     *)
THEOREM StoreRefines == StoreSpec => Refinement
<1>1. StoreInit => Init
  BY Zenon DEF StoreInit, Init
<1>2. StoreInv /\ [StoreNext]_vars => [Next]_catalog
  <2> SUFFICES ASSUME StoreInv, [StoreNext]_vars, catalog' # catalog
               PROVE  Next
    BY Zenon
  <2>1. PICK h \in Handler : Rename(h)
    BY Zenon DEF StoreNext, vars, Tick, Crash, Begin, Step, DealEnds, Lock, Load,
           TruncTmp, WriteTmp, RecordFails
  <2>2. /\ req[h] \in Request /\ at[h] \in Time
        /\ catalog' \in Results(catalog, req[h], at[h])
    BY <2>1, RenameRecords, Zenon
  <2> QED
    BY <2>2, Zenon DEF Next, Record
<1> QED
  BY <1>1, <1>2, SpecStoreInv, PTL DEF StoreSpec, Spec, Refinement

(* Hence no handler, and no crash, ever drops what another recorded. *)
THEOREM StoreGrows == StoreSpec => NothingLost
  BY StoreRefines, CatalogGrows, Zenon DEF Refinement
(* So the labels given to what stands in catalog.json mean what they say,  *)
(* whatever handlers, failures and crashes led to it.                      *)
THEOREM StoredLabels ==
  StoreSpec => /\ [](NoOrphans /\ LabelsTellThePath /\ PreviousListedFirst)
               /\ LabelsMoveOnlyForAnEarlierSibling
  BY StoreRefines, WalkLabelsAll, LabelsTellPaths, ListedAfterPrevious,
     LabelsMoveOnlyWhenOvertaken, PTL DEF Refinement

============================================================================
