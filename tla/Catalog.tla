------------------------------ MODULE Catalog ------------------------------
(***************************************************************************)
(* What the catalog of opendsn-api promises: a set of files, each with the *)
(* versions recorded for it, changed only by atomic records of one deal.   *)
(* Version labels and the order of versions are recomputed from the rest   *)
(* on every load, so they are no part of the state (module CatalogLabels). *)
(***************************************************************************)
EXTENDS Naturals

CONSTANTS
  Cid,     \* cids, as numbers so that they are ordered like the strings
  Name,    \* display names, lower-cased, ordered
  Time,    \* values of uploadedAt
  Request, \* the deals that are recorded
  NULL     \* no previous cid

ASSUME CatalogAssumption ==
  /\ Cid \subseteq Nat /\ Name \subseteq Nat /\ Time \subseteq Nat
  /\ NULL \notin Cid
  /\ Request \subseteq [cid : Cid, prev : Cid \cup {NULL}, name : Name]

VARIABLE catalog

File    == [root : Cid, name : Name, created : Time]
Version == [root : Cid, cid : Cid, prev : Cid \cup {NULL}, at : Time, name : Name]
CatalogType == [files : SUBSET File, versions : SUBSET Version]
Empty == [files |-> {}, versions |-> {}]

----------------------------------------------------------------------------
(* findFileIndexByRoot and findVersionIndex, as tests. *)
HasFile(cat, root) == \E f \in cat.files : f.root = root
HasVersion(cat, root, c) == \E v \in cat.versions : v.root = root /\ v.cid = c

(* The order of catalog.Files; sort.Slice leaves ties in any order. *)
Before(f, g) ==
  f.name < g.name \/ (f.name = g.name /\ f.created < g.created)

(* Mutant: the first file, whether or not it has the cid. *)
HoldersAny(cat, c) == cat.files

Holders(cat, c) == {f \in cat.files : HasVersion(cat, f.root, c)}

(* findVersionLocation: the first file, in that order, that has the cid. *)
Locations(cat, c) ==
  {f \in Holders(cat, c) : \A g \in Holders(cat, c) : ~Before(g, f)}

NewVersion(root, r, prev, at) ==
  [root |-> root, cid |-> r.cid, prev |-> prev, at |-> at, name |-> r.name]

NewFile(r, at) == [root |-> r.cid, name |-> r.name, created |-> at]

WithVersion(cat, v) == [cat EXCEPT !.versions = @ \cup {v}]
WithFile(cat, f)    == [cat EXCEPT !.files = @ \cup {f}]

(* A root that is recorded again changes nothing. *)
upsertInitialVersion(cat, r, at) ==
  LET v == NewVersion(r.cid, r, NULL, at) IN
  IF HasFile(cat, r.cid)
  THEN IF HasVersion(cat, r.cid, r.cid) THEN cat ELSE WithVersion(cat, v)
  ELSE WithVersion(WithFile(cat, NewFile(r, at)), v)

(* Mutant: a version that is present already is appended again. *)
appendPatchVersionAlways(cat, r, at, f) ==
  WithVersion(cat, NewVersion(f.root, r, r.prev, at))

(* f is the file found for the previous cid.  A version that is present in *)
(* that file already, under whatever previous version, is kept as it is.   *)
appendPatchVersion(cat, r, at, f) ==
  IF HasVersion(cat, f.root, r.cid)
  THEN cat
  ELSE WithVersion(cat, NewVersion(f.root, r, r.prev, at))

(* The catalogs recording r may lead to: none when the previous version is *)
(* not present, several when files tie.                                    *)
Results(cat, r, at) ==
  IF r.prev = NULL
  THEN {upsertInitialVersion(cat, r, at)}
  ELSE {appendPatchVersion(cat, r, at, f) : f \in Locations(cat, r.prev)}

Init == catalog = Empty

Record(r, at) == catalog' \in Results(catalog, r, at)

Next == \E r \in Request, at \in Time : Record(r, at)

Spec == Init /\ [][Next]_catalog

----------------------------------------------------------------------------
(* Properties *)

(* The catalog has its type. *)
TypeOK == catalog \in CatalogType

(* However roots and patches are recorded, repeated, or shared between     *)
(* files: a cid occurs once in a file, a file has its root version, the    *)
(* root version is the only one without a previous version, and the        *)
(* previous version of every other one is in the same file.                *)
Rooted(cat) ==
  /\ \A f, g \in cat.files : f.root = g.root => f = g
  /\ \A f \in cat.files : HasVersion(cat, f.root, f.root)
  /\ \A v, w \in cat.versions : v.root = w.root /\ v.cid = w.cid => v = w
  /\ \A v \in cat.versions :
       /\ HasFile(cat, v.root)
       /\ v.prev = NULL <=> v.cid = v.root
       /\ v.prev # NULL => HasVersion(cat, v.root, v.prev)

CatalogRooted == Rooted(catalog)

(* What was recorded is never dropped or altered by a later record. *)
NothingLost ==
  [][catalog.files \subseteq catalog'.files
     /\ catalog.versions \subseteq catalog'.versions]_catalog
============================================================================
