--------------------------- MODULE CatalogLabels ---------------------------
(***************************************************************************)
(* The version labels normalizeVersions gives the versions of a file.      *)
(* A label "v3.1.2" is the sequence of its numbers, <<3, 1, 2>>: parsing   *)
(* and formatting are inverse on the labels the program makes.             *)
(***************************************************************************)
EXTENDS Catalog, Sequences, FiniteSets

Of(root) == {v \in catalog.versions : v.root = root}

Children(vs, c) == {v \in vs : v.prev = c}

(* Mutant: the children of a version in the order of their cids. *)
EarlierByCid(v, w) == v.cid < w.cid

(* The order of the children of one version. *)
Earlier(v, w) ==
  \/ v.at < w.at
  \/ v.at = w.at /\ v.name < w.name
  \/ v.at = w.at /\ v.name = w.name /\ v.cid < w.cid

(* The index of v among the children of its previous version. *)
Rank(vs, v) == Cardinality({w \in Children(vs, v.prev) : Earlier(w, v)})

(* Mutant: the last number is raised. *)
nextGenerationLabelLast(label) == [label EXCEPT ![Len(label)] = @ + 1]

nextGenerationLabel(label) == [label EXCEPT ![1] = @ + 1]

(* The first child continues the label, the others branch off. *)
ChildLabel(label, rank) ==
  IF rank = 0 THEN nextGenerationLabel(label)
  ELSE Append(nextGenerationLabel(label), rank)

(* What the children of labelled versions are labelled. *)
labelChildren(vs, nodes) ==
  UNION { {[cid |-> v.cid, label |-> ChildLabel(n.label, Rank(vs, v))]
           : v \in Children(vs, n.cid)} : n \in nodes }

(* labelByCID when the walk from the root has come n generations down.  It *)
(* goes down depth first, but a version is a child of one version only, so *)
(* the order is of no account.                                             *)
walkTree(vs, root) ==
  LET top == {[cid |-> root, label |-> <<1>>]}
      walked[n \in Nat] == IF n = 0 THEN top
                           ELSE top \cup labelChildren(vs, walked[n - 1])
  IN walked

(* labelByCID: the label of every version the walk from the root reaches. *)
Labelled(root) == walkTree(Of(root), root)[Cardinality(Of(root))]

LabelIn(tree, c) == (CHOOSE n \in tree : n.cid = c).label

(* Mutant: longer labels first. *)
LabelLessReversed(l, m) == Len(l) > Len(m)

(* compareVersionLabels < 0. *)
LabelLess(l, m) ==
  \/ \E i \in 1 .. Len(l) : /\ i <= Len(m)
                            /\ l[i] < m[i]
                            /\ \A j \in 1 .. i - 1 : l[j] = m[j]
  \/ /\ Len(l) < Len(m)
     /\ \A j \in 1 .. Len(l) : l[j] = m[j]

(* The order in which the versions of a file are listed. *)
ListedBefore(v, w, tree) ==
  LET l == LabelIn(tree, v.cid)
      m == LabelIn(tree, w.cid)
  IN \/ LabelLess(l, m)
     \/ l = m /\ v.at < w.at
     \/ l = m /\ v.at = w.at /\ v.cid < w.cid

----------------------------------------------------------------------------
(* Properties *)

Roots == {f.root : f \in catalog.files}
VersionOf(root, c) == CHOOSE v \in Of(root) : v.cid = c

(* For each version, the versions from the root down to it. *)
Line(root) ==
  LET line[v \in Of(root)] ==
        IF v.cid = root THEN <<v>>
        ELSE Append(line[VersionOf(root, v.prev)], v)
  IN line

(* The walk from the root labels every version of the file, once: the      *)
(* fallback that invents labels for unreachable versions is never needed   *)
(* for a catalog the server wrote, though cids are shared between files    *)
(* and records repeated.                                                   *)
NoOrphans ==
  \A root \in Roots :
    LET tree == Labelled(root) IN
    /\ {n.cid : n \in tree} = {v.cid : v \in Of(root)}
    /\ \A n, m \in tree : n.cid = m.cid => n = m

(* What a label says: its first number is the generation of the version,   *)
(* and the others are, in order, the ranks of the branches on its line.    *)
LabelsTellThePath ==
  \A root \in Roots :
    LET tree == Labelled(root) IN
    \A v \in Of(root) :
      LET line     == Line(root)[v]
          rank     == [i \in DOMAIN line |-> Rank(Of(root), line[i])]
          branches == {i \in DOMAIN line : rank[i] > 0}
          label    == LabelIn(tree, v.cid)
      IN /\ label[1] = Len(line)
         /\ Len(label) = 1 + Cardinality(branches)
         /\ \A i \in branches :
              label[1 + Cardinality({j \in branches : j <= i})] = rank[i]

(* A file lists a version after the version it was made from. *)
PreviousListedFirst ==
  \A root \in Roots :
    LET tree == Labelled(root) IN
    \A v, w \in Of(root) : w.prev = v.cid => ListedBefore(v, w, tree)

(* uploadedAt has a resolution of a second and is taken before the catalog *)
(* is locked.  Still, recording a version changes the label of another one *)
(* only when that one is a sibling of the new version with a stamp that is *)
(* no earlier, or descends from such a sibling.                            *)
LabelsMoveOnlyForAnEarlierSibling ==
  [][\A root \in Roots :
       LET new == Of(root)' \ Of(root)
           old == Labelled(root)
           now == Labelled(root)'
       IN \A v \in Of(root) :
            \/ LabelIn(now, v.cid) = LabelIn(old, v.cid)
            \/ LET line == Line(root)[v] IN
               \E n \in new, i \in DOMAIN line :
                 line[i].prev = n.prev /\ n.at <= line[i].at]_catalog

----------------------------------------------------------------------------
(* What makes the labels come out: the versions of a file are finitely     *)
(* many and can be numbered so that each has a higher number than the      *)
(* version it was made from.  The order of recording is such a numbering.  *)
Numbering(vs, num) ==
  /\ num \in [vs -> 0 .. Cardinality(vs) - 1]
  /\ \A v, w \in vs : w.prev = v.cid => num[v] < num[w]

IsTree(vs, root) ==
  /\ vs \subseteq Version
  /\ root \in Cid
  /\ IsFiniteSet(vs)
  /\ \A v, w \in vs : v.cid = w.cid => v = w
  /\ \E v \in vs : v.cid = root
  /\ \A v \in vs : /\ v.prev = NULL <=> v.cid = root
                   /\ v.prev # NULL => \E w \in vs : w.cid = v.prev
  /\ \E num \in [vs -> 0 .. Cardinality(vs) - 1] : Numbering(vs, num)

(* The inductive invariant from which the properties above follow. *)
TreeInv ==
  /\ TypeOK
  /\ CatalogRooted
  /\ \A root \in Roots : IsTree(Of(root), root)

============================================================================
