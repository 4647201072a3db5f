------------------------- MODULE VersionMetaProofs -------------------------
(***************************************************************************)
(* Proofs about VersionMeta for any number of invocations, cids and        *)
(* requests: its type invariant, the soundness of what list-version and    *)
(* retrieve-version read while deals write, die or are repeated, what can  *)
(* break a metadata file, and that the links agree when all is quiet.      *)
(***************************************************************************)
EXTENDS VersionMeta, SequenceTheorems, TLAPS

(* Putting x in front of s, as the resolution loop does with each cid. *)
LEMMA Prepend ==
  ASSUME NEW S, NEW x \in S, NEW s \in Seq(S)
  PROVE  /\ <<x>> \o s \in Seq(S)
         /\ <<x>> \o s # <<>>
         /\ Len(<<x>> \o s) = Len(s) + 1
         /\ (<<x>> \o s)[1] = x
         /\ \A i \in 1 .. Len(s) : (<<x>> \o s)[i + 1] = s[i]
         /\ Range(<<x>> \o s) = Range(s) \cup {x}
<1>1. <<x>> \in Seq(S) /\ Len(<<x>>) = 1 /\ <<x>>[1] = x
  OBVIOUS
<1>2. /\ <<x>> \o s \in Seq(S)
      /\ Len(<<x>> \o s) = 1 + Len(s)
      /\ \A i \in 1 .. 1 + Len(s) :
           (<<x>> \o s)[i] = IF i <= 1 THEN <<x>>[i] ELSE s[i - 1]
  BY <1>1, ConcatProperties, ZenonT(120)
<1>3. Len(s) \in Nat
  OBVIOUS
<1>4. \A i \in 1 .. Len(s) : (<<x>> \o s)[i + 1] = s[i]
  BY <1>2, <1>3
<1>5. (<<x>> \o s)[1] = x
  BY <1>1, <1>2, <1>3
<1>6. Range(<<x>>) = {x}
  BY <1>1 DEF Range
<1>7. Range(<<x>> \o s) = Range(<<x>>) \cup Range(s)
  BY <1>1, RangeConcatenation, ZenonT(120)
<1> QED
  BY <1>2, <1>3, <1>4, <1>5, <1>6, <1>7

(* The initial state, no metadata and no invocation, satisfies IInv. *)
LEMMA InitIInv == Init => IInv
  BY RequestAssumption
  DEF Init, IInv, TypeOK, DealInv, LinkInv, WalkInv, ResolvedChainSound,
      ListedChainSound, MetaFile, Absent, NoRequest, NoWalk, NewWalk, Walk,
      Link, DealLoc, WalkLoc, Running, Ended

(* Every step of every invocation keeps the types. *)
LEMMA NextType == IInv /\ [Next]_vars => TypeOK'
<1> SUFFICES ASSUME IInv, [Next]_vars PROVE TypeOK'
  BY Zenon
<1> USE RequestAssumption DEF TypeOK, Link, MetaFile, Running, Ended,
        DealLoc, WalkLoc, Goto, At
<1>0. TypeOK /\ DealInv /\ LinkInv /\ WalkInv
  BY Zenon DEF IInv
<1>1. ASSUME NEW p \in Invocation, NEW r \in Request, DealBegin(p, r)
      PROVE  TypeOK'
  BY <1>0, <1>1, Zenon DEF DealBegin
<1>2. ASSUME NEW p \in Invocation, NEW c \in Cid, ListBegin(p, c)
      PROVE  TypeOK'
  BY <1>0, <1>2 DEF ListBegin, NewWalk, Walk
<1>3. ASSUME NEW p \in Invocation, NEW c \in Cid, RetrieveBegin(p, c)
      PROVE  TypeOK'
  BY <1>0, <1>3 DEF RetrieveBegin, NewWalk, Walk
<1>4. ASSUME NEW p \in Invocation, StartDeal(p) PROVE TypeOK'
  BY <1>0, <1>4, ZenonT(120) DEF StartDeal, AfterDeal, DealInv
<1>5. ASSUME NEW p \in Invocation, AppendRoot(p) PROVE TypeOK'
  BY <1>0, <1>5 DEF AppendRoot, DealInv
<1>6. ASSUME NEW p \in Invocation, TruncRoot(p) PROVE TypeOK'
  BY <1>0, <1>6, Zenon DEF TruncRoot, Truncate, Torn
<1>7. ASSUME NEW p \in Invocation, WriteRoot(p) PROVE TypeOK'
  BY <1>0, <1>7, Zenon DEF WriteRoot, WriteLines, Full
<1>8. ASSUME NEW p \in Invocation, ReadPrev(p) PROVE TypeOK'
  <2>1. req[p] \in Request /\ req[p].prev \in Cid
    BY <1>0, <1>8, Zenon DEF ReadPrev, KeptLine, Readable, DealInv, BadFlags
  <2>2. meta[req[p].prev].prev \in Link
    BY <1>0, <2>1, Zenon
  <2> QED
    BY <1>0, <1>8, <2>2 DEF ReadPrev, KeptLine, Readable
<1>9. ASSUME NEW p \in Invocation, TruncPrev(p) PROVE TypeOK'
  BY <1>0, <1>9, Zenon DEF TruncPrev, Truncate, Torn
<1>10. ASSUME NEW p \in Invocation, WritePrev(p) PROVE TypeOK'
  BY <1>0, <1>10, Zenon DEF WritePrev, WriteLines, Full, DealInv
<1>11. ASSUME NEW p \in Invocation, TruncCur(p) PROVE TypeOK'
  BY <1>0, <1>11, Zenon DEF TruncCur, Truncate, Torn
<1>12. ASSUME NEW p \in Invocation, WriteCur(p) PROVE TypeOK'
  BY <1>0, <1>12 DEF WriteCur, WriteLines, Full, DealInv
<1>13. ASSUME NEW p \in Invocation, ListStat(p) PROVE TypeOK'
  <2>1. walk[p] \in Walk /\ walk[p].cur \in Cid
    BY <1>0, <1>13, Zenon DEF ListStat, WalkInv
  <2>2. NewWalk(walk[p].cur, <<walk[p].cur>>) \in Walk
    BY <2>1 DEF NewWalk, Walk
  <2> QED
    BY <1>0, <1>13, <2>1, <2>2 DEF ListStat
<1>14. ASSUME NEW p \in Invocation, ListStep(p) PROVE TypeOK'
  <2>1. walk[p] \in Walk /\ walk[p].cur \in Cid
    BY <1>0, <1>14, Zenon DEF ListStep, Seen, Readable, WalkInv
  <2> DEFINE h == meta[walk[p].cur].head
             w == [target |-> walk[p].target, cur |-> h,
                   visited |-> walk[p].visited \cup {walk[p].cur},
                   chain |-> Append(walk[p].chain, h)]
  <2>2. h # NULL => w \in Walk
    BY <1>0, <2>1 DEF Walk
  <2> QED
    BY <1>0, <1>14, <2>1, <2>2, ZenonT(120) DEF ListStep, Seen, Readable
<1>15. ASSUME NEW p \in Invocation, ResolveStep(p) PROVE TypeOK'
  <2>1. walk[p] \in Walk /\ walk[p].cur \in Cid
    BY <1>0, <1>15, Zenon DEF ResolveStep, Seen, Readable, WalkInv
  <2> DEFINE prev == meta[walk[p].cur].prev
             w == [target |-> walk[p].target,
                   cur |-> IF prev = NULL THEN walk[p].cur ELSE prev,
                   visited |-> walk[p].visited \cup {walk[p].cur},
                   chain |-> <<walk[p].cur>> \o walk[p].chain]
  <2>2. <<walk[p].cur>> \o walk[p].chain \in Seq(Cid)
    BY <2>1, Prepend, Zenon DEF Walk
  <2>3. prev \in Link
    BY <1>0, <2>1, Zenon
  <2>4. w \in Walk
    BY <2>1, <2>2, <2>3, Zenon DEF Walk
  <2>5. walk' = walk \/ walk' = [walk EXCEPT ![p] = w]
    BY <1>15, Zenon DEF ResolveStep, Seen, Readable
  <2>6. walk' \in [Invocation -> Walk]
    <3> HIDE DEF w
    <3> QED BY <1>0, <2>4, <2>5, Zenon
  <2> QED
    BY <1>0, <1>15, <2>6, SMTT(120) DEF ResolveStep, Seen, Readable
<1>16. ASSUME NEW p \in Invocation, Abort(p) PROVE TypeOK'
  BY <1>0, <1>16, Zenon DEF Abort
<1>17. CASE UNCHANGED vars
  BY <1>0, <1>17, Zenon DEF vars
<1> QED
  BY <1>1, <1>2, <1>3, <1>4, <1>5, <1>6, <1>7, <1>8, <1>9, <1>10, <1>11,
     <1>12, <1>13, <1>14, <1>15, <1>16, <1>17, Zenon DEF Next, Begin, Step

(* No step removes a root from fileroots.log or takes back a deal. *)
LEMMA Growth ==
  IInv /\ [Next]_vars =>
    dealt \subseteq dealt' /\ Range(fileroots) \subseteq Range(fileroots')
<1> SUFFICES ASSUME IInv, [Next]_vars
             PROVE  /\ dealt \subseteq dealt'
                    /\ Range(fileroots) \subseteq Range(fileroots')
  BY Zenon
<1>1. CASE \E p \in Invocation : AppendRoot(p)
  <2> PICK p \in Invocation : AppendRoot(p)
    BY <1>1, Zenon
  <2>1. fileroots \in Seq(Cid) /\ req[p].cid \in Cid
    BY RequestAssumption, Zenon DEF IInv, TypeOK, DealInv, AppendRoot, At, DealLoc
  <2>2. <<req[p].cid>> \in Seq(Cid) /\ fileroots' = fileroots \o <<req[p].cid>>
    BY <2>1, AppendIsConcat DEF AppendRoot
  <2>3. Range(fileroots') = Range(fileroots) \cup Range(<<req[p].cid>>)
    BY <2>1, <2>2, RangeConcatenation, ZenonT(120)
  <2> QED
    BY <2>3, Zenon DEF AppendRoot
<1>2. CASE ~ \E p \in Invocation : AppendRoot(p)
  BY <1>2, ZenonT(120) DEF Next, Begin, Step, vars, DealBegin, ListBegin, RetrieveBegin,
     StartDeal, TruncRoot, Truncate, WriteRoot, WriteLines, ReadPrev,
     TruncPrev, WritePrev, TruncCur, WriteCur, ListStat, ListStep,
     ResolveStep, Seen, Readable, Abort
<1> QED
  BY <1>1, <1>2, Zenon

(* Every step keeps what the steps of `client deal` rely on. *)
LEMMA NextDeal == IInv /\ [Next]_vars => DealInv'
<1> SUFFICES ASSUME IInv, [Next]_vars PROVE DealInv'
  BY Zenon
<1>0. TypeOK /\ DealInv
  BY Zenon DEF IInv
<1>a. dealt \subseteq dealt' /\ Range(fileroots) \subseteq Range(fileroots')
  BY Growth, Zenon
<1> USE <1>0, <1>a, RequestAssumption
    DEF TypeOK, DealInv, Running, Ended, DealLoc, WalkLoc, Goto, At
<1>1. ASSUME NEW p \in Invocation, Begin(p) PROVE DealInv'
  BY <1>1 DEF Begin, DealBegin, ListBegin, RetrieveBegin
<1>2. ASSUME NEW p \in Invocation, StartDeal(p) PROVE DealInv'
  BY <1>2 DEF StartDeal, AfterDeal
<1>3. ASSUME NEW p \in Invocation, AppendRoot(p) PROVE DealInv'
  <2>1. fileroots' = Append(fileroots, req[p].cid) /\ req[p].cid \in Cid
    BY <1>3, Zenon DEF AppendRoot
  <2>2. req[p].cid \in Range(fileroots')
    BY <2>1, AppendProperties DEF Range
  <2> QED
    BY <1>3, <2>2, Zenon DEF AppendRoot
<1>4. ASSUME NEW p \in Invocation,
             TruncRoot(p) \/ TruncPrev(p) \/ TruncCur(p)
      PROVE  DealInv'
  BY <1>4 DEF TruncRoot, TruncPrev, TruncCur, Truncate
<1>5. ASSUME NEW p \in Invocation,
             WriteRoot(p) \/ WritePrev(p) \/ WriteCur(p)
      PROVE  DealInv'
  BY <1>5 DEF WriteRoot, WritePrev, WriteCur, WriteLines
<1>6. ASSUME NEW p \in Invocation, ReadPrev(p) PROVE DealInv'
  BY <1>6 DEF ReadPrev, KeptLine, Readable
<1>7. ASSUME NEW p \in Invocation,
             ListStat(p) \/ ListStep(p) \/ ResolveStep(p)
      PROVE  DealInv'
  <2>1. \E loc \in {"list", "failed", "done", "resolve", "resolved"} :
           pc' = [pc EXCEPT ![p] = loc]
    BY <1>7 DEF ListStat, ListStep, ResolveStep, Seen, Readable
  <2>2. UNCHANGED <<req, dealt, fileroots>>
    BY <1>7, Zenon DEF ListStat, ListStep, ResolveStep, Seen, Readable
  <2> QED
    BY <2>1, <2>2
<1>8. ASSUME NEW p \in Invocation, Abort(p) PROVE DealInv'
  BY <1>8, Zenon DEF Abort
<1>9. CASE UNCHANGED vars
  BY <1>9, Zenon DEF vars
<1> QED
  BY <1>1, <1>2, <1>3, <1>4, <1>5, <1>6, <1>7, <1>8, <1>9, Zenon DEF Next, Step

(* An invocation keeps its request. *)
LEMMA RequestedGrows ==
  ASSUME IInv, [Next]_vars
  PROVE  /\ \A c : Creates(c) => Creates(c)'
         /\ \A c, d : Updates(c, d) => Updates(c, d)'
<1>1. CASE req' = req
  BY <1>1, Zenon DEF Creates, Updates, Requested
<1>2. ASSUME NEW p \in Invocation, NEW r \in Request, DealBegin(p, r)
      PROVE  /\ \A c : Creates(c) => Creates(c)'
             /\ \A c, d : Updates(c, d) => Updates(c, d)'
  <2>1. /\ req[p] = NoRequest /\ req' = [req EXCEPT ![p] = r]
        /\ req \in [Invocation -> Request \cup {NoRequest}]
    BY <1>2, Zenon DEF IInv, TypeOK, DealInv, DealBegin, At
  <2>2. ~req[p].create /\ ~req[p].update
    BY <2>1 DEF NoRequest
  <2>3. \A q \in Invocation \ {p} : req'[q] = req[q]
    BY <2>1, Zenon
  <2>4. ASSUME NEW x \in Requested, x.create \/ x.update PROVE x \in Requested'
    <3> PICK q \in Invocation : x = req[q] /\ ~BadFlags(req[q])
      BY Zenon DEF Requested
    <3>1. q # p
      BY <2>2, <2>4, Zenon
    <3> QED
      BY <2>3, <3>1, Zenon DEF Requested
  <2> QED
    BY <2>4, Zenon DEF Creates, Updates
<1>3. CASE ~ \E p \in Invocation, r \in Request : DealBegin(p, r)
  <2>1. req' = req
    BY <1>3, ZenonT(120) DEF Next, Begin, Step, vars, ListBegin, RetrieveBegin,
       StartDeal, AppendRoot, TruncRoot, Truncate, WriteRoot, WriteLines, ReadPrev,
       TruncPrev, WritePrev, TruncCur, WriteCur, ListStat, ListStep,
       ResolveStep, Seen, Readable, Abort
  <2> QED
    BY <1>1, <2>1, Zenon
<1> QED
  BY <1>2, <1>3, Zenon

(* What was a good link stays one: requests, deals and roots only grow. *)
LEMMA GoodLinkStable ==
  ASSUME IInv, [Next]_vars, NEW c, NEW prev, GoodLink(c, prev)
  PROVE  GoodLink(c, prev)'
<1>1. dealt \subseteq dealt' /\ Range(fileroots) \subseteq Range(fileroots')
  BY Growth, Zenon
<1> QED
  BY <1>1, RequestedGrows, Zenon DEF GoodLink

(* What a deal writes, it was asked to write. *)
LEMMA Requesting ==
  ASSUME IInv, NEW p \in Invocation
  PROVE  /\ pc[p] = "writeRoot" => Creates(req[p].cid)
         /\ pc[p] \in {"writePrev", "writeCur"} => Updates(req[p].prev, req[p].cid)
<1>1. pc[p] \in DealLoc => req[p] \in Requested
  BY Zenon DEF IInv, DealInv, Requested
<1>2. pc[p] = "writeRoot" => pc[p] \in DealLoc /\ req[p].create
  BY Zenon DEF IInv, DealInv, DealLoc
<1>3. pc[p] \in {"writePrev", "writeCur"} => pc[p] \in DealLoc /\ req[p].update
  BY Zenon DEF IInv, DealInv, DealLoc
<1> QED
  BY <1>1, <1>2, <1>3, Zenon DEF Creates, Updates

(* Every step keeps the links of the metadata files good. *)
LEMMA NextLink == IInv /\ [Next]_vars => LinkInv'
<1> SUFFICES ASSUME IInv, [Next]_vars PROVE LinkInv'
  BY Zenon
<1>0. TypeOK /\ DealInv /\ LinkInv
  BY Zenon DEF IInv
<1>a. /\ \A c, prev : GoodLink(c, prev) => GoodLink(c, prev)'
      /\ \A c, d : Updates(c, d) => Updates(c, d)'
  BY GoodLinkStable, RequestedGrows, Zenon
<1> USE <1>0, <1>a, RequestAssumption
    DEF TypeOK, LinkInv, Running, Ended, DealLoc, WalkLoc, Goto, At
<1>1. ASSUME NEW p \in Invocation, Begin(p) PROVE LinkInv'
  BY <1>1 DEF Begin, DealBegin, ListBegin, RetrieveBegin
<1>2. ASSUME NEW p \in Invocation, StartDeal(p) \/ AppendRoot(p)
      PROVE  LinkInv'
  BY <1>2, ZenonT(120) DEF StartDeal, AfterDeal, AppendRoot
<1>3. ASSUME NEW p \in Invocation,
             TruncRoot(p) \/ TruncPrev(p) \/ TruncCur(p)
      PROVE  LinkInv'
  BY <1>3 DEF TruncRoot, TruncPrev, TruncCur, Truncate, Torn
<1>4. ASSUME NEW p \in Invocation, WriteRoot(p) PROVE LinkInv'
  <2>1. GoodLink(req[p].cid, NULL)
    <3>1. Creates(req[p].cid)
      BY <1>4, Requesting, Zenon DEF WriteRoot, WriteLines
    <3> QED
      BY <1>4, <3>1, Zenon DEF DealInv, GoodLink, WriteRoot, WriteLines
  <2> QED
    BY <1>4, <2>1, Zenon DEF WriteRoot, WriteLines, Full
<1>5. ASSUME NEW p \in Invocation, WritePrev(p) PROVE LinkInv'
  <2>1. GoodLink(req[p].prev, kept[p])
    BY <1>5, Zenon DEF WritePrev, WriteLines
  <2>2. Updates(req[p].prev, req[p].cid)
    BY <1>5, Requesting, Zenon DEF WritePrev, WriteLines
  <2> QED
    BY <1>5, <2>1, <2>2, Zenon DEF WritePrev, WriteLines, Full
<1>6. ASSUME NEW p \in Invocation, WriteCur(p) PROVE LinkInv'
  <2>1. GoodLink(req[p].cid, req[p].prev)
    <3>1. Updates(req[p].prev, req[p].cid)
      BY <1>6, Requesting, Zenon DEF WriteCur, WriteLines
    <3> QED
      BY <1>6, <3>1, Zenon DEF DealInv, GoodLink, BadFlags, WriteCur, WriteLines
  <2> QED
    BY <1>6, <2>1, Zenon DEF WriteCur, WriteLines, Full
<1>7. ASSUME NEW p \in Invocation, ReadPrev(p) PROVE LinkInv'
  <2>1. req[p].prev \in Cid
    BY <1>7, ZenonT(120) DEF DealInv, BadFlags, ReadPrev, KeptLine, Readable, Link
  <2> QED
    BY <1>7, <2>1 DEF ReadPrev, KeptLine, Readable
<1>8. ASSUME NEW p \in Invocation,
             ListStat(p) \/ ListStep(p) \/ ResolveStep(p)
      PROVE  LinkInv'
  <2>1. \E loc \in {"list", "failed", "done", "resolve", "resolved"} :
           pc' = [pc EXCEPT ![p] = loc]
    BY <1>8, SMTT(120) DEF ListStat, ListStep, ResolveStep, Seen, Readable
  <2>2. UNCHANGED <<meta, req, kept>>
    BY <1>8, Zenon DEF ListStat, ListStep, ResolveStep, Seen, Readable
  <2> QED
    BY <2>1, <2>2, Zenon
<1>9. ASSUME NEW p \in Invocation, Abort(p) PROVE LinkInv'
  BY <1>9, Zenon DEF Abort
<1>10. CASE UNCHANGED vars
  BY <1>10, Zenon DEF vars
<1> QED
  BY <1>1, <1>2, <1>3, <1>4, <1>5, <1>6, <1>7, <1>8, <1>9, <1>10, Zenon
     DEF Next, Step

(* The walk after one more turn of the list-version loop. *)
Listed(w, h) ==
  [target |-> w.target, cur |-> h, visited |-> w.visited \cup {w.cur},
   chain |-> Append(w.chain, h)]

(* The walk after one more turn of the resolution loop. *)
Resolved(w, prev) ==
  [target |-> w.target, cur |-> IF prev = NULL THEN w.cur ELSE prev,
   visited |-> w.visited \cup {w.cur}, chain |-> <<w.cur>> \o w.chain]

(* A turn of the list-version loop that follows a requested update from a  *)
(* cid not visited before keeps Listing.                                   *)
LEMMA ListingStep ==
  ASSUME NEW w \in Walk, Listing(w), w.cur \notin w.visited,
         NEW h \in Cid, Updates(w.cur, h)
  PROVE  Listing(Listed(w, h))
<1> DEFINE s == w.chain
           t == Append(s, h)
<1>1. s \in Seq(Cid) /\ Len(s) \in Nat /\ s # <<>>
  BY DEF Walk, Listing
<1>2. /\ t # <<>> /\ Len(t) = Len(s) + 1 /\ t[Len(s) + 1] = h
      /\ \A i \in 1 .. Len(s) : t[i] = s[i]
  BY <1>1, AppendProperties
<1>3. Len(s) >= 1
  BY <1>1, EmptySeq
<1> HIDE DEF t
<1>4. \A i \in 1 .. Len(t) - 1 : t[i] = s[i]
  BY <1>1, <1>2
<1>5. IsVersionPath(t)
  <2> SUFFICES ASSUME NEW i \in 1 .. Len(t) - 1 PROVE Updates(t[i], t[i + 1])
    BY Zenon DEF IsVersionPath
  <2>1. CASE i = Len(s)
    BY <1>1, <1>2, <1>3, <2>1 DEF Listing
  <2>2. CASE i < Len(s)
    BY <1>1, <1>2, <2>2, SMTT(120) DEF Listing, IsVersionPath
  <2> QED
    BY <1>1, <1>2, <2>1, <2>2
<1>6. w.visited \cup {w.cur} = {t[i] : i \in 1 .. Len(t) - 1}
  <2>1. w.visited = {s[i] : i \in 1 .. Len(s) - 1} /\ w.cur = s[Len(s)]
    BY Zenon DEF Listing
  <2> QED
    BY <1>1, <1>2, <1>3, <2>1, SMTT(120)
<1>7. \A i, j \in 1 .. Len(t) - 1 : t[i] = t[j] => i = j
  <2>1. \A i \in 1 .. Len(s) - 1 : s[i] # s[Len(s)]
    BY DEF Listing
  <2>2. \A i, j \in 1 .. Len(s) - 1 : s[i] = s[j] => i = j
    BY Zenon DEF Listing
  <2> SUFFICES ASSUME NEW i \in 1 .. Len(t) - 1, NEW j \in 1 .. Len(t) - 1,
                      t[i] = t[j]
               PROVE  i = j
    BY Zenon
  <2>3. i \in 1 .. Len(s) /\ j \in 1 .. Len(s) /\ s[i] = s[j]
    BY <1>1, <1>2
  <2>4. CASE i = Len(s) \/ j = Len(s)
    <3>1. \A k \in 1 .. Len(s) : k = Len(s) \/ k \in 1 .. Len(s) - 1
      BY <1>1
    <3> QED
      BY <2>1, <2>3, <2>4, <3>1, Zenon
  <2>5. CASE i # Len(s) /\ j # Len(s)
    <3>1. i \in 1 .. Len(s) - 1 /\ j \in 1 .. Len(s) - 1
      BY <1>1, <2>3, <2>5
    <3> QED
      BY <2>2, <2>3, <3>1, Zenon
  <2> QED
    BY <2>4, <2>5, Zenon
<1>8. t[1] = w.target /\ t[Len(t)] = h
  BY <1>1, <1>2, <1>3 DEF Listing
<1> QED
  <2> DEFINE v == Listed(w, h)
  <2>1. /\ v.chain = t /\ v.cur = h /\ v.target = w.target
        /\ v.visited = w.visited \cup {w.cur}
    BY Zenon DEF Listed, t
  <2> HIDE DEF v
  <2>a. v.visited = {v.chain[i] : i \in 1 .. Len(v.chain) - 1}
    BY <1>6, <2>1, Zenon
  <2>b. \A i, j \in 1 .. Len(v.chain) - 1 : v.chain[i] = v.chain[j] => i = j
    BY <1>7, <2>1, Zenon
  <2>c. /\ v.chain # <<>> /\ v.chain[1] = v.target
        /\ v.chain[Len(v.chain)] = v.cur /\ IsVersionPath(v.chain)
    BY <1>2, <1>5, <1>8, <2>1, Zenon
  <2>2. Listing(v)
    BY <2>a, <2>b, <2>c, Zenon DEF Listing
  <2> QED
    BY <2>2, Zenon DEF v

(* When the list-version loop ends at a cid not visited before, the whole  *)
(* chain is without repetition.                                            *)
LEMMA ListingEnd ==
  ASSUME NEW w \in Walk, Listing(w), w.cur \notin w.visited
  PROVE  Distinct(w.chain)
<1> DEFINE s == w.chain
<1>1. s \in Seq(Cid) /\ Len(s) \in Nat /\ DOMAIN s = 1 .. Len(s)
  BY DEF Walk
<1>2. \A i \in 1 .. Len(s) - 1 : s[i] # s[Len(s)]
  BY DEF Listing
<1>3. \A i, j \in 1 .. Len(s) - 1 : s[i] = s[j] => i = j
  BY Zenon DEF Listing
<1> HIDE DEF s
<1>4. Distinct(s)
  BY <1>1, <1>2, <1>3, SMTT(120) DEF Distinct
<1> QED
  BY <1>4, Zenon DEF s

(* A turn of the resolution loop: the chain, grown at its front, is still  *)
(* a repetition-free path of requested updates to the target.              *)
LEMMA ResolvingStep ==
  ASSUME NEW w \in Walk, Resolving(w), w.cur \in Cid, w.cur \notin w.visited,
         NEW prev \in Link
  PROVE  LET v == Resolved(w, prev) IN
           /\ v.chain # <<>>
           /\ v.chain[1] = w.cur
           /\ v.chain[Len(v.chain)] = w.target
           /\ IsVersionPath(v.chain)
           /\ Distinct(v.chain)
           /\ v.visited = Range(v.chain)
           /\ Range(v.chain) = Range(w.chain) \cup {w.cur}
<1> DEFINE s == w.chain
           t == <<w.cur>> \o s
<1>1. s \in Seq(Cid) /\ Len(s) \in Nat /\ (s = <<>> <=> Len(s) = 0)
  BY EmptySeq DEF Walk
<1>2. /\ t \in Seq(Cid) /\ t # <<>> /\ Len(t) = Len(s) + 1 /\ t[1] = w.cur
      /\ \A i \in 1 .. Len(s) : t[i + 1] = s[i]
      /\ Range(t) = Range(s) \cup {w.cur}
  BY <1>1, Prepend
<1> HIDE DEF t
<1>3. DOMAIN t = 1 .. Len(s) + 1
  BY <1>1, <1>2
<1>4. t[Len(t)] = w.target
  BY <1>1, <1>2 DEF Resolving
<1>5. IsVersionPath(t)
  <2> SUFFICES ASSUME NEW i \in 1 .. Len(t) - 1 PROVE Updates(t[i], t[i + 1])
    BY Zenon DEF IsVersionPath
  <2>1. CASE i = 1
    BY <1>1, <1>2, <2>1 DEF Resolving
  <2>2. CASE i > 1
    <3>1. i - 1 \in 1 .. Len(s) - 1 /\ t[i] = s[i - 1] /\ t[i + 1] = s[i]
      <4>1. i - 1 \in 1 .. Len(s) /\ i \in 1 .. Len(s)
        BY <1>1, <1>2, <2>2
      <4>2. t[(i - 1) + 1] = s[i - 1] /\ (i - 1) + 1 = i
        BY <1>2, <4>1
      <4> QED
        BY <1>1, <1>2, <2>2, <4>1, <4>2
    <3>2. Updates(s[i - 1], s[(i - 1) + 1])
      BY <3>1, Zenon DEF Resolving, IsVersionPath
    <3> QED
      BY <3>1, <3>2
  <2> QED
    BY <1>1, <1>2, <2>1, <2>2
<1>6. Distinct(t)
  <2>1. \A i \in 2 .. Len(t) : i - 1 \in 1 .. Len(s) /\ t[i] = s[i - 1]
    <3> TAKE i \in 2 .. Len(t)
    <3>1. i - 1 \in 1 .. Len(s) /\ (i - 1) + 1 = i
      BY <1>1, <1>2
    <3> QED
      BY <1>2, <3>1, Zenon
  <2>2. \A i \in 1 .. Len(s) : s[i] # w.cur
    BY <1>1 DEF Resolving, Range
  <2>3. \A i, j \in 1 .. Len(s) : s[i] = s[j] => i = j
    BY <1>1 DEF Resolving, Distinct
  <2> SUFFICES ASSUME NEW i \in 1 .. Len(t), NEW j \in 1 .. Len(t), t[i] = t[j]
               PROVE  i = j
    BY <1>2, <1>3, Zenon DEF Distinct
  <2>4. CASE i = 1 \/ j = 1
    <3>1. \A k \in 1 .. Len(t) : k = 1 \/ k \in 2 .. Len(t)
      BY <1>1, <1>2
    <3>2. \A k \in 2 .. Len(t) : t[k] # w.cur
      BY <2>1, <2>2, Zenon
    <3> QED
      BY <1>2, <2>4, <3>1, <3>2, Zenon
  <2>5. CASE i # 1 /\ j # 1
    <3>1. i \in 2 .. Len(t) /\ j \in 2 .. Len(t)
      BY <1>1, <1>2, <2>5
    <3>2. /\ i - 1 \in 1 .. Len(s) /\ j - 1 \in 1 .. Len(s)
          /\ s[i - 1] = s[j - 1]
      BY <2>1, <3>1, Zenon
    <3>3. i - 1 = j - 1
      BY <2>3, <3>2, Zenon
    <3> QED
      BY <1>1, <1>2, <3>3
  <2> QED
    BY <2>4, <2>5, Zenon
<1>7. w.visited = Range(s)
  BY Zenon DEF Resolving
<1> QED
  BY <1>2, <1>4, <1>5, <1>6, <1>7, Zenon DEF Resolved, t

(* What a walk has collected stays right. *)
LEMMA WalksStable ==
  ASSUME IInv, [Next]_vars
  PROVE  /\ \A s : IsVersionPath(s) => IsVersionPath(s)'
         /\ \A w : Listing(w) => Listing(w)'
         /\ \A w : Resolving(w) => Resolving(w)'
<1>1. \A s : IsVersionPath(s) => IsVersionPath(s)'
  BY RequestedGrows, Zenon DEF IsVersionPath
<1>2. \A w : Listing(w) => Listing(w)'
  BY <1>1, Zenon DEF Listing
<1>3. \A w : Resolving(w) => Resolving(w)'
  BY <1>1, RequestedGrows, Zenon DEF Resolving
<1> QED
  BY <1>1, <1>2, <1>3, Zenon

(* Every step keeps the walks in shape, and what they report when they end *)
(* is sound.                                                               *)
LEMMA NextWalk ==
  IInv /\ [Next]_vars => WalkInv' /\ ResolvedChainSound' /\ ListedChainSound'
<1> DEFINE Goal == WalkInv' /\ ResolvedChainSound' /\ ListedChainSound'
<1> SUFFICES ASSUME IInv, [Next]_vars PROVE Goal
  BY Zenon
<1>0. TypeOK /\ LinkInv /\ WalkInv /\ ResolvedChainSound /\ ListedChainSound
  BY Zenon DEF IInv
<1>a. /\ dealt \subseteq dealt' /\ Range(fileroots) \subseteq Range(fileroots')
      /\ \A c : Creates(c) => Creates(c)'
      /\ \A s : IsVersionPath(s) => IsVersionPath(s)'
      /\ \A w : Listing(w) => Listing(w)'
      /\ \A w : Resolving(w) => Resolving(w)'
  BY Growth, RequestedGrows, WalksStable, Zenon
<1>b. TypeOK'
  BY NextType, Zenon
<1> USE <1>0, <1>a, RequestAssumption
    DEF TypeOK, Running, Ended, DealLoc, WalkLoc, Goto, At
<1>1. ASSUME NEW p \in Invocation, NEW loc, pc' = [pc EXCEPT ![p] = loc],
             loc \in DealLoc \cup {"failed", "aborted"}
                       \cup (IF pc[p] \in DealLoc THEN {"done"} ELSE {}),
             pc[p] \in {"idle"} \cup DealLoc \/ loc \in {"failed", "aborted"},
             walk' = walk
      PROVE  Goal
  <2>1. WalkInv'
    BY <1>1, ZenonT(120) DEF WalkInv
  <2>2. ResolvedChainSound'
    BY <1>1, Zenon DEF ResolvedChainSound
  <2>3. ListedChainSound'
    BY <1>1 DEF ListedChainSound, WalkInv, NoWalk, NewWalk
  <2> QED
    BY <2>1, <2>2, <2>3, Zenon
<1>2. ASSUME NEW p \in Invocation, NEW r \in Request, DealBegin(p, r)
      PROVE  Goal
  BY <1>1, <1>2, Zenon DEF DealBegin
<1>3. ASSUME NEW p \in Invocation,
             \/ StartDeal(p) \/ AppendRoot(p) \/ ReadPrev(p)
             \/ TruncRoot(p) \/ TruncPrev(p) \/ TruncCur(p)
             \/ WriteRoot(p) \/ WritePrev(p) \/ WriteCur(p)
      PROVE  Goal
  <2>1. walk' = walk /\ pc[p] \in DealLoc
    BY <1>3, Zenon DEF StartDeal, AfterDeal, AppendRoot, ReadPrev, TruncRoot,
       TruncPrev, TruncCur, Truncate, WriteRoot, WritePrev, WriteCur, WriteLines
  <2>2. \E loc \in DealLoc \cup {"failed", "done"} :
           pc' = [pc EXCEPT ![p] = loc]
    BY <1>3, Zenon DEF StartDeal, AfterDeal, AppendRoot, ReadPrev, TruncRoot,
       TruncPrev, TruncCur, Truncate, WriteRoot, WritePrev, WriteCur, WriteLines
  <2> QED
    BY <1>1, <2>1, <2>2, ZenonT(120)
<1>4. ASSUME NEW p \in Invocation, NEW c \in Cid, ListBegin(p, c)
      PROVE  Goal
  BY <1>4, SMTT(120) DEF ListBegin, NewWalk, WalkInv, ResolvedChainSound, ListedChainSound
<1>5. ASSUME NEW p \in Invocation, NEW c \in Cid, RetrieveBegin(p, c)
      PROVE  Goal
  <2> DEFINE w == NewWalk(c, <<>>)
  <2>1. /\ w.chain = <<>> /\ w.visited = {}
        /\ w.cur = c /\ w.target = c
    BY Zenon DEF NewWalk
  <2>2. Range(<<>>) = {} /\ IsVersionPath(<<>>) /\ Distinct(<<>>)
    BY SMTT(120) DEF Range, IsVersionPath, Distinct
  <2> HIDE DEF w
  <2>3. Resolving(w)
    BY <2>1, <2>2, Zenon DEF Resolving
  <2>4. walk' = [walk EXCEPT ![p] = w] /\ pc' = [pc EXCEPT ![p] = "resolve"]
    BY <1>5, Zenon DEF RetrieveBegin, w
  <2> QED
    BY <2>1, <2>2, <2>3, <2>4, ZenonT(120)
       DEF WalkInv, ResolvedChainSound, ListedChainSound
<1>6. ASSUME NEW p \in Invocation, ListStat(p) PROVE Goal
  <2> DEFINE c == walk[p].cur
             w == NewWalk(c, <<c>>)
  <2>1. c \in Cid
    BY <1>6, Zenon DEF ListStat, WalkInv
  <2>a. w.chain = <<c>> /\ w.visited = {} /\ w.cur = c /\ w.target = c
    BY Zenon DEF NewWalk
  <2>b. <<c>> # <<>> /\ Len(<<c>>) = 1 /\ <<c>>[1] = c
    BY Zenon
  <2>c. \A i \in 1 .. Len(<<c>>) - 1 : FALSE
    BY <2>b
  <2>d. IsVersionPath(<<c>>)
    BY <2>c, Zenon DEF IsVersionPath
  <2>2. Listing(w) /\ w.cur \in Cid /\ w.target \in Cid
    <3> HIDE DEF w, c
    <3> QED
      BY <2>1, <2>a, <2>b, <2>c, <2>d, Zenon DEF Listing
  <2>3. CASE walk' = walk /\ pc' = [pc EXCEPT ![p] = "failed"]
    BY <1>1, <2>3, Zenon
  <2>4. CASE walk' = [walk EXCEPT ![p] = w] /\ pc' = [pc EXCEPT ![p] = "list"]
    <3> HIDE DEF w
    <3> QED
      BY <2>2, <2>4, ZenonT(120) DEF WalkInv, ResolvedChainSound, ListedChainSound
  <2> QED
    BY <1>6, <2>3, <2>4, Zenon DEF ListStat
<1>7. ASSUME NEW p \in Invocation, ListStep(p) PROVE Goal
  <2> DEFINE h == meta[walk[p].cur].head
             w == Listed(walk[p], h)
  <2>1. walk[p] \in Walk /\ walk[p].cur \in Cid /\ walk[p].target \in Cid
        /\ Listing(walk[p])
    BY <1>7, Zenon DEF ListStep, Seen, Readable, WalkInv
  <2>2. CASE walk' = walk /\ pc' = [pc EXCEPT ![p] = "failed"]
    BY <1>1, <2>2, Zenon
  <2>3. CASE /\ walk' = walk /\ pc' = [pc EXCEPT ![p] = "done"]
             /\ walk[p].cur \notin walk[p].visited
    <3>1. Distinct(walk[p].chain)
      BY <2>1, <2>3, ListingEnd, Zenon
    <3>2. WalkInv' /\ ResolvedChainSound'
      BY <2>3, ZenonT(120) DEF WalkInv, ResolvedChainSound
    <3>3. /\ walk[p].chain # <<>>
          /\ walk[p].chain[1] = walk[p].target
          /\ IsVersionPath(walk[p].chain)
      BY <2>1, Zenon DEF Listing
    <3>4. ListedChainSound'
      BY <2>3, <3>1, <3>3, ZenonT(120) DEF ListedChainSound
    <3> QED
      BY <3>2, <3>4, Zenon
  <2>4. CASE /\ walk' = [walk EXCEPT ![p] = w] /\ pc' = pc
             /\ walk[p].cur \notin walk[p].visited
             /\ h # NULL /\ meta[walk[p].cur].status = "full"
    <3>1. h \in Cid /\ Updates(walk[p].cur, h)
      BY <2>1, <2>4, ZenonT(120) DEF LinkInv, MetaFile, Link
    <3>2. Listing(w)
      BY <2>1, <2>4, <3>1, ListingStep, ZenonT(120)
    <3>3. w.cur = h /\ w.target = walk[p].target
      BY ZenonT(120) DEF Listed
    <3> HIDE DEF w
    <3> QED
      BY <1>7, <2>1, <2>4, <3>1, <3>2, <3>3, SMTT(120)
         DEF ListStep, Seen, Readable, WalkInv, ResolvedChainSound, ListedChainSound
  <2> QED
    BY <1>7, <2>2, <2>3, <2>4, Zenon DEF ListStep, Seen, Readable, Listed
<1>8. ASSUME NEW p \in Invocation, ResolveStep(p) PROVE Goal
  <2> DEFINE m == meta[walk[p].cur]
             w == Resolved(walk[p], m.prev)
  <2>1. walk[p] \in Walk /\ walk[p].cur \in Cid /\ walk[p].target \in Cid
        /\ Resolving(walk[p]) /\ Range(walk[p].chain) \subseteq dealt
    BY <1>8, Zenon DEF ResolveStep, Seen, Readable, WalkInv
  <2>2. CASE walk' = walk /\ pc' = [pc EXCEPT ![p] = "failed"]
    BY <1>1, <2>2, Zenon
  <2>3. CASE /\ walk' = [walk EXCEPT ![p] = w]
             /\ pc' = [pc EXCEPT ![p] = IF m.prev = NULL THEN "resolved"
                                        ELSE "resolve"]
             /\ walk[p].cur \notin walk[p].visited
             /\ m.status = "full"
    <3>1. m.prev \in Link /\ GoodLink(walk[p].cur, m.prev)
      BY <2>1, <2>3, ZenonT(120) DEF LinkInv, MetaFile
    <3>2. /\ w.chain # <<>>
          /\ w.chain[1] = walk[p].cur
          /\ w.chain[Len(w.chain)] = walk[p].target
          /\ IsVersionPath(w.chain)
          /\ Distinct(w.chain)
          /\ w.visited = Range(w.chain)
          /\ Range(w.chain) = Range(walk[p].chain) \cup {walk[p].cur}
      BY <2>1, <2>3, <3>1, ResolvingStep, ZenonT(120)
    <3>3. /\ w.cur = IF m.prev = NULL THEN walk[p].cur ELSE m.prev
          /\ w.target = walk[p].target
      BY Zenon DEF Resolved
    <3>4. Range(w.chain) \subseteq dealt
      BY <2>1, <3>1, <3>2, ZenonT(120) DEF GoodLink
    <3>5. m.prev = NULL =>
            Creates(w.chain[1]) /\ w.chain[1] \in Range(fileroots)
      BY <3>1, <3>2, ZenonT(120) DEF GoodLink
    <3>6. m.prev # NULL => w.cur \in Cid /\ Resolving(w)
      BY <3>1, <3>2, <3>3, ZenonT(120) DEF GoodLink, Resolving, Link
    <3> HIDE DEF w, m
    <3>7. WalkInv'
      BY <1>8, <2>1, <2>3, <3>3, <3>4, <3>6, SMTT(120) DEF ResolveStep, Seen, Readable, WalkInv
    <3>8. ResolvedChainSound'
      BY <1>8, <2>3, <3>2, <3>3, <3>4, <3>5, Zenon 
         DEF ResolveStep, ResolvedChainSound
    <3>9. ListedChainSound'
      BY <2>3, Zenon DEF ListedChainSound
    <3> QED
      BY <3>7, <3>8, <3>9, Zenon
  <2> QED
    BY <1>8, <2>2, <2>3, Zenon DEF ResolveStep, Seen, Readable, Resolved
<1>9. ASSUME NEW p \in Invocation, Abort(p) PROVE Goal
  BY <1>1, <1>9, Zenon DEF Abort
<1>10. CASE UNCHANGED vars
  BY <1>10, Zenon DEF vars, WalkInv, ResolvedChainSound, ListedChainSound
<1> QED
  BY <1>2, <1>3, <1>4, <1>5, <1>6, <1>7, <1>8, <1>9, <1>10, Zenon
     DEF Next, Begin, Step

(* IInv is an invariant of the metadata protocol. *)
LEMMA SpecIInv == Spec => []IInv
<1>1. IInv /\ [Next]_vars => IInv'
  BY NextType, NextDeal, NextLink, NextWalk, Zenon DEF IInv
<1> QED
  BY InitIInv, <1>1, PTL DEF Spec

(* Whatever the deals, listings and retrievals do, the metadata files, the *)
(* root log and the walks keep their types: every link is NULL or a cid.   *)
THEOREM TypeCorrect == Spec => []TypeOK
<1>1. IInv => TypeOK
  BY Zenon DEF IInv
<1> QED
  BY SpecIInv, <1>1, PTL

(* For any number of concurrent, failing or killed invocations and any     *)
(* requests, the chain retrieve-version resolves leads from a recorded     *)
(* root to the requested cid over requested updates, without repetition.   *)
THEOREM ResolvedSound == Spec => []ResolvedChainSound
<1>1. IInv => ResolvedChainSound
  BY Zenon DEF IInv
<1> QED
  BY SpecIInv, <1>1, PTL

(* And the chain list-version prints when it ends without error starts at  *)
(* the given root and follows requested updates, without repetition.       *)
THEOREM ListedSound == Spec => []ListedChainSound
<1>1. IInv => ListedChainSound
  BY Zenon DEF IInv
<1> QED
  BY SpecIInv, <1>1, PTL
(* The locations of a deal that has begun to change the metadata, or has   *)
(* logged a root and is about to.                                          *)
Writing == {"truncRoot", "writeRoot", "writePrev", "truncCur", "writeCur"}

(* A step that touches no metadata leaves every invocation that is, or     *)
(* died, at such a location where it is.  AppendRoot, which leads to one,  *)
(* is no exception.                                                        *)
LEMMA WritersStay ==
  ASSUME IInv, [Next]_vars, meta' = meta,
         ~ \E p \in Invocation :
             \/ TruncRoot(p) \/ TruncPrev(p) \/ TruncCur(p)
             \/ WriteRoot(p) \/ WritePrev(p) \/ WriteCur(p),
         NEW q \in Invocation, Location(q) \in Writing
  PROVE  Location(q)' = Location(q) /\ req'[q] = req[q]
<1>0. TypeOK
  BY Zenon DEF IInv
<1> USE <1>0 DEF TypeOK, Location, Writing, Running, Ended, DealLoc, WalkLoc, Goto, At
<1>1. ASSUME NEW p \in Invocation, Begin(p)
      PROVE  Location(q)' = Location(q) /\ req'[q] = req[q]
  BY <1>1, Zenon DEF Begin, DealBegin, ListBegin, RetrieveBegin
<1>2. ASSUME NEW p \in Invocation,
             StartDeal(p) \/ AppendRoot(p) \/ ReadPrev(p)
      PROVE  Location(q)' = Location(q) /\ req'[q] = req[q]
  BY <1>2, Zenon DEF StartDeal, AppendRoot, ReadPrev
<1>3. ASSUME NEW p \in Invocation,
             ListStat(p) \/ ListStep(p) \/ ResolveStep(p)
      PROVE  Location(q)' = Location(q) /\ req'[q] = req[q]
  <2>1. pc[p] \in WalkLoc /\ UNCHANGED <<req, abortedAt>>
    BY <1>3, ZenonT(120) DEF ListStat, ListStep, ResolveStep, Seen, Readable
  <2>2. \E loc \in {"list", "failed", "done", "resolve", "resolved"} :
           pc' = [pc EXCEPT ![p] = loc]
    BY <1>3 DEF ListStat, ListStep, ResolveStep, Seen, Readable
  <2> QED
    BY <2>1, <2>2, Zenon
<1>4. ASSUME NEW p \in Invocation, Abort(p)
      PROVE  Location(q)' = Location(q) /\ req'[q] = req[q]
  BY <1>4, Zenon DEF Abort
<1>5. CASE UNCHANGED vars
  BY <1>5, Zenon DEF vars
<1> QED
  BY <1>1, <1>2, <1>3, <1>4, <1>5, Zenon DEF Next, Step

(* What a step that truncates or writes the file of c does to the other    *)
(* invocations: nothing.                                                   *)
LEMMA OthersStay ==
  ASSUME TypeOK, NEW p \in Invocation, NEW to \in Running \cup Ended,
         pc[p] \in Running, pc' = [pc EXCEPT ![p] = to],
         UNCHANGED <<abortedAt, req>>, to # "aborted"
  PROVE  /\ Location(p) = pc[p] /\ Location(p)' = to
         /\ \A q \in Invocation : q # p => Location(q)' = Location(q)
BY Zenon DEF TypeOK, Location, Running, Ended, DealLoc, WalkLoc

(* A truncation of the file of c by an invocation that then is at the      *)
(* write of that file.                                                     *)
LEMMA TruncateBroken ==
  ASSUME IInv, BrokenOnlyByAWriter, NEW p \in Invocation, NEW c \in Cid,
         NEW from \in Running, NEW to \in {"writeRoot", "writePrev", "writeCur"},
         Truncate(p, c, from, to), from \notin {"writeRoot", "writePrev", "writeCur"},
         c = (IF to = "writePrev" THEN req[p].prev ELSE req[p].cid),
         from = "truncCur" => to = "writeCur"
  PROVE  BrokenOnlyByAWriter'
<1>0. TypeOK
  BY Zenon DEF IInv
<1>1. /\ pc[p] = from /\ pc' = [pc EXCEPT ![p] = to]
      /\ meta' = [meta EXCEPT ![c] = Torn]
      /\ UNCHANGED <<abortedAt, req>>
  BY Zenon DEF Truncate, At, Goto
<1>2. /\ Location(p) = from /\ Location(p)' = to
      /\ \A q \in Invocation : q # p => Location(q)' = Location(q)
  BY <1>0, <1>1, OthersStay, ZenonT(120) DEF Running, Ended, DealLoc, WalkLoc
<1>3. /\ meta'[c] = Torn /\ \A d \in Cid : d # c => meta'[d] = meta[d]
      /\ Torn.status = "torn" /\ Torn.head = NULL
  BY <1>0, <1>1, Zenon DEF TypeOK, Torn
<1>4. ASSUME NEW d \in Cid, meta'[d].status = "torn"
      PROVE  \E q \in Invocation :
               \/ Location(q)' \in {"writeRoot", "writeCur"} /\ req'[q].cid = d
               \/ Location(q)' = "writePrev" /\ req'[q].prev = d
  <2>1. CASE d = c
    BY <1>1, <1>2, <2>1, Zenon
  <2>2. CASE d # c
    <3>1. PICK q \in Invocation :
             \/ Location(q) \in {"writeRoot", "writeCur"} /\ req[q].cid = d
             \/ Location(q) = "writePrev" /\ req[q].prev = d
      BY <1>3, <1>4, <2>2 DEF BrokenOnlyByAWriter
    <3>2. q # p
      BY <1>2, <3>1, Zenon
    <3> QED
      BY <1>1, <1>2, <3>1, <3>2, Zenon
  <2> QED
    BY <2>1, <2>2, Zenon
<1>5. ASSUME NEW d \in Cid, meta'[d].head # NULL,
             meta'[meta'[d].head].status = "absent"
      PROVE  \E q \in Invocation :
               /\ Location(q)' = "truncCur"
               /\ req'[q].prev = d
               /\ req'[q].cid = meta'[d].head
  <2>1. d # c /\ meta'[d] = meta[d]
    BY <1>3, <1>5, Zenon
  <2>2. meta[d].head # c /\ meta[d].head \in Cid
    BY <1>0, <1>3, <1>5, <2>1, SMTT(120) DEF TypeOK, MetaFile, Link
  <2>3. PICK q \in Invocation :
           /\ Location(q) = "truncCur"
           /\ req[q].prev = d
           /\ req[q].cid = meta[d].head
    BY <1>3, <1>5, <2>1, <2>2, SMTT(120) DEF BrokenOnlyByAWriter
  <2>4. q # p
    BY <1>2, <2>2, <2>3, Zenon
  <2> QED
    BY <1>1, <1>2, <2>1, <2>3, <2>4, Zenon
<1> QED
  BY <1>4, <1>5, Zenon DEF BrokenOnlyByAWriter

(* A write of the file of c by the invocation that truncated it; if it     *)
(* links a head, the invocation is then before the truncation of the       *)
(* head's file.                                                            *)
LEMMA WriteBroken ==
  ASSUME IInv, BrokenOnlyByAWriter, NEW p \in Invocation, NEW c \in Cid,
         NEW prev \in Link, NEW head \in Link,
         NEW from \in {"writeRoot", "writePrev", "writeCur"},
         NEW to \in {"done", "truncCur"},
         WriteLines(p, c, prev, head, from, to),
         c = (IF from = "writePrev" THEN req[p].prev ELSE req[p].cid),
         head # NULL => to = "truncCur" /\ req[p].prev = c /\ req[p].cid = head
  PROVE  BrokenOnlyByAWriter'
<1>0. TypeOK
  BY Zenon DEF IInv
<1>1. /\ pc[p] = from /\ pc' = [pc EXCEPT ![p] = to]
      /\ meta' = [meta EXCEPT ![c] = Full(prev, head)]
      /\ UNCHANGED <<abortedAt, req>>
  BY Zenon DEF WriteLines, At, Goto
<1>2. /\ Location(p) = from /\ Location(p)' = to
      /\ \A q \in Invocation : q # p => Location(q)' = Location(q)
  BY <1>0, <1>1, OthersStay, ZenonT(120) DEF Running, Ended, DealLoc, WalkLoc
<1>3. /\ meta'[c].status = "full" /\ meta'[c].head = head
      /\ \A d \in Cid : d # c => meta'[d] = meta[d]
  BY <1>0, <1>1, Zenon DEF TypeOK, Full
<1>4. ASSUME NEW d \in Cid, meta'[d].status = "torn"
      PROVE  \E q \in Invocation :
               \/ Location(q)' \in {"writeRoot", "writeCur"} /\ req'[q].cid = d
               \/ Location(q)' = "writePrev" /\ req'[q].prev = d
  <2>1. d # c
    BY <1>3, <1>4, Zenon
  <2>2. PICK q \in Invocation :
           \/ Location(q) \in {"writeRoot", "writeCur"} /\ req[q].cid = d
           \/ Location(q) = "writePrev" /\ req[q].prev = d
    BY <1>3, <1>4, <2>1 DEF BrokenOnlyByAWriter
  <2>3. q # p
    BY <1>2, <2>1, <2>2, Zenon
  <2> QED
    BY <1>1, <1>2, <2>2, <2>3, Zenon
<1>5. ASSUME NEW d \in Cid, meta'[d].head # NULL,
             meta'[meta'[d].head].status = "absent"
      PROVE  \E q \in Invocation :
               /\ Location(q)' = "truncCur"
               /\ req'[q].prev = d
               /\ req'[q].cid = meta'[d].head
  <2>1. CASE d = c
    BY <1>1, <1>2, <1>3, <1>5, <2>1, ZenonT(120)
  <2>2. CASE d # c
    <3>1. meta'[d] = meta[d] /\ meta[d].head # c /\ meta[d].head \in Cid
      BY <1>0, <1>3, <1>5, <2>2, SMTT(120) DEF TypeOK, MetaFile, Link
    <3>2. PICK q \in Invocation :
             /\ Location(q) = "truncCur"
             /\ req[q].prev = d
             /\ req[q].cid = meta[d].head
      BY <1>3, <1>5, <3>1 DEF BrokenOnlyByAWriter
    <3>3. q # p
      BY <1>2, <3>2, Zenon
    <3> QED
      BY <1>1, <1>2, <3>1, <3>2, <3>3, Zenon
  <2> QED
    BY <2>1, <2>2, Zenon
<1> QED
  BY <1>4, <1>5, Zenon DEF BrokenOnlyByAWriter

(* The cids a deal writes to are cids. *)
LEMMA DealCids ==
  ASSUME IInv, NEW p \in Invocation, pc[p] \in DealLoc
  PROVE  /\ req[p] \in Request /\ ~BadFlags(req[p])
         /\ req[p].cid \in Cid /\ kept[p] \in Link
         /\ req[p].update => req[p].prev \in Cid
         /\ pc[p] \in {"readPrev", "truncPrev", "writePrev", "truncCur", "writeCur"}
              => req[p].update
BY RequestAssumption, Zenon DEF IInv, TypeOK, DealInv, BadFlags, Link

(* Every step keeps BrokenOnlyByAWriter. *)
LEMMA NextBroken ==
  ASSUME IInv, BrokenOnlyByAWriter, [Next]_vars
  PROVE  BrokenOnlyByAWriter'
<1> USE DEF Running, DealLoc
<1>1. ASSUME NEW p \in Invocation, TruncRoot(p) PROVE BrokenOnlyByAWriter'
  <2>1. req[p].cid \in Cid
    BY <1>1, DealCids, Zenon DEF TruncRoot, Truncate, At
  <2> QED
    BY <1>1, <2>1, TruncateBroken DEF TruncRoot
<1>2. ASSUME NEW p \in Invocation, TruncPrev(p) PROVE BrokenOnlyByAWriter'
  <2>1. req[p].prev \in Cid
    BY <1>2, DealCids, Zenon DEF TruncPrev, Truncate, At
  <2> QED
    BY <1>2, <2>1, TruncateBroken DEF TruncPrev
<1>3. ASSUME NEW p \in Invocation, TruncCur(p) PROVE BrokenOnlyByAWriter'
  <2>1. req[p].cid \in Cid
    BY <1>3, DealCids, Zenon DEF TruncCur, Truncate, At
  <2> QED
    BY <1>3, <2>1, TruncateBroken DEF TruncCur
<1>4. ASSUME NEW p \in Invocation, WriteRoot(p) PROVE BrokenOnlyByAWriter'
  <2>1. req[p].cid \in Cid
    BY <1>4, DealCids, Zenon DEF WriteRoot, WriteLines, At
  <2> QED
    BY <1>4, <2>1, WriteBroken, Zenon DEF WriteRoot, Link
<1>5. ASSUME NEW p \in Invocation, WritePrev(p) PROVE BrokenOnlyByAWriter'
  <2>1. req[p].prev \in Cid /\ req[p].cid \in Cid /\ kept[p] \in Link
    BY <1>5, DealCids, Zenon DEF WritePrev, WriteLines, At
  <2> QED
    BY <1>5, <2>1, WriteBroken, Zenon DEF WritePrev, Link
<1>6. ASSUME NEW p \in Invocation, WriteCur(p) PROVE BrokenOnlyByAWriter'
  <2>1. req[p].prev \in Cid /\ req[p].cid \in Cid
    BY <1>6, DealCids, Zenon DEF WriteCur, WriteLines, At
  <2> QED
    BY <1>6, <2>1, WriteBroken, Zenon DEF WriteCur, Link
<1>7. CASE ~ \E p \in Invocation :
                \/ TruncRoot(p) \/ TruncPrev(p) \/ TruncCur(p)
                \/ WriteRoot(p) \/ WritePrev(p) \/ WriteCur(p)
  <2>1. meta' = meta
    BY <1>7, ZenonT(120) DEF Next, Begin, Step, vars, DealBegin, ListBegin, RetrieveBegin,
       StartDeal, AppendRoot, ReadPrev, ListStat, ListStep, ResolveStep, Abort
  <2>2. \A q \in Invocation : Location(q) \in Writing =>
          Location(q)' = Location(q) /\ req'[q] = req[q]
    BY <1>7, <2>1, WritersStay, ZenonT(120)
  <2> QED
    BY <2>1, <2>2, SMTT(120) DEF BrokenOnlyByAWriter, Writing
<1> QED
  BY <1>1, <1>2, <1>3, <1>4, <1>5, <1>6, <1>7, Zenon

(* A metadata file that exists is never removed, and changes only by the   *)
(* truncation or the write of one file.                                    *)
LEMMA FilesStay ==
  ASSUME IInv, [Next]_vars, NEW d \in Cid
  PROVE  meta[d].status # "absent" => meta'[d].status # "absent"
<1>0. TypeOK
  BY Zenon DEF IInv
<1>1. ASSUME NEW p \in Invocation, NEW c, NEW from, NEW to, Truncate(p, c, from, to)
      PROVE  meta[d].status # "absent" => meta'[d].status # "absent"
  BY <1>0, <1>1, Zenon DEF Truncate, TypeOK, Torn
<1>2. ASSUME NEW p \in Invocation, NEW c, NEW prev, NEW head, NEW from, NEW to,
             WriteLines(p, c, prev, head, from, to)
      PROVE  meta[d].status # "absent" => meta'[d].status # "absent"
  BY <1>0, <1>2, Zenon DEF WriteLines, TypeOK, Full
<1>3. CASE meta' = meta
  BY <1>3, Zenon
<1> QED
  BY <1>1, <1>2, <1>3, ZenonT(120) DEF Next, Begin, Step, vars, DealBegin, ListBegin,
     RetrieveBegin, StartDeal, AppendRoot, ReadPrev, ListStat, ListStep,
     ResolveStep, Abort, TruncRoot, TruncPrev, TruncCur, WriteRoot, WritePrev, WriteCur

(* What a full file relies on, whichever step wrote it, exists.            *)
PrevPresent ==
  \A c \in Cid : meta[c].status = "full" /\ meta[c].prev # NULL =>
    meta[meta[c].prev].status # "absent"

(* What an update in progress relies on exists.                            *)
UpdatePresent ==
  \A p \in Invocation :
    /\ pc[p] \in {"truncPrev", "writePrev", "truncCur", "writeCur"} =>
         meta[req[p].prev].status # "absent"
    /\ pc[p] \in {"truncPrev", "writePrev"} /\ kept[p] # NULL =>
         meta[kept[p]].status # "absent"

(* A logged root exists, unless its deal has not come to its file.         *)
RootPresent ==
  \A c \in Range(fileroots) : meta[c].status = "absent" =>
    \E p \in Invocation : Location(p) = "truncRoot" /\ req[p].cid = c

(* Every step keeps the files that full files rely on.                     *)
LEMMA NextPrevPresent ==
  ASSUME IInv, PrevPresent, UpdatePresent, [Next]_vars
  PROVE  PrevPresent'
<1>0. TypeOK
  BY Zenon DEF IInv
<1>a. \A d \in Cid : meta[d].status # "absent" => meta'[d].status # "absent"
  BY FilesStay, Zenon
<1> SUFFICES ASSUME NEW c \in Cid, meta'[c].status = "full", meta'[c].prev # NULL
             PROVE  meta'[meta'[c].prev].status # "absent"
  BY Zenon DEF PrevPresent
<1>1. CASE meta'[c] = meta[c]
  <2>1. meta[c].prev \in Cid /\ meta[meta[c].prev].status # "absent"
    BY <1>0, <1>1, Zenon DEF TypeOK, MetaFile, Link, PrevPresent
  <2> QED
    BY <1>1, <1>a, <2>1, Zenon
<1>2. ASSUME NEW p \in Invocation, TruncRoot(p) \/ TruncPrev(p) \/ TruncCur(p)
      PROVE  meta'[c] = meta[c]
  BY <1>0, <1>2 DEF TruncRoot, TruncPrev, TruncCur, Truncate, TypeOK, Torn
<1>3. ASSUME NEW p \in Invocation, WriteRoot(p)
      PROVE  meta'[c] = meta[c]
  BY <1>0, <1>3, Zenon DEF WriteRoot, WriteLines, TypeOK, Full
<1>4. ASSUME NEW p \in Invocation, WritePrev(p)
      PROVE  meta'[meta'[c].prev].status # "absent"
  <2>1. CASE meta'[c].prev = kept[p]
    <3>1. kept[p] \in Cid /\ meta[kept[p]].status # "absent"
      BY <1>0, <1>4, <2>1, Zenon DEF TypeOK, Link, WritePrev, WriteLines, At, UpdatePresent
    <3> QED
      BY <1>a, <2>1, <3>1, Zenon
  <2> QED
    BY <1>0, <1>1, <1>4, <2>1, Zenon DEF WritePrev, WriteLines, TypeOK, Full
<1>5. ASSUME NEW p \in Invocation, WriteCur(p)
      PROVE  meta'[meta'[c].prev].status # "absent"
  <2>1. CASE meta'[c].prev = req[p].prev
    <3>1. req[p].prev \in Cid
      BY <1>5, DealCids, ZenonT(120) DEF WriteCur, WriteLines, At, DealLoc
    <3>2. meta[req[p].prev].status # "absent"
      BY <1>5, Zenon DEF WriteCur, WriteLines, At, UpdatePresent
    <3> QED
      BY <1>a, <2>1, <3>1, <3>2, Zenon
  <2> QED
    BY <1>0, <1>1, <1>5, <2>1, Zenon DEF WriteCur, WriteLines, TypeOK, Full
<1>6. CASE meta' = meta
  BY <1>1, <1>6, Zenon
<1> QED
  BY <1>1, <1>2, <1>3, <1>4, <1>5, <1>6, ZenonT(120) DEF Next, Begin, Step, vars, DealBegin,
     ListBegin, RetrieveBegin, StartDeal, AppendRoot, ReadPrev, ListStat,
     ListStep, ResolveStep, Abort

(* Every step keeps the files that updates in progress rely on: they read  *)
(* the previous version before anything else.                              *)
LEMMA NextUpdatePresent ==
  ASSUME IInv, PrevPresent, UpdatePresent, [Next]_vars
  PROVE  UpdatePresent'
<1>0. TypeOK
  BY Zenon DEF IInv
<1>a. \A d \in Cid : meta[d].status # "absent" => meta'[d].status # "absent"
  BY FilesStay, Zenon
<1> DEFINE Late == {"truncPrev", "writePrev", "truncCur", "writeCur"}
<1> SUFFICES ASSUME NEW q \in Invocation, pc'[q] \in Late
             PROVE  /\ meta'[req'[q].prev].status # "absent"
                    /\ pc'[q] \in {"truncPrev", "writePrev"} /\ kept'[q] # NULL =>
                         meta'[kept'[q]].status # "absent"
  BY Zenon DEF UpdatePresent
<1>1. CASE /\ pc[q] \in Late /\ req'[q] = req[q] /\ kept'[q] = kept[q]
           /\ pc'[q] \in {"truncPrev", "writePrev"} => pc[q] \in {"truncPrev", "writePrev"}
  <2>1. req[q].prev \in Cid
    BY <1>1, DealCids, Zenon DEF DealLoc
  <2>2. meta[req[q].prev].status # "absent"
    BY <1>1, Zenon DEF UpdatePresent
  <2>3. kept[q] # NULL => kept[q] \in Cid
    BY <1>0, Zenon DEF TypeOK, Link
  <2>4. meta'[req'[q].prev].status # "absent"
    BY <1>1, <1>a, <2>1, <2>2, Zenon
  <2>5. ASSUME pc'[q] \in {"truncPrev", "writePrev"}, kept'[q] # NULL
        PROVE  meta'[kept'[q]].status # "absent"
    <3>1. kept[q] \in Cid /\ meta[kept[q]].status # "absent"
      BY <1>1, <2>3, <2>5, Zenon DEF UpdatePresent
    <3> QED
      BY <1>1, <1>a, <3>1, Zenon
  <2> QED
    BY <2>4, <2>5, Zenon
<1>2. ASSUME ReadPrev(q), Readable(meta[req[q].prev])
      PROVE  /\ meta'[req'[q].prev].status # "absent"
             /\ kept'[q] # NULL => meta'[kept'[q]].status # "absent"
  <2>1. req[q].prev \in Cid
    BY <1>2, DealCids, Zenon DEF ReadPrev, At, DealLoc
  <2>2. kept'[q] = meta[req[q].prev].prev /\ UNCHANGED <<req, meta>>
    BY <1>0, <1>2, Zenon DEF ReadPrev, KeptLine, TypeOK
  <2>3. meta[req[q].prev].status = "full"
    BY <1>2, Zenon DEF Readable
  <2>4. meta[req[q].prev].prev # NULL =>
          meta[meta[req[q].prev].prev].status # "absent"
    BY <2>1, <2>3, Zenon DEF PrevPresent
  <2>5. meta'[req'[q].prev].status = "full"
    BY <2>2, <2>3, Zenon
  <2>6. kept'[q] # NULL => meta'[kept'[q]].status # "absent"
    BY <2>2, <2>4, Zenon
  <2> QED
    BY <2>5, <2>6, Zenon
<1> USE <1>0 DEF TypeOK, Running, Ended, DealLoc, WalkLoc, Goto, At
<1>3. ASSUME NEW p \in Invocation, Begin(p) PROVE UpdatePresent'
  BY <1>3, ZenonT(120) DEF Begin, DealBegin, ListBegin, RetrieveBegin, UpdatePresent
<1>4. ASSUME NEW p \in Invocation, ReadPrev(p)
      PROVE  \/ pc[q] \in Late /\ req'[q] = req[q] /\ kept'[q] = kept[q] /\ pc'[q] = pc[q]
             \/ q = p /\ Readable(meta[req[q].prev])
  <2>1. CASE q = p
    BY <1>4, <2>1, Zenon DEF ReadPrev
  <2>2. CASE q # p
    BY <1>4, <2>2, Zenon DEF ReadPrev
  <2> QED
    BY <2>1, <2>2, Zenon
<1>5. ASSUME NEW p \in Invocation, StartDeal(p) \/ AppendRoot(p)
      PROVE  pc[q] \in Late /\ req'[q] = req[q] /\ kept'[q] = kept[q] /\ pc'[q] = pc[q]
  BY <1>5, Zenon DEF StartDeal, AfterDeal, AppendRoot
<1>6. ASSUME NEW p \in Invocation,
             \/ TruncRoot(p) \/ TruncPrev(p) \/ TruncCur(p)
             \/ WriteRoot(p) \/ WritePrev(p) \/ WriteCur(p)
      PROVE  /\ pc[q] \in Late /\ req'[q] = req[q] /\ kept'[q] = kept[q]
             /\ pc'[q] \in {"truncPrev", "writePrev"} => pc[q] \in {"truncPrev", "writePrev"}
  BY <1>6, Zenon DEF TruncRoot, TruncPrev, TruncCur, Truncate, WriteRoot, WritePrev,
     WriteCur, WriteLines
<1>7. ASSUME NEW p \in Invocation, ListStat(p) \/ ListStep(p) \/ ResolveStep(p)
      PROVE  pc[q] \in Late /\ req'[q] = req[q] /\ kept'[q] = kept[q] /\ pc'[q] = pc[q]
  <2>1. UNCHANGED <<req, kept>>
    BY <1>7, Zenon DEF ListStat, ListStep, ResolveStep, Seen, Readable
  <2>2. \E loc \in {"list", "failed", "done", "resolve", "resolved"} :
           pc' = [pc EXCEPT ![p] = loc]
    BY <1>7 DEF ListStat, ListStep, ResolveStep, Seen, Readable
  <2> QED
    BY <2>1, <2>2, Zenon
<1>8. ASSUME NEW p \in Invocation, Abort(p)
      PROVE  pc[q] \in Late /\ req'[q] = req[q] /\ kept'[q] = kept[q] /\ pc'[q] = pc[q]
  BY <1>8, Zenon DEF Abort
<1>9. CASE UNCHANGED vars
  BY <1>1, <1>9, Zenon DEF vars
<1> QED
  BY <1>1, <1>2, <1>3, <1>4, <1>5, <1>6, <1>7, <1>8, <1>9, ZenonT(120)
  DEF Next, Step, UpdatePresent

(* Every step keeps RootPresent: the deal that logs a root is then before  *)
(* the truncation of its file.                                             *)
LEMMA NextRootPresent ==
  ASSUME IInv, RootPresent, [Next]_vars
  PROVE  RootPresent'
<1>0. TypeOK
  BY Zenon DEF IInv
<1>a. \A d \in Cid : meta[d].status # "absent" => meta'[d].status # "absent"
  BY FilesStay, Zenon
<1>b. Range(fileroots) \subseteq Cid /\ Range(fileroots') \subseteq Cid
  <2>1. fileroots \in Seq(Cid) /\ fileroots' \in Seq(Cid)
    BY <1>0, NextType, Zenon DEF TypeOK
  <2> QED
    BY <2>1 DEF Range
<1> SUFFICES ASSUME NEW c \in Range(fileroots'), meta'[c].status = "absent"
             PROVE  \E p \in Invocation : Location(p)' = "truncRoot" /\ req'[p].cid = c
  BY Zenon DEF RootPresent
<1>c. c \in Cid /\ meta[c].status = "absent"
  BY <1>a, <1>b, Zenon
<1>1. ASSUME NEW p \in Invocation, AppendRoot(p), req[p].cid = c
      PROVE  Location(p)' = "truncRoot" /\ req'[p].cid = c
  BY <1>0, <1>1, Zenon DEF AppendRoot, At, Goto, Location, TypeOK
<1>2. ASSUME NEW p \in Invocation, AppendRoot(p), req[p].cid # c
      PROVE  c \in Range(fileroots)
  <2>1. fileroots \in Seq(Cid) /\ req[p].cid \in Cid
    BY <1>0, <1>2, DealCids, Zenon DEF TypeOK, AppendRoot, At, DealLoc
  <2>2. <<req[p].cid>> \in Seq(Cid) /\ fileroots' = fileroots \o <<req[p].cid>>
    BY <1>2, <2>1, AppendIsConcat DEF AppendRoot
  <2>3. Range(fileroots') = Range(fileroots) \cup Range(<<req[p].cid>>)
    BY <2>1, <2>2, RangeConcatenation, ZenonT(120)
  <2>4. Range(<<req[p].cid>>) = {req[p].cid}
    BY DEF Range
  <2> QED
    BY <1>2, <2>3, <2>4, Zenon
<1>3. ASSUME ~ \E p \in Invocation : AppendRoot(p)
      PROVE  c \in Range(fileroots)
  <2>1. fileroots' = fileroots
    BY <1>3, ZenonT(120) DEF Next, Begin, Step, vars, DealBegin, ListBegin, RetrieveBegin,
       StartDeal, TruncRoot, Truncate, WriteRoot, WriteLines, ReadPrev,
       TruncPrev, WritePrev, TruncCur, WriteCur, ListStat, ListStep,
       ResolveStep, Abort
  <2> QED
    BY <2>1, Zenon
<1>4. ASSUME c \in Range(fileroots)
      PROVE  \E p \in Invocation : Location(p)' = "truncRoot" /\ req'[p].cid = c
  <2>1. PICK q \in Invocation : Location(q) = "truncRoot" /\ req[q].cid = c
    BY <1>4, <1>c, Zenon DEF RootPresent
  <2>2. ASSUME NEW p \in Invocation, TruncRoot(p) PROVE p # q
    <3>1. SUFFICES ASSUME p = q PROVE FALSE
      BY Zenon
    <3>2. meta'[c] = Torn
      BY <1>0, <1>c, <2>1, <2>2, <3>1, Zenon DEF TruncRoot, Truncate, TypeOK
    <3> QED
      BY <3>2 DEF Torn
  <2>3. ASSUME NEW p \in Invocation, NEW from \in Running, NEW to \in Running \cup Ended,
               pc[p] = from, pc' = [pc EXCEPT ![p] = to], to # "aborted",
               UNCHANGED <<req, abortedAt>>, from = "truncRoot" => p # q
        PROVE  Location(q)' = "truncRoot" /\ req'[q].cid = c
    BY <1>0, <2>1, <2>3, OthersStay, Zenon
  <2> USE DEF Running, Ended, DealLoc, WalkLoc
  <2>4. ASSUME NEW p \in Invocation, TruncRoot(p)
        PROVE  Location(q)' = "truncRoot" /\ req'[q].cid = c
    <3>1. p # q /\ pc[p] = "truncRoot" /\ pc' = [pc EXCEPT ![p] = "writeRoot"]
          /\ UNCHANGED <<req, abortedAt>>
      BY <2>2, <2>4, ZenonT(120) DEF TruncRoot, Truncate, At, Goto
    <3>2. "truncRoot" \in Running /\ "writeRoot" \in Running \cup Ended
      BY Zenon
    <3> QED
      BY <1>0, <2>1, <3>1, <3>2, OthersStay, Zenon
  <2>5. ASSUME NEW p \in Invocation, TruncPrev(p) \/ TruncCur(p)
        PROVE  Location(q)' = "truncRoot" /\ req'[q].cid = c
    <3>1. CASE TruncPrev(p)
      BY <2>3, <3>1, Zenon DEF TruncPrev, Truncate, At, Goto
    <3>2. CASE TruncCur(p)
      BY <2>3, <3>2, ZenonT(120) DEF TruncCur, Truncate, At, Goto
    <3> QED
      BY <2>5, <3>1, <3>2, Zenon
  <2>6. ASSUME NEW p \in Invocation, WriteRoot(p) \/ WritePrev(p) \/ WriteCur(p)
        PROVE  Location(q)' = "truncRoot" /\ req'[q].cid = c
    <3>1. CASE WriteRoot(p)
      BY <2>3, <3>1, ZenonT(120) DEF WriteRoot, WriteLines, At, Goto
    <3>2. CASE WritePrev(p)
      BY <2>3, <3>2, ZenonT(120) DEF WritePrev, WriteLines, At, Goto
    <3>3. CASE WriteCur(p)
      BY <2>3, <3>3, ZenonT(120) DEF WriteCur, WriteLines, At, Goto
    <3> QED
      BY <2>6, <3>1, <3>2, <3>3, Zenon
  <2>7. CASE ~ \E p \in Invocation :
                 \/ TruncRoot(p) \/ TruncPrev(p) \/ TruncCur(p)
                 \/ WriteRoot(p) \/ WritePrev(p) \/ WriteCur(p)
    <3>1. meta' = meta
      BY <2>7, ZenonT(120) DEF Next, Begin, Step, vars, DealBegin, ListBegin, RetrieveBegin,
         StartDeal, AppendRoot, ReadPrev, ListStat, ListStep, ResolveStep, Abort
    <3>2. "truncRoot" \in Writing
      BY Zenon DEF Writing
    <3>3. Location(q) \in Writing
      BY <2>1, <3>2, Zenon
    <3>4. Location(q)' = Location(q) /\ req'[q] = req[q]
      BY <2>7, <3>1, <3>3, WritersStay, Zenon
    <3> QED
      BY <2>1, <3>4, Zenon
  <2> QED
    BY <2>4, <2>5, <2>6, <2>7, Zenon
<1> QED
  BY <1>1, <1>2, <1>3, <1>4, Zenon

(* StandInv is an invariant: together with IInv, a file is torn, a head    *)
(* dangling or a root missing only because of a deal at that point, and    *)
(* what the others rely on exists.                                         *)
LEMMA SpecStandInv == Spec => []StandInv
<1>1. Init => StandInv
  <2> SUFFICES ASSUME Init PROVE StandInv
    BY Zenon
  <2>1. IInv
    BY InitIInv, Zenon
  <2>2. \A c \in Cid : meta[c].status = "absent" /\ meta[c].head = NULL
    BY Zenon DEF Init, Absent
  <2>3. Range(fileroots) = {}
    BY SMTT(120) DEF Init, Range
  <2>4. \A p \in Invocation : pc[p] = "idle"
    BY Zenon DEF Init
  <2> QED
    BY <2>1, <2>2, <2>3, <2>4, Zenon DEF StandInv, BrokenOnlyByAWriter, PresentInv
<1>2. PresentInv <=> PrevPresent /\ UpdatePresent /\ RootPresent
  BY Zenon DEF PresentInv, PrevPresent, UpdatePresent, RootPresent
<1>3. PresentInv' <=> PrevPresent' /\ UpdatePresent' /\ RootPresent'
  BY Zenon DEF PresentInv, PrevPresent, UpdatePresent, RootPresent
<1>4. StandInv /\ [Next]_vars => StandInv'
  <2> SUFFICES ASSUME StandInv, [Next]_vars PROVE StandInv'
    BY Zenon
  <2>1. IInv'
    BY NextType, NextDeal, NextLink, NextWalk, Zenon DEF IInv, StandInv
  <2>2. BrokenOnlyByAWriter'
    BY NextBroken, Zenon DEF StandInv
  <2>3. PresentInv'
    BY <1>2, <1>3, NextPrevPresent, NextUpdatePresent, NextRootPresent, Zenon DEF StandInv
  <2> QED
    BY <2>1, <2>2, <2>3, Zenon DEF StandInv
<1> QED
  BY <1>1, <1>4, PTL DEF Spec

(* Without a running or dead invocation, no file is torn, no head dangles  *)
(* and no logged root is missing.                                          *)
LEMMA QuietFiles ==
  ASSUME StandInv, Quiet
  PROVE  /\ \A c \in Cid : meta[c].status # "torn"
         /\ \A c \in Cid : meta[c].head # NULL => meta[meta[c].head].status # "absent"
         /\ \A c \in Range(fileroots) : meta[c].status # "absent"
<1>1. \A p \in Invocation : Location(p) \in {"idle", "done", "resolved", "failed"}
  BY Zenon DEF Quiet, Location
<1>2. \A p \in Invocation : Location(p) \notin Writing
  BY <1>1, Zenon DEF Writing
<1> QED
  BY <1>2, Zenon DEF StandInv, BrokenOnlyByAWriter, PresentInv, Writing

(* If every cid was requested under one previous version only, the head of *)
(* a version, once written, names that version as its previous one.        *)
LEMMA HeadPointsBack ==
  ASSUME IInv, ContentBound, NEW c \in Cid, NEW h \in Cid,
         meta[c].status = "full", meta[c].head = h, meta[h].status = "full"
  PROVE  meta[h].prev = c
<1>1. c # NULL /\ h # NULL
  BY RequestAssumption, Zenon
<1>2. PICK u \in Requested : u.update /\ u.prev = c /\ u.cid = h
  BY <1>1, Zenon DEF IInv, LinkInv, Updates
<1>3. GoodLink(h, meta[h].prev)
  BY Zenon DEF IInv, LinkInv
<1>4. CASE meta[h].prev = NULL
  <2>1. PICK r \in Requested : r.create /\ r.cid = h
    BY <1>3, <1>4, Zenon DEF GoodLink, Creates
  <2>2. r.prev = NULL
    BY <2>1, Zenon DEF Requested, BadFlags
  <2> QED
    BY <1>1, <1>2, <2>1, <2>2 DEF ContentBound
<1>5. CASE meta[h].prev # NULL
  <2>1. PICK r \in Requested : r.update /\ r.prev = meta[h].prev /\ r.cid = h
    BY <1>3, <1>5, Zenon DEF GoodLink, Updates
  <2> QED
    BY <1>2, <2>1, Zenon DEF ContentBound
<1> QED
  BY <1>4, <1>5, Zenon

(* However many deals run, fail or are killed between the truncation and   *)
(* the write of os.WriteFile: a metadata file is empty only because of a   *)
(* deal at, or dead at, the write of that file, and a head has no metadata *)
(* only because of an update that has linked it and not come to its file.  *)
THEOREM OnlyWritersBreak == Spec => []BrokenOnlyByAWriter
<1>1. StandInv => BrokenOnlyByAWriter
  BY Zenon DEF StandInv
<1> QED
  BY SpecStandInv, <1>1, PTL

(* Once every invocation has come to its own end, and if no cid was asked  *)
(* for under two previous versions, the links the deals left agree: a      *)
(* previous version has metadata, a head names the version it is the head  *)
(* of as its previous one, and every root in fileroots.log has metadata.   *)
THEOREM LinksAgree == Spec => []QuietLinksAgree
<1>1. StandInv => QuietLinksAgree
  <2> SUFFICES ASSUME StandInv, Quiet, ContentBound
               PROVE  /\ \A c \in Cid : meta[c].status = "full" =>
                           /\ meta[c].prev # NULL => meta[meta[c].prev].status = "full"
                           /\ meta[c].head # NULL =>
                                /\ meta[meta[c].head].status = "full"
                                /\ meta[meta[c].head].prev = c
                      /\ \A c \in Range(fileroots) : meta[c].status = "full"
    BY Zenon DEF QuietLinksAgree
  <2>0. IInv /\ TypeOK
    BY Zenon DEF StandInv, IInv
  <2>1. \A c \in Cid : /\ meta[c].status \in {"absent", "torn", "full"}
                       /\ meta[c].prev \in Cid \cup {NULL}
                       /\ meta[c].head \in Cid \cup {NULL}
    BY <2>0, Zenon DEF TypeOK, MetaFile, Link
  <2>2. ASSUME NEW c \in Cid, meta[c].status = "full", meta[c].prev # NULL
        PROVE  meta[meta[c].prev].status = "full"
    BY <2>1, <2>2, QuietFiles, Zenon DEF StandInv, PresentInv
  <2>3. ASSUME NEW c \in Cid, meta[c].status = "full", meta[c].head # NULL
        PROVE  /\ meta[meta[c].head].status = "full"
               /\ meta[meta[c].head].prev = c
    <3>1. meta[c].head \in Cid /\ meta[meta[c].head].status = "full"
      BY <2>1, <2>3, QuietFiles, Zenon
    <3> QED
      BY <2>0, <2>3, <3>1, HeadPointsBack, Zenon
  <2>4. Range(fileroots) \subseteq Cid
    BY <2>0 DEF TypeOK, Range
  <2> QED
    BY <2>1, <2>2, <2>3, <2>4, QuietFiles, Zenon
<1> QED
  BY SpecStandInv, <1>1, PTL

=============================================================================
