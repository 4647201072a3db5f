----------------------- MODULE RetrieveVersionProofs -----------------------
(***************************************************************************)
(* Proofs about retrieve-version for chains of any length and any number   *)
(* of invocations, killed anywhere, of which no two run on one path.       *)
(***************************************************************************)
EXTENDS RetrieveVersion, TLAPS

(* A new file. *)
LEMMA NewFile ==
  ASSUME NEW c \in Cid \cup {NONE}, NEW w \in BOOLEAN, NEW p \in Proc
  PROVE  LET f == [cid |-> c, whole |-> w, by |-> p]
         IN f \in File /\ f # NONE /\ f.by = p /\ f.cid = c
  BY RetrieveAssumption DEF File

LEMMA NewGood ==
  ASSUME NEW c \in Cid, NEW p \in Proc
  PROVE  Good([cid |-> c, whole |-> TRUE, by |-> p], c)
<1>1. [cid |-> c, whole |-> TRUE, by |-> p] \in File
  BY NewFile, Zenon
<1>2. [cid |-> c, whole |-> TRUE, by |-> p] # NONE
  BY <1>1, RetrieveAssumption, Zenon DEF File
<1> QED
  BY <1>2, Zenon DEF Good

(* Finishing a write changes no file but the one that was opened, and that *)
(* one only to be whole.                                                   *)
LEMMA WrittenIs ==
  ASSUME NEW f \in File \cup {NONE}, NEW p \in Proc
  PROVE  /\ Written(f, p) \in File \cup {NONE}
         /\ Written(f, p) = NONE <=> f = NONE
         /\ f # NONE => /\ Written(f, p).by = f.by
                        /\ Written(f, p).cid = f.cid
                        /\ f.whole => Written(f, p).whole
         /\ f # NONE /\ f.by = p => Written(f, p).whole
<1>1. CASE f # NONE /\ f.by = p
  <2> DEFINE g == [f EXCEPT !.whole = TRUE]
  <2>1. f \in File /\ Written(f, p) = g
    BY <1>1, Zenon DEF Written
  <2>2. g \in File /\ g.by = f.by /\ g.cid = f.cid /\ g.whole = TRUE
    BY <2>1, Zenon DEF File
  <2>3. g # NONE
    BY <2>2, RetrieveAssumption, Zenon DEF File
  <2> HIDE DEF g
  <2> QED
    BY <1>1, <2>1, <2>2, <2>3, Zenon
<1>2. CASE ~(f # NONE /\ f.by = p)
  BY <1>2, Zenon DEF Written
<1> QED
  BY <1>1, <1>2, Zenon

LEMMA WrittenGood ==
  ASSUME NEW f \in File \cup {NONE}, NEW p \in Proc, NEW c, Good(f, c)
  PROVE  Good(Written(f, p), c)
  BY WrittenIs, Zenon DEF Good

(* The chain of an invocation. *)
LEMMA ChainFacts ==
  ASSUME TypeOK, NEW p \in Proc
  PROVE  /\ last(p) \in Index /\ last(p) \in Nat
         /\ nth(p, last(p)) = target[p]
         /\ target[p] \in Cid
         /\ \A k \in 0 .. last(p) : nth(p, k) \in Cid
         /\ \A k \in 1 .. last(p) : Prev[nth(p, k)] = nth(p, k - 1)
<1> DEFINE c == target[p]
<1>1. c \in Cid
  BY Zenon DEF TypeOK
<1>2. /\ Chain[c] \in Seq(Cid)
      /\ Len(Chain[c]) \in 1 .. MaxIndex + 1
      /\ Chain[c][Len(Chain[c])] = c
      /\ \A k \in 1 .. Len(Chain[c]) - 1 : Prev[Chain[c][k + 1]] = Chain[c][k]
      /\ MaxIndex \in Nat
  BY <1>1, RetrieveAssumption, Zenon
<1>3. last(p) = Len(Chain[c]) - 1
  BY Zenon DEF last
<1> HIDE DEF c
<1>4. last(p) \in Index /\ last(p) \in Nat /\ last(p) + 1 = Len(Chain[c])
  BY <1>2, <1>3 DEF Index
<1>5. \A k : nth(p, k) = Chain[c][k + 1]
  BY Zenon DEF nth, c
<1>6. nth(p, last(p)) = c
  BY <1>2, <1>4, <1>5, Zenon
<1>7. \A k \in 0 .. last(p) : nth(p, k) \in Cid
  <2> TAKE k \in 0 .. last(p)
  <2>1. k + 1 \in 1 .. Len(Chain[c])
    BY <1>2, <1>3
  <2> QED
    BY <1>2, <1>5, <2>1
<1>8. \A k \in 1 .. last(p) : Prev[nth(p, k)] = nth(p, k - 1)
  <2> TAKE k \in 1 .. last(p)
  <2>1. k \in 1 .. Len(Chain[c]) - 1 /\ (k - 1) + 1 = k
    BY <1>2, <1>3
  <2>2. Prev[Chain[c][k + 1]] = Chain[c][k]
    BY <1>2, <2>1, Zenon
  <2> QED
    BY <1>5, <2>1, <2>2, Zenon
<1> QED
  BY <1>1, <1>4, <1>6, <1>7, <1>8, Zenon DEF c

----------------------------------------------------------------------------
LEMMA InitIInv == Init => IInv
<1> SUFFICES ASSUME Init PROVE IInv
  BY Zenon
<1>1. TypeOK
  BY RetrieveAssumption DEF Init, TypeOK, Index
<1>2. Alone /\ OutputIsAVersion
  BY Zenon DEF Init, Alone, Live, Running, Exports, Patches, OutputIsAVersion
<1>3. \A p \in Proc : 0 <= last(p)
  <2> TAKE p \in Proc
  <2>1. last(p) \in Nat
    BY <1>1, ChainFacts, Zenon
  <2> QED
    BY <2>1
<1>4. \A p \in Proc : Held(p)
  BY <1>3, Zenon DEF Init, Held, Running, Exports, Patches
<1> QED
  BY <1>1, <1>2, <1>4, Zenon DEF IInv

LEMMA NextType ==
  TypeOK /\ (\A p \in Proc : idx[p] <= last(p)) /\ [Next]_vars => TypeOK'
<1> SUFFICES ASSUME TypeOK, \A p \in Proc : idx[p] <= last(p), [Next]_vars
             PROVE  TypeOK'
  BY Zenon
<1> USE DEF Goto, Running, Exports, Patches, Ended, cli, node, files
<1>0. \A p \in Proc : here(p) \in Slot
  BY Zenon DEF TypeOK, here, Slot
<1>1. ASSUME NEW p \in Proc, Begin(p) \/ ConnectionLost(p) \/ Fail(p)
      PROVE  TypeOK'
  <2>1. CASE Begin(p)
    BY <2>1, Zenon DEF TypeOK, Begin
  <2>2. CASE ConnectionLost(p)
    BY <2>2, Zenon DEF TypeOK, ConnectionLost
  <2>3. CASE Fail(p)
    BY <2>3, Zenon DEF TypeOK, Fail
  <2> QED
    BY <1>1, <2>1, <2>2, <2>3, Zenon
<1>2. ASSUME NEW p \in Proc, ClientStep(p)
      PROVE  TypeOK'
  <2>1. CASE RemoveTmp(p) \/ RemoveWork(p) \/ RemoveOutput(p)
    BY <2>1 DEF TypeOK, RemoveTmp, RemoveWork, RemoveOutput
  <2>2. CASE ChooseSource(p) \/ Subscribe(p) \/ StartRetrieval(p) \/ ReadEvent(p)
    <3>1. CASE ChooseSource(p)
      BY <3>1 DEF TypeOK, ChooseSource
    <3>2. CASE Subscribe(p)
      BY <3>2, Zenon DEF TypeOK, Subscribe
    <3>3. CASE StartRetrieval(p)
      BY <3>3, Zenon DEF TypeOK, StartRetrieval
    <3>4. CASE ReadEvent(p)
      BY <3>4 DEF TypeOK, ReadEvent
    <3> QED
      BY <2>2, <3>1, <3>2, <3>3, <3>4, Zenon
  <2>3. CASE Export(p) \/ ExportFails(p) \/ Report(p)
    BY <2>3 DEF TypeOK, Export, ExportFails, Report
  <2>4. \A k \in Index : k < last(p) => k + 1 \in Index
    BY ChainFacts, RetrieveAssumption DEF Index
  <2>5. CASE Exported(p)
    <3>1. idx' \in [Proc -> Index]
      BY <2>4, <2>5 DEF TypeOK, Exported
    <3> QED
      BY <2>5, <3>1, Zenon DEF TypeOK, Exported
  <2>6. ASSUME NEW k \in Index, NextPatch(p, k)
        PROVE  /\ idx' \in [Proc -> Index]
               /\ pc' \in [Proc -> {"idle"} \cup Running \cup Ended]
    BY <2>4, <2>6, Zenon DEF TypeOK, NextPatch
  <2>7. 0 \in Index /\ idx[p] \in Index /\ <<path[p], 0>> \in Slot
    BY RetrieveAssumption DEF TypeOK, Index, Slot
  <2>8. CASE RenameRoot(p)
    <3>1. /\ idx' \in [Proc -> Index]
          /\ pc' \in [Proc -> {"idle"} \cup Running \cup Ended]
      BY <2>6, <2>7, <2>8, Zenon DEF RenameRoot
    <3>2. /\ tmp' \in [Slot -> File \cup {NONE}]
          /\ out' \in [Path -> File \cup {NONE}]
      BY <2>7, <2>8, Zenon DEF RenameRoot, TypeOK
    <3> QED
      BY <2>8, <3>1, <3>2, Zenon DEF TypeOK, RenameRoot
  <2>9. CASE Bspatch(p)
    <3> DEFINE c == patched(out[path[p]], tmp[here(p)])
               f == [cid |-> c, whole |-> TRUE, by |-> p]
    <3>1. tmp[here(p)] \in File
      BY <1>0, <2>9, Zenon DEF TypeOK, Bspatch
    <3>2. c \in Cid \cup {NONE}
      BY <3>1, Zenon DEF patched, File
    <3>3. f \in File
      BY <3>2, NewFile, Zenon
    <3>4. work' = [work EXCEPT ![here(p)] = f]
      BY <2>9, Zenon DEF Bspatch
    <3> HIDE DEF f, c
    <3>5. work' \in [Slot -> File \cup {NONE}]
      BY <3>3, <3>4, Zenon DEF TypeOK
    <3> QED
      BY <2>9, <3>5, Zenon DEF TypeOK, Bspatch
  <2>10. CASE BspatchFails(p)
    <3> DEFINE f == [cid |-> NONE, whole |-> FALSE, by |-> p]
    <3>1. f \in File
      BY NewFile, Zenon
    <3>2. work' = [work EXCEPT ![here(p)] = f]
      BY <2>10, Zenon DEF BspatchFails
    <3> HIDE DEF f
    <3>3. work' \in [Slot -> File \cup {NONE}]
      BY <3>1, <3>2, Zenon DEF TypeOK
    <3> QED
      BY <2>10, <3>3, Zenon DEF TypeOK, BspatchFails
  <2>11. CASE RenameWork(p)
    BY <1>0, <2>11, Zenon DEF TypeOK, RenameWork
  <2>12. CASE RemovePatch(p)
    <3>1. /\ idx' \in [Proc -> Index]
          /\ pc' \in [Proc -> {"idle"} \cup Running \cup Ended]
      BY <2>6, <2>7, <2>12, Zenon DEF RemovePatch
    <3> QED
      BY <2>12, <3>1, Zenon DEF TypeOK, RemovePatch
  <2> QED
    BY <1>2, <2>1, <2>2, <2>3, <2>5, <2>8, <2>9, <2>10, <2>11, <2>12, Zenon
    DEF ClientStep
<1>3. ASSUME NEW p \in Proc, DaemonStep(p)
      PROVE  TypeOK'
  <2>1. CASE DealEnds(p) \/ JobFails(p)
    BY <2>1 DEF TypeOK, DealEnds, JobFails
  <2>2. CASE JobOpen(p)
    <3>1. CASE tmp[here(p)] # NONE
      BY <2>2, <3>1, Zenon DEF TypeOK, JobOpen
    <3>2. CASE tmp[here(p)] = NONE
      <4> DEFINE f == [cid |-> nth(p, idx[p]), whole |-> FALSE, by |-> p]
      <4>1. idx[p] \in 0 .. last(p)
        BY ChainFacts DEF TypeOK, Index
      <4>2. f \in File
        BY <4>1, ChainFacts, NewFile, Zenon
      <4>3. /\ tmp' = [tmp EXCEPT ![here(p)] = f]
            /\ job' = [job EXCEPT ![p] = "open"]
        BY <2>2, <3>2, Zenon DEF JobOpen, nth
      <4> HIDE DEF f
      <4> QED
        BY <2>2, <4>2, <4>3, Zenon DEF TypeOK, JobOpen
    <3> QED
      BY <3>1, <3>2, Zenon
  <2>3. CASE JobWrite(p)
    <3>1. /\ Written(tmp[here(p)], p) \in File \cup {NONE}
          /\ Written(out[path[p]], p) \in File \cup {NONE}
      BY <1>0, WrittenIs, ZenonT(120) DEF TypeOK
    <3> QED
      BY <2>3, <3>1, Zenon DEF TypeOK, JobWrite
  <2> QED
    BY <1>3, <2>1, <2>2, <2>3, Zenon DEF DaemonStep
<1>4. ASSUME NEW o \in Path, CleanUp(o)
      PROVE  TypeOK'
  BY <1>4, Zenon DEF TypeOK, CleanUp
<1>5. CASE UNCHANGED vars
  BY <1>5, Zenon DEF TypeOK, vars
<1> QED
  BY <1>1, <1>2, <1>3, <1>4, <1>5, Zenon DEF Next

----------------------------------------------------------------------------
(* Nothing an invocation relies on has changed. *)
LEMMA HeldSame ==
  ASSUME NEW q, Held(q), pc'[q] = pc[q],
         UNCHANGED <<target, path, idx, job, tmp, work, out>>
  PROVE  Held(q)'
<1>1. here(q)' = here(q) /\ last(q)' = last(q) /\ \A k : nth(q, k)' = nth(q, k)
  BY Zenon DEF here, last, nth
<1> QED
  BY <1>1 DEF Held

(* An invocation that has failed relies on nothing. *)
LEMMA HeldFailed ==
  ASSUME NEW q, Held(q), pc'[q] = "failed", UNCHANGED <<target, idx>>
  PROVE  Held(q)'
<1>1. idx'[q] <= last(q)'
  BY Zenon DEF Held, last
<1> QED
  BY <1>1, Zenon DEF Held, Running, Exports, Patches

(* An invocation that takes a step of its own leaves the others what they  *)
(* have: those that are live are on other paths.                           *)
LEMMA Frame ==
  ASSUME IInv, NEW p \in Proc, NEW q \in Proc, p # q,
         Live(p),
         UNCHANGED cli,
         pc'[q] = pc[q], idx'[q] = idx[q], job'[q] = job[q],
         \A k \in Index, o \in Path : o # path[p] =>
           /\ tmp'[<<o, k>>] = tmp[<<o, k>>]
           /\ work'[<<o, k>>] = work[<<o, k>>]
           /\ out'[o] = out[o]
  PROVE  Held(q)'
<1>1. Held(q) /\ path[q] \in Path /\ idx[q] \in Index
  BY ZenonT(120) DEF IInv, TypeOK
<1>2. /\ here(q)' = here(q) /\ here(q) = <<path[q], idx[q]>>
      /\ last(q)' = last(q)
      /\ \A k : nth(q, k)' = nth(q, k)
  BY Zenon DEF here, last, nth, cli
<1>3. CASE ~Live(q)
  BY <1>1, <1>2, <1>3, Zenon DEF Live, Held, Running, Exports, Patches, cli
<1>4. CASE Live(q)
  <2>1. path[q] # path[p]
    BY <1>4, Zenon DEF IInv, Alone
  <2>2. /\ out'[path[q]] = out[path[q]]
        /\ tmp'[here(q)] = tmp[here(q)]
        /\ work'[here(q)] = work[here(q)]
        /\ \A k \in Index : tmp'[<<path[q], k>>] = tmp[<<path[q], k>>]
    BY <1>1, <1>2, <2>1, ZenonT(120)
  <2>3. path'[q] = path[q] /\ target'[q] = target[q]
    BY Zenon DEF cli
  <2> QED
    BY <1>1, <1>2, <2>2, <2>3 DEF Held
<1> QED
  BY <1>3, <1>4, Zenon

(* The step of an invocation leaves it alone on its path. *)
LEMMA AloneStep ==
  ASSUME Alone, NEW p \in Proc, Live(p), UNCHANGED path,
         \A q \in Proc : q # p => pc'[q] = pc[q]
  PROVE  Alone'
  BY Zenon DEF Alone, Live

(* What a step of p has to keep. *)
Kept(p) == Held(p)' /\ OutputIsAVersion'

(* The steps of an invocation, one by one. *)
LEMMA ExportSteps ==
  ASSUME IInv, TypeOK', NEW p \in Proc,
         \/ RemoveTmp(p) \/ ChooseSource(p) \/ Subscribe(p)
         \/ StartRetrieval(p) \/ ReadEvent(p) \/ Export(p)
         \/ Exported(p) \/ ExportFails(p)
  PROVE  Kept(p)
<1> DEFINE o == path[p]
           i == idx[p]
           n == last(p)
<1>1. Held(p) /\ OutputIsAVersion /\ o \in Path /\ i \in Index /\ here(p) = <<o, i>>
  BY Zenon DEF IInv, TypeOK, here
<1>2. /\ pc \in [Proc -> {"idle"} \cup Running \cup Ended]
      /\ idx \in [Proc -> Index]
      /\ job \in [Proc -> {"none", "asked", "open", "done", "failed"}]
      /\ tmp \in [Slot -> File \cup {NONE}]
  BY Zenon DEF IInv, TypeOK
<1>3. n \in Nat /\ n \in Index /\ i \in Int /\ (\A k \in Index : k \in Int)
  <2>1. n \in Nat /\ n \in Index
    BY ChainFacts, Zenon DEF IInv
  <2>2. \A k \in Index : k \in Int
    BY RetrieveAssumption DEF Index
  <2> QED
    BY <1>1, <2>1, <2>2, Zenon
<1>4. UNCHANGED <<target, path, out, work>> /\ (~Exported(p) => UNCHANGED idx)
  BY Zenon DEF RemoveTmp, ChooseSource, Subscribe, StartRetrieval, ReadEvent, Export,
         Exported, ExportFails, cli, node, files
<1>5. OutputIsAVersion'
  BY <1>1, <1>4, Zenon DEF OutputIsAVersion
<1>6. \A k : nth(p, k)' = nth(p, k)
  BY <1>4, Zenon DEF nth
<1>7. last(p)' = n /\ path'[p] = o /\ target'[p] = target[p]
  BY <1>4, Zenon DEF last
<1>8. out'[o] = NONE /\ (\A k \in Index : k < i => Good(tmp[<<o, k>>], nth(p, k)))
  BY <1>1, <1>4, Zenon DEF Held, Exports, RemoveTmp, ChooseSource, Subscribe,
                    StartRetrieval, ReadEvent, Export, Exported, ExportFails
<1>9. i <= n
  BY <1>1, Zenon DEF Held
<1>10. /\ pc[p] \in Exports \ {"exporting"} => job[p] \notin {"asked", "open"}
       /\ pc[p] = "exporting" /\ job[p] = "done" => Good(tmp[<<o, i>>], nth(p, i))
  BY <1>1, Zenon DEF Held, Running
<1>11. ASSUME pc'[p] \in Exports \ {"exporting"}, idx'[p] = i,
              job'[p] \notin {"asked", "open"},
              \A k \in Index : k < i => tmp'[<<o, k>>] = tmp[<<o, k>>]
       PROVE  Held(p)'
  BY <1>11, <1>6, <1>7, <1>8, <1>9, Zenon DEF Held, Running, Exports, Patches
<1>12. ASSUME pc'[p] = "failed", UNCHANGED idx
       PROVE  Held(p)'
  BY <1>1, <1>4, <1>12, HeldFailed, Zenon
<1> HIDE DEF o, i, n
<1>13. CASE RemoveTmp(p)
  <2>1. /\ tmp' = [tmp EXCEPT ![<<o, i>>] = NONE]
        /\ pc'[p] = "retrieve" /\ pc[p] = "removetmp"
        /\ UNCHANGED <<idx, job>>
    BY <1>1, <1>2, <1>13, Zenon DEF RemoveTmp, Goto, cli, node
  <2>2. \A k \in Index : k < i => <<o, k>> # <<o, i>> /\ <<o, k>> \in Slot
    BY <1>1, <1>3 DEF Slot
  <2>3. \A k \in Index : k < i => tmp'[<<o, k>>] = tmp[<<o, k>>]
    BY <1>2, <2>1, <2>2, Zenon
  <2> QED
    BY <1>5, <1>10, <1>11, <2>1, <2>3, Zenon DEF Kept, Exports, i
<1>14. CASE ChooseSource(p) \/ Subscribe(p) \/ StartRetrieval(p)
  <2>1. /\ pc'[p] \in {"export", "subscribe", "start", "events"}
        /\ pc[p] \in {"retrieve", "subscribe", "start"}
        /\ UNCHANGED <<idx, job, tmp>>
    BY <1>2, <1>14, Zenon DEF ChooseSource, Subscribe, StartRetrieval, Goto, cli, node,
                       files
  <2> QED
    BY <1>5, <1>10, <1>11, <2>1, Zenon DEF Kept, Exports, i
<1>15. CASE ReadEvent(p)
  <2>1. /\ pc'[p] \in {"export", "failed"} /\ pc[p] = "events"
        /\ UNCHANGED <<idx, job, tmp>>
    BY <1>2, <1>15, Zenon DEF ReadEvent, Goto, cli, files
  <2> QED
    BY <1>5, <1>10, <1>11, <1>12, <2>1, Zenon DEF Kept, Exports, i
<1>16. CASE Export(p)
  <2>1. /\ pc'[p] = "exporting" /\ job'[p] = "asked"
        /\ UNCHANGED <<idx, tmp>>
    BY <1>2, <1>16, Zenon DEF Export, Goto, cli, node, files
  <2>2. idx'[p] = i /\ \A k \in Index : tmp'[<<o, k>>] = tmp[<<o, k>>]
    BY <2>1, Zenon DEF i
  <2>3. Held(p)'
    BY <1>6, <1>7, <1>8, <1>9, <2>1, <2>2, Zenon DEF Held, Running, Exports, Patches
  <2> QED
    BY <1>5, <2>3, Zenon DEF Kept
<1>17. CASE Exported(p)
  <2>1. /\ pc[p] = "exporting" /\ job[p] = "done"
        /\ UNCHANGED <<job, tmp>>
    BY <1>17, Zenon DEF Exported, files
  <2>2. Good(tmp[<<o, i>>], nth(p, i))
    BY <1>10, <2>1, Zenon
  <2>3. \A k \in Index : k <= i => Good(tmp'[<<o, k>>], nth(p, k)')
    BY <1>3, <1>6, <1>8, <2>1, <2>2
  <2>4. CASE i < n
    <3>1. idx'[p] = i + 1 /\ pc'[p] = "removetmp"
      BY <1>2, <1>17, <2>4, Zenon DEF Exported, Goto, i, n
    <3>2. \A k \in Index : k < i + 1 => Good(tmp'[<<o, k>>], nth(p, k)')
      <4> SUFFICES ASSUME NEW k \in Index, k < i + 1
                   PROVE  Good(tmp'[<<o, k>>], nth(p, k)')
        BY Zenon
      <4>1. k <= i
        BY <1>3
      <4> QED
        BY <2>3, <4>1, Zenon
    <3>3. i + 1 <= n
      BY <1>3, <2>4
    <3>4. job'[p] = "done"
      BY <2>1, Zenon
    <3>5. Held(p)'
      BY <1>7, <1>8, <3>1, <3>2, <3>3, <3>4, Zenon DEF Held, Running, Exports, Patches
    <3> QED
      BY <1>5, <3>5, Zenon DEF Kept
  <2>5. CASE ~(i < n)
    <3>1. idx'[p] = i /\ pc'[p] = "rename"
      BY <1>2, <1>17, <2>5, Zenon DEF Exported, Goto, i, n
    <3>2. i = n
      BY <1>3, <1>9, <2>5
    <3>3. \A k \in Index : k <= n => Good(tmp'[<<o, k>>], nth(p, k)')
      BY <2>3, <3>2, Zenon
    <3>4. Held(p)'
      BY <1>7, <1>8, <1>9, <2>1, <3>1, <3>3, Zenon
      DEF Held, Running, Exports, Patches
    <3> QED
      BY <1>5, <3>4, Zenon DEF Kept
  <2> QED
    BY <2>4, <2>5, Zenon
<1>18. CASE ExportFails(p)
  <2>1. pc'[p] = "failed" /\ UNCHANGED idx
    BY <1>2, <1>18, Zenon DEF ExportFails, Goto
  <2> QED
    BY <1>5, <1>12, <2>1, Zenon DEF Kept
<1> QED
  BY <1>13, <1>14, <1>15, <1>16, <1>17, <1>18, Zenon

(* Only whole versions are put at an output path. *)
LEMMA OutputSet ==
  ASSUME TypeOK, OutputIsAVersion, NEW o \in Path, NEW f, NEW c \in Cid,
         f = NONE \/ Good(f, c),
         out' = [out EXCEPT ![o] = f]
  PROVE  OutputIsAVersion' /\ out'[o] = f
<1>1. out'[o] = f /\ \A x \in Path : x # o => out'[x] = out[x]
  BY Zenon DEF TypeOK
<1>2. f # NONE => f.whole /\ f.cid # NONE
  BY RetrieveAssumption DEF Good
<1> QED
  BY <1>1, <1>2, Zenon DEF OutputIsAVersion

LEMMA PatchSteps ==
  ASSUME IInv, TypeOK', NEW p \in Proc,
         \/ RenameRoot(p) \/ RemoveWork(p) \/ Bspatch(p) \/ BspatchFails(p)
         \/ RemoveOutput(p) \/ RenameWork(p) \/ RemovePatch(p) \/ Report(p)
  PROVE  Kept(p)
<1> DEFINE o == path[p]
           i == idx[p]
           n == last(p)
<1>1. Held(p) /\ OutputIsAVersion /\ o \in Path /\ i \in Index /\ here(p) = <<o, i>>
  BY Zenon DEF IInv, TypeOK, here
<1>2. /\ pc \in [Proc -> {"idle"} \cup Running \cup Ended]
      /\ idx \in [Proc -> Index]
      /\ tmp \in [Slot -> File \cup {NONE}]
      /\ work \in [Slot -> File \cup {NONE}]
      /\ TypeOK
  BY Zenon DEF IInv, TypeOK
<1>3. n \in Nat /\ n \in Index /\ i \in Int /\ (\A k \in Index : k \in Int)
  <2>1. n \in Nat /\ n \in Index
    BY ChainFacts, Zenon DEF IInv
  <2>2. \A k \in Index : k \in Int
    BY RetrieveAssumption DEF Index
  <2> QED
    BY <1>1, <2>1, <2>2, Zenon
<1>4. UNCHANGED <<target, path, job>>
  BY Zenon DEF RenameRoot, RemoveWork, Bspatch, BspatchFails, RemoveOutput, RenameWork,
         RemovePatch, Report, cli, node
<1>5. \A k : nth(p, k)' = nth(p, k)
  BY <1>4, Zenon DEF nth
<1>6. last(p)' = n /\ path'[p] = o /\ target'[p] = target[p]
  BY <1>4, Zenon DEF last
<1>7. /\ i <= n
      /\ nth(p, n) = target[p]
      /\ \A k \in Index : <<o, k>> \in Slot
  BY <1>1, <1>2, ChainFacts, Zenon DEF Held, Slot
<1>8. \A k \in Index : k <= n => nth(p, k) \in Cid
  <2> SUFFICES ASSUME NEW k \in Index, k <= n PROVE nth(p, k) \in Cid
    BY Zenon
  <2>1. k \in 0 .. MaxIndex /\ n \in Nat
    BY <1>3, Zenon DEF Index
  <2>2. k \in 0 .. n
    BY <2>1
  <2>3. k \in 0 .. last(p)
    BY <2>2, Zenon DEF n
  <2> QED
    BY <1>2, <2>3, ChainFacts, Zenon
<1>9. job'[p] \notin {"asked", "open"}
  <2>1. pc[p] \in Running \ {"exporting"}
    BY Zenon DEF Running, Exports, Patches, RenameRoot, RemoveWork, Bspatch,
       BspatchFails, RemoveOutput, RenameWork, RemovePatch, Report
  <2> QED
    BY <1>1, <1>4, <2>1, Zenon DEF Held
<1>10. ASSUME pc'[p] = "failed", UNCHANGED idx
       PROVE  Held(p)'
  BY <1>1, <1>4, <1>10, HeldFailed, Zenon
<1>11. pc[p] \in Patches =>
         /\ i >= 1
         /\ \A k \in Index : k \in i + 1 .. n => Good(tmp[<<o, k>>], nth(p, k))
  BY <1>1, Zenon DEF Held
<1> HIDE DEF o, i, n
<1>12. ASSUME NEW k \in Index, k <= n, NextPatch(p, k), Good(out'[o], nth(p, k)),
              \A j \in Index : j \in k + 1 .. n => Good(tmp'[<<o, j>>], nth(p, j))
       PROVE  Held(p)'
  <2>1. CASE k < n
    <3>1. idx'[p] = k + 1 /\ pc'[p] = "rmwork"
      BY <1>2, <1>12, <2>1, Zenon DEF NextPatch, Goto, n
    <3>0. k \in 0 .. MaxIndex /\ n \in 0 .. MaxIndex /\ MaxIndex \in Nat
      BY <1>3, RetrieveAssumption, Zenon DEF Index
    <3>2. k + 1 \in Index /\ k + 1 \in k + 1 .. n /\ (k + 1) - 1 = k /\ k + 1 >= 1
      BY <2>1, <3>0 DEF Index
    <3>3. here(p)' = <<o, k + 1>>
      BY <1>6, <3>1, Zenon DEF here
    <3>4. Good(tmp'[here(p)'], nth(p, k + 1))
      BY <1>12, <3>2, <3>3, Zenon
    <3>5. \A j \in Index : j \in (k + 1) + 1 .. n => Good(tmp'[<<o, j>>], nth(p, j))
      <4> SUFFICES ASSUME NEW j \in Index, j \in (k + 1) + 1 .. n
                   PROVE  Good(tmp'[<<o, j>>], nth(p, j))
        BY Zenon
      <4>1. j \in k + 1 .. n
        BY <1>3
      <4> QED
        BY <1>12, <4>1, Zenon
    <3>6. k + 1 <= n
      BY <1>3, <2>1, SMTT(120)
    <3> QED
      BY <1>5, <1>6, <1>9, <1>12, <3>1, <3>2, <3>4, <3>5, <3>6, Zenon
      DEF Held, Running, Exports, Patches
  <2>2. CASE ~(k < n)
    <3>1. idx'[p] = k /\ pc'[p] = "report"
      BY <1>2, <1>12, <2>2, Zenon DEF NextPatch, Goto, n
    <3>0. k \in Int /\ n \in Int /\ k <= n
      BY <1>3, <1>12, Zenon
    <3>2. k = n
      BY <2>2, <3>0
    <3> QED
      BY <1>6, <1>7, <1>9, <1>12, <3>1, <3>2, Zenon DEF Held, Running, Exports, Patches
  <2> QED
    BY <2>1, <2>2, Zenon
<1>13. ASSUME pc'[p] \in Patches, idx'[p] = i, i >= 1,
              \A k \in Index : k \in i + 1 .. n => tmp'[<<o, k>>] = tmp[<<o, k>>],
              \A k \in Index : k \in i + 1 .. n => Good(tmp[<<o, k>>], nth(p, k)),
              pc'[p] \in {"rmwork", "bspatch"} =>
                /\ Good(out'[o], nth(p, i - 1))
                /\ Good(tmp'[<<o, i>>], nth(p, i)),
              pc'[p] \in {"rmout", "mvwork"} => Good(work'[<<o, i>>], nth(p, i)),
              pc'[p] = "rmpatch" => Good(out'[o], nth(p, i))
       PROVE  Held(p)'
  <2>1. here(p)' = <<o, i>>
    BY <1>6, <1>13, Zenon DEF here
  <2> QED
    BY <1>5, <1>6, <1>7, <1>9, <1>13, <2>1, Zenon DEF Held, Running, Exports, Patches
<1>14. CASE RenameRoot(p)
  <2>0. 0 \in Index /\ 0 <= n
    BY <1>3, RetrieveAssumption DEF Index
  <2>1. /\ pc[p] = "rename"
        /\ out' = [out EXCEPT ![o] = tmp[<<o, 0>>]]
        /\ tmp' = [tmp EXCEPT ![<<o, 0>>] = NONE]
        /\ NextPatch(p, 0)
    BY <1>14, Zenon DEF RenameRoot, o
  <2>2. \A k \in Index : k <= n => Good(tmp[<<o, k>>], nth(p, k))
    BY <1>1, <2>1, Zenon DEF Held, o, n
  <2>3. Good(tmp[<<o, 0>>], nth(p, 0)) /\ nth(p, 0) \in Cid
    BY <1>8, <2>0, <2>2, Zenon
  <2>4. OutputIsAVersion' /\ out'[o] = tmp[<<o, 0>>]
    BY <1>1, <1>2, <2>1, <2>3, OutputSet, Zenon
  <2>5. \A k \in Index : k \in 0 + 1 .. n => Good(tmp'[<<o, k>>], nth(p, k))
    <3> SUFFICES ASSUME NEW k \in Index, k \in 0 + 1 .. n
                 PROVE  Good(tmp'[<<o, k>>], nth(p, k))
      BY Zenon
    <3>1. k <= n /\ <<o, k>> # <<o, 0>>
      BY <1>3
    <3>2. tmp'[<<o, k>>] = tmp[<<o, k>>]
      BY <1>2, <1>7, <2>1, <3>1, Zenon
    <3> QED
      BY <2>2, <3>1, <3>2, Zenon
  <2>6. Held(p)'
    BY <1>12, <2>0, <2>1, <2>3, <2>4, <2>5, Zenon
  <2> QED
    BY <2>4, <2>6, Zenon DEF Kept
<1>15. CASE RemoveWork(p)
  <2>1. /\ pc[p] = "rmwork" /\ pc'[p] = "bspatch"
        /\ UNCHANGED <<idx, tmp, out>>
    BY <1>2, <1>15, Zenon DEF RemoveWork, Goto
  <2>2. Good(out[o], nth(p, i - 1)) /\ Good(tmp[<<o, i>>], nth(p, i))
    BY <1>1, <2>1, Zenon DEF Held, o, i
  <2>3. OutputIsAVersion'
    BY <1>1, <1>4, <2>1, Zenon DEF OutputIsAVersion
  <2>4. pc[p] \in Patches /\ pc'[p] \in Patches /\ idx'[p] = i
    BY <2>1, Zenon DEF Patches, i
  <2>5. Held(p)'
    BY <1>11, <1>13, <2>1, <2>2, <2>4, Zenon
  <2> QED
    BY <2>3, <2>5, Zenon DEF Kept
<1>16. CASE Bspatch(p)
  <2> DEFINE f == [cid |-> nth(p, i), whole |-> TRUE, by |-> p]
  <2>1. /\ pc[p] = "bspatch" /\ pc'[p] = "rmout"
        /\ UNCHANGED <<idx, tmp, out>>
        /\ work' = [work EXCEPT ![<<o, i>>] =
              [cid |-> patched(out[o], tmp[<<o, i>>]), whole |-> TRUE, by |-> p]]
    BY <1>1, <1>2, <1>16, Zenon DEF Bspatch, Goto, o
  <2>2. Good(out[o], nth(p, i - 1)) /\ Good(tmp[<<o, i>>], nth(p, i))
    BY <1>1, <2>1, Zenon DEF Held, o, i
  <2>3. i >= 1 /\ nth(p, i) \in Cid
    BY <1>1, <1>7, <1>8, <1>11, <2>1, Zenon DEF Patches
  <2>4. Prev[nth(p, i)] = nth(p, i - 1)
    <3>1. i \in 1 .. last(p)
      BY <1>3, <1>7, <2>3 DEF n
    <3> QED
      BY <1>2, <3>1, ChainFacts, Zenon
  <2>5. nth(p, i) # NONE
    BY <2>3, RetrieveAssumption, Zenon
  <2>6. patched(out[o], tmp[<<o, i>>]) = nth(p, i)
    BY <2>2, <2>4, <2>5, Zenon DEF patched, Good
  <2>7. Good(f, nth(p, i))
    BY <2>3, NewGood, Zenon
  <2>8. work' = [work EXCEPT ![<<o, i>>] = f]
    BY <2>1, <2>6, Zenon
  <2> HIDE DEF f
  <2>9. Good(work'[<<o, i>>], nth(p, i))
    BY <1>1, <1>2, <1>7, <2>7, <2>8, Zenon
  <2>10. OutputIsAVersion'
    BY <1>1, <1>4, <2>1, Zenon DEF OutputIsAVersion
  <2>11. pc[p] \in Patches /\ pc'[p] \in Patches /\ idx'[p] = i
    BY <2>1, Zenon DEF Patches, i
  <2>12. Held(p)'
    BY <1>11, <1>13, <2>1, <2>3, <2>9, <2>11, Zenon
  <2> QED
    BY <2>10, <2>12, Zenon DEF Kept
<1>17. CASE BspatchFails(p)
  <2>1. pc'[p] = "failed" /\ UNCHANGED <<idx, out>>
    BY <1>2, <1>17, Zenon DEF BspatchFails, Goto
  <2>2. OutputIsAVersion'
    BY <1>1, <1>4, <2>1, Zenon DEF OutputIsAVersion
  <2> QED
    BY <1>10, <2>1, <2>2, Zenon DEF Kept
<1>18. CASE RemoveOutput(p)
  <2>1. /\ pc[p] = "rmout" /\ pc'[p] = "mvwork"
        /\ UNCHANGED <<idx, tmp, work>>
        /\ out' = [out EXCEPT ![o] = NONE]
    BY <1>2, <1>18, Zenon DEF RemoveOutput, Goto, o
  <2>2. Good(work[<<o, i>>], nth(p, i))
    BY <1>1, <2>1, Zenon DEF Held, o, i
  <2>3. target[p] \in Cid
    BY <1>2, ZenonT(120) DEF TypeOK
  <2>4. OutputIsAVersion'
    BY <1>1, <1>2, <2>1, <2>3, OutputSet, Zenon
  <2>5. pc[p] \in Patches /\ pc'[p] \in Patches /\ idx'[p] = i
    BY <2>1, Zenon DEF Patches, i
  <2>6. Held(p)'
    BY <1>11, <1>13, <2>1, <2>2, <2>5, Zenon
  <2> QED
    BY <2>4, <2>6, Zenon DEF Kept
<1>19. CASE RenameWork(p)
  <2>1. /\ pc[p] = "mvwork" /\ pc'[p] = "rmpatch"
        /\ UNCHANGED <<idx, tmp>>
        /\ out' = [out EXCEPT ![o] = work[<<o, i>>]]
    BY <1>1, <1>2, <1>19, Zenon DEF RenameWork, Goto, o
  <2>2. Good(work[<<o, i>>], nth(p, i))
    BY <1>1, <2>1, Zenon DEF Held, o, i
  <2>3. nth(p, i) \in Cid
    BY <1>1, <1>7, <1>8, Zenon
  <2>4. OutputIsAVersion' /\ out'[o] = work[<<o, i>>]
    BY <1>1, <1>2, <2>1, <2>2, <2>3, OutputSet, Zenon
  <2>5. pc[p] \in Patches /\ pc'[p] \in Patches /\ idx'[p] = i
    BY <2>1, Zenon DEF Patches, i
  <2>6. Held(p)'
    BY <1>11, <1>13, <2>1, <2>2, <2>4, <2>5, Zenon
  <2> QED
    BY <2>4, <2>6, Zenon DEF Kept
<1>20. CASE RemovePatch(p)
  <2>1. /\ pc[p] = "rmpatch" /\ NextPatch(p, i)
        /\ UNCHANGED out
        /\ tmp' = [tmp EXCEPT ![<<o, i>>] = NONE]
    BY <1>1, <1>20, Zenon DEF RemovePatch, i
  <2>2. Good(out'[o], nth(p, i))
    BY <1>1, <2>1, Zenon DEF Held, o, i
  <2>3. OutputIsAVersion'
    BY <1>1, <1>4, <2>1, Zenon DEF OutputIsAVersion
  <2>4. \A k \in Index : k \in i + 1 .. n => Good(tmp'[<<o, k>>], nth(p, k))
    <3> SUFFICES ASSUME NEW k \in Index, k \in i + 1 .. n
                 PROVE  Good(tmp'[<<o, k>>], nth(p, k))
      BY Zenon
    <3>1. <<o, k>> # <<o, i>>
      BY <1>3
    <3>2. tmp'[<<o, k>>] = tmp[<<o, k>>]
      BY <1>2, <1>7, <2>1, <3>1, Zenon
    <3>3. pc[p] \in Patches
      BY <2>1, Zenon DEF Patches
    <3> QED
      BY <1>11, <3>2, <3>3, Zenon
  <2>5. Held(p)'
    BY <1>1, <1>7, <1>12, <2>1, <2>2, <2>4, Zenon
  <2> QED
    BY <2>3, <2>5, Zenon DEF Kept
<1>21. CASE Report(p)
  <2>1. /\ pc[p] = "report" /\ pc'[p] = "done"
        /\ UNCHANGED <<idx, out>>
    BY <1>2, <1>21, Zenon DEF Report, Goto, files
  <2>2. Good(out'[o], target[p])
    BY <1>1, <2>1, Zenon DEF Held, o
  <2>3. OutputIsAVersion'
    BY <1>1, <1>4, <2>1, Zenon DEF OutputIsAVersion
  <2>4. Held(p)'
    BY <1>6, <1>7, <2>1, <2>2, Zenon DEF Held, Running, Exports, Patches, i
  <2> QED
    BY <2>3, <2>4, Zenon DEF Kept
<1> QED
  BY <1>14, <1>15, <1>16, <1>17, <1>18, <1>19, <1>20, <1>21, Zenon

(* The daemon, whether or not the invocation it works for still runs,      *)
(* disturbs no one: it creates a file only where there is none, and writes *)
(* only to the file it created.                                            *)
LEMMA DaemonSteps ==
  ASSUME IInv, TypeOK', NEW p \in Proc, DaemonStep(p), NEW q \in Proc
  PROVE  Held(q)' /\ OutputIsAVersion'
<1> DEFINE o == path[q]
           i == idx[q]
           n == last(q)
<1>1. /\ Held(q) /\ OutputIsAVersion /\ o \in Path /\ i \in Index
      /\ here(q) = <<o, i>> /\ here(p) \in Slot /\ here(q) \in Slot
      /\ \A k \in Index : <<o, k>> \in Slot
  BY Zenon DEF IInv, TypeOK, here, Slot
<1>2. /\ job \in [Proc -> {"none", "asked", "open", "done", "failed"}]
      /\ tmp \in [Slot -> File \cup {NONE}]
      /\ out \in [Path -> File \cup {NONE}]
      /\ path[p] \in Path
      /\ TypeOK
  BY Zenon DEF IInv, TypeOK
<1>3. UNCHANGED <<pc, target, path, idx, work>>
  BY Zenon DEF DaemonStep, DealEnds, JobOpen, JobWrite, JobFails, cli, node, files
<1>4. here(q)' = here(q) /\ last(q)' = n /\ \A k : nth(q, k)' = nth(q, k)
  BY <1>3, Zenon DEF here, last, nth
<1>5. ASSUME
        out'[o] = NONE <=> out[o] = NONE,
        \A c : Good(out[o], c) => Good(out'[o], c),
        \A k \in Index : \A c : Good(tmp[<<o, k>>], c) => Good(tmp'[<<o, k>>], c),
        job'[q] \in {"asked", "open"} => job[q] \in {"asked", "open"},
        pc[q] = "idle" => job'[q] = job[q],
        pc[q] = "exporting" /\ job'[q] = "open" =>
          /\ tmp'[here(q)] # NONE
          /\ tmp'[here(q)].by = q
          /\ tmp'[here(q)].cid = nth(q, i),
        pc[q] = "exporting" /\ job'[q] = "done" => Good(tmp'[here(q)], nth(q, i))
      PROVE  Held(q)'
  <2>1. pc'[q] = pc[q] /\ idx'[q] = i /\ path'[q] = o /\ target'[q] = target[q]
    BY <1>3, Zenon
  <2>2. here(q)' = <<o, i>> /\ work'[<<o, i>>] = work[<<o, i>>]
    BY <1>1, <1>3, <1>4, Zenon
  <2> HIDE DEF o, i, n
  <2> QED
    BY <1>1, <1>4, <1>5, <2>1, <2>2, ZenonT(120) DEF Held, o, i, n
<1>0. pc[q] = "idle" => job[q] = "none"
  BY <1>1, Zenon DEF Held
<1> HIDE DEF o, i, n
<1>6. CASE DealEnds(p)
  <2>1. UNCHANGED <<job, tmp, out>>
    BY <1>6, Zenon DEF DealEnds, files
  <2>2. OutputIsAVersion'
    BY <1>1, <2>1, Zenon DEF OutputIsAVersion
  <2>3. Held(q)'
    BY <1>1, <1>5, <2>1, Zenon DEF Held, i, o
  <2> QED
    BY <2>2, <2>3, Zenon
<1>7. CASE JobFails(p)
  <2>1. UNCHANGED <<tmp, out>> /\ job' = [job EXCEPT ![p] = "failed"]
    BY <1>7, Zenon DEF JobFails, files
  <2>2. OutputIsAVersion'
    BY <1>1, <2>1, Zenon DEF OutputIsAVersion
  <2>3. /\ job'[q] = job[q] \/ job'[q] = "failed"
        /\ pc[q] = "idle" => job'[q] = job[q]
    BY <1>0, <1>2, <1>7, <2>1, Zenon DEF JobFails
  <2>4. Held(q)'
    BY <1>1, <1>5, <2>1, <2>3, Zenon DEF Held, i, o
  <2> QED
    BY <2>2, <2>4, Zenon
<1>8. CASE JobOpen(p)
  <2>0. UNCHANGED out /\ job[p] = "asked"
    BY <1>8, Zenon DEF JobOpen
  <2>1. OutputIsAVersion'
    BY <1>1, <2>0, Zenon DEF OutputIsAVersion
  <2>2. CASE tmp[here(p)] # NONE
    <3>1. UNCHANGED tmp /\ job' = [job EXCEPT ![p] = "failed"]
      BY <1>8, <2>2, Zenon DEF JobOpen
    <3>2. /\ job'[q] = job[q] \/ job'[q] = "failed"
          /\ pc[q] = "idle" => job'[q] = job[q]
      BY <1>0, <1>2, <2>0, <3>1, Zenon
    <3>3. Held(q)'
      BY <1>1, <1>5, <2>0, <3>1, <3>2, Zenon DEF Held, i, o
    <3> QED
      BY <2>1, <3>3, Zenon
  <2>3. CASE tmp[here(p)] = NONE
    <3> DEFINE f == [cid |-> nth(p, idx[p]), whole |-> FALSE, by |-> p]
    <3>1. tmp' = [tmp EXCEPT ![here(p)] = f] /\ job' = [job EXCEPT ![p] = "open"]
      BY <1>8, <2>3, Zenon DEF JobOpen, nth
    <3>2. f # NONE /\ f.by = p /\ f.cid = nth(p, idx[p])
      <4>0. idx[p] \in 0 .. MaxIndex /\ idx[p] <= last(p)
        BY Zenon DEF IInv, Held, TypeOK, Index
      <4>a. last(p) \in Nat
        BY <1>2, ChainFacts, Zenon
      <4>b. MaxIndex \in Nat
        BY RetrieveAssumption, Zenon
      <4>1. idx[p] \in 0 .. last(p)
        BY <4>0, <4>a, <4>b
      <4>2. nth(p, idx[p]) \in Cid
        BY <1>2, <4>1, ChainFacts, Zenon
      <4> QED
        BY <4>2, NewFile, Zenon
    <3> HIDE DEF f
    <3>3. \A s \in Slot : tmp[s] # NONE => tmp'[s] = tmp[s]
      BY <1>2, <2>3, <3>1, Zenon
    <3>4. \A k \in Index : \A c : Good(tmp[<<o, k>>], c) => Good(tmp'[<<o, k>>], c)
      BY <1>1, <3>3, Zenon DEF Good
    <3>5. CASE q = p
      <4>1. job'[q] = "open" /\ tmp'[here(q)] = f
        BY <1>1, <1>2, <3>1, <3>5, Zenon
      <4> QED
        BY <1>0, <1>5, <2>0, <2>1, <3>2, <3>4, <3>5, <4>1, Zenon DEF i
    <3>6. CASE q # p
      <4>1. job'[q] = job[q]
        BY <1>2, <3>1, <3>6, Zenon
      <4>2. pc[q] = "exporting" /\ job[q] = "open" =>
              /\ tmp[here(q)] # NONE /\ tmp[here(q)].by = q
              /\ tmp[here(q)].cid = nth(q, i)
        BY <1>1, Zenon DEF Held, i
      <4>3. pc[q] = "exporting" /\ job[q] = "done" => Good(tmp[here(q)], nth(q, i))
        BY <1>1, Zenon DEF Held, i
      <4>4. Good(tmp[here(q)], nth(q, i)) => Good(tmp'[here(q)], nth(q, i))
        BY <1>1, <3>4, Zenon
      <4>5. tmp[here(q)] # NONE => tmp'[here(q)] = tmp[here(q)]
        BY <1>1, <3>3, Zenon
      <4>6. Held(q)'
        BY <1>5, <2>0, <3>4, <4>1, <4>2, <4>3, <4>4, <4>5, Zenon
      <4> QED
        BY <2>1, <4>6, Zenon
    <3> QED
      BY <3>5, <3>6, Zenon
  <2> QED
    BY <2>2, <2>3, Zenon
<1>9. CASE JobWrite(p)
  <2>1. /\ job[p] = "open"
        /\ job' = [job EXCEPT ![p] = "done"]
        /\ tmp' = [tmp EXCEPT ![here(p)] = Written(tmp[here(p)], p)]
        /\ out' = [out EXCEPT ![path[p]] = Written(out[path[p]], p)]
    BY <1>9, Zenon DEF JobWrite
  <2>2. \A s \in Slot : tmp'[s] = tmp[s] \/ tmp'[s] = Written(tmp[s], p)
    BY <1>1, <1>2, <2>1, Zenon
  <2>3. \A x \in Path : out'[x] = out[x] \/ out'[x] = Written(out[x], p)
    BY <1>1, <1>2, <2>1, Zenon
  <2>4. \A x \in Path : /\ out'[x] = NONE <=> out[x] = NONE
                        /\ \A c : Good(out[x], c) => Good(out'[x], c)
    <3> TAKE x \in Path
    <3>1. out[x] \in File \cup {NONE}
      BY <1>2, Zenon
    <3>2. CASE out'[x] = out[x]
      BY <3>2, Zenon
    <3>3. CASE out'[x] = Written(out[x], p)
      BY <3>1, <3>3, WrittenIs, WrittenGood, Zenon
    <3> QED
      BY <2>3, <3>2, <3>3, Zenon
  <2>5. OutputIsAVersion'
    <3> SUFFICES ASSUME NEW x \in Path, out'[x] # NONE
                 PROVE  out'[x].whole /\ out'[x].cid # NONE
      BY Zenon DEF OutputIsAVersion
    <3>1. out[x] # NONE
      BY <2>4, Zenon
    <3>2. out[x].whole /\ out[x].cid # NONE
      BY <1>1, <3>1, Zenon DEF OutputIsAVersion
    <3>3. Good(out[x], out[x].cid)
      BY <3>1, <3>2, Zenon DEF Good
    <3>4. Good(out'[x], out[x].cid)
      BY <2>4, <3>3, Zenon
    <3> QED
      BY <3>2, <3>4, Zenon DEF Good
  <2>6. \A k \in Index : \A c : Good(tmp[<<o, k>>], c) => Good(tmp'[<<o, k>>], c)
    BY <1>1, <1>2, <2>2, WrittenGood, Zenon
  <2>7. CASE q = p
    <3>1. job'[q] = "done" /\ tmp'[here(q)] = Written(tmp[here(q)], q)
      BY <1>1, <1>2, <2>1, <2>7, Zenon
    <3>2. pc[q] = "exporting" =>
            /\ tmp[here(q)] # NONE /\ tmp[here(q)].by = q
            /\ tmp[here(q)].cid = nth(q, i)
      BY <1>1, <2>1, <2>7, Zenon DEF Held, i
    <3>3. pc[q] = "exporting" => Good(tmp'[here(q)], nth(q, i))
      <4> DEFINE f == tmp[here(q)]
      <4>1. f \in File \cup {NONE}
        BY <1>1, <1>2, Zenon
      <4> HIDE DEF f
      <4>2. f # NONE /\ f.by = q => /\ Written(f, q) # NONE
                                    /\ Written(f, q).cid = f.cid
                                    /\ Written(f, q).whole
        BY <4>1, WrittenIs, Zenon
      <4> QED
        BY <3>1, <3>2, <4>2, Zenon DEF Good, f
    <3>4. Held(q)'
      BY <1>0, <1>1, <1>5, <2>1, <2>4, <2>6, <2>7, <3>1, <3>3, Zenon
    <3> QED
      BY <2>5, <3>4, Zenon
  <2>8. CASE q # p
    <3>1. job'[q] = job[q]
      BY <1>2, <2>1, <2>8, Zenon
    <3>2. pc[q] = "exporting" /\ job[q] = "open" =>
            /\ tmp[here(q)] # NONE /\ tmp[here(q)].by = q
            /\ tmp[here(q)].cid = nth(q, i)
      BY <1>1, Zenon DEF Held, i
    <3>3. pc[q] = "exporting" /\ job[q] = "done" => Good(tmp[here(q)], nth(q, i))
      BY <1>1, Zenon DEF Held, i
    <3>4. Good(tmp[here(q)], nth(q, i)) => Good(tmp'[here(q)], nth(q, i))
      BY <1>1, <2>6, Zenon
    <3>5. tmp[here(q)] # NONE => /\ tmp'[here(q)] # NONE
                                 /\ tmp'[here(q)].by = tmp[here(q)].by
                                 /\ tmp'[here(q)].cid = tmp[here(q)].cid
      BY <1>1, <1>2, <2>2, WrittenIs, SMTT(120)
    <3>6. Held(q)'
      BY <1>1, <1>5, <2>4, <2>6, <3>1, <3>2, <3>3, <3>4, <3>5, Zenon
    <3> QED
      BY <2>5, <3>6, Zenon
  <2> QED
    BY <2>7, <2>8, Zenon
<1> QED
  BY <1>6, <1>7, <1>8, <1>9, Zenon DEF DaemonStep

----------------------------------------------------------------------------
LEMMA NextIInv ==
  ASSUME Exclusive
  PROVE  IInv /\ [Next]_vars => IInv'
<1> SUFFICES ASSUME IInv, [Next]_vars PROVE IInv'
  BY Zenon
<1>1. TypeOK /\ Alone /\ OutputIsAVersion /\ \A p \in Proc : Held(p)
  BY Zenon DEF IInv
<1>2. TypeOK'
  BY <1>1, NextType, Zenon DEF Held
<1>3. ASSUME NEW p \in Proc, ClientStep(p)
      PROVE  IInv'
  <2>1. Kept(p)
    BY <1>2, <1>3, ExportSteps, PatchSteps, Zenon DEF ClientStep
  <2>2. pc[p] \in Running /\ UNCHANGED cli
    BY <1>3, Zenon DEF ClientStep, RemoveTmp, ChooseSource, Subscribe, StartRetrieval,
       ReadEvent, Export, Exported, ExportFails, RenameRoot, RemoveWork, Bspatch,
       BspatchFails, RemoveOutput, RenameWork, RemovePatch, Report,
       Running, Exports, Patches
  <2>3. \A q \in Proc : q # p =>
          pc'[q] = pc[q] /\ idx'[q] = idx[q] /\ job'[q] = job[q]
    <3> SUFFICES ASSUME NEW q \in Proc, q # p
                 PROVE  pc'[q] = pc[q] /\ idx'[q] = idx[q] /\ job'[q] = job[q]
      BY Zenon
    <3>1. CASE \/ RemoveTmp(p) \/ ChooseSource(p) \/ Subscribe(p)
               \/ StartRetrieval(p) \/ ReadEvent(p) \/ Export(p)
               \/ Exported(p) \/ ExportFails(p)
      BY <1>1, <3>1 DEF TypeOK, Goto, RemoveTmp, ChooseSource, Subscribe,
         StartRetrieval, ReadEvent, Export, Exported, ExportFails
    <3>2. CASE \/ RenameRoot(p) \/ RemoveWork(p) \/ Bspatch(p) \/ BspatchFails(p)
               \/ RemoveOutput(p) \/ RenameWork(p) \/ RemovePatch(p) \/ Report(p)
      BY <1>1, <3>2, ZenonT(120) DEF TypeOK, Goto, RenameRoot, NextPatch, RemoveWork, Bspatch,
         BspatchFails, RemoveOutput, RenameWork, RemovePatch, Report
    <3> QED
      BY <1>3, <3>1, <3>2, Zenon DEF ClientStep
  <2>4. ASSUME NEW k \in Index, NEW o \in Path, o # path[p]
        PROVE  /\ tmp'[<<o, k>>] = tmp[<<o, k>>]
               /\ work'[<<o, k>>] = work[<<o, k>>]
               /\ out'[o] = out[o]
    <3>1. <<o, k>> \in Slot /\ <<o, k>> # here(p) /\ <<o, k>> # <<path[p], 0>>
      BY <2>4, Zenon DEF Slot, here
    <3>2. CASE \/ RemoveTmp(p) \/ ChooseSource(p) \/ Subscribe(p)
               \/ StartRetrieval(p) \/ ReadEvent(p) \/ Export(p)
               \/ Exported(p) \/ ExportFails(p)
      BY <1>1, <2>4, <3>1, <3>2, Zenon DEF TypeOK, RemoveTmp, ChooseSource, Subscribe,
         StartRetrieval, ReadEvent, Export, Exported, ExportFails, files
    <3>3. CASE RenameRoot(p) \/ RemoveWork(p) \/ Bspatch(p) \/ BspatchFails(p)
      BY <1>1, <2>4, <3>1, <3>3, Zenon DEF TypeOK, RenameRoot, RemoveWork, Bspatch,
         BspatchFails, files
    <3>4. CASE RemoveOutput(p) \/ RenameWork(p) \/ RemovePatch(p) \/ Report(p)
      BY <1>1, <2>4, <3>1, <3>4, Zenon DEF TypeOK, RemoveOutput, RenameWork, RemovePatch,
         Report, files
    <3> QED
      BY <1>3, <3>2, <3>3, <3>4, Zenon DEF ClientStep
  <2>5. Live(p)
    BY <2>2, Zenon DEF Live
  <2>6. \A q \in Proc : q # p => Held(q)'
    BY <2>2, <2>3, <2>4, <2>5, Frame, Zenon
  <2>7. Alone'
    BY <1>1, <2>2, <2>3, <2>5, AloneStep, Zenon DEF cli
  <2> QED
    BY <1>2, <2>1, <2>6, <2>7, Zenon DEF IInv, Kept
<1>4. ASSUME NEW p \in Proc, DaemonStep(p)
      PROVE  IInv'
  <2>1. OutputIsAVersion' /\ \A q \in Proc : Held(q)'
    BY <1>2, <1>4, DaemonSteps, Zenon
  <2>2. UNCHANGED <<pc, path>>
    BY <1>4, Zenon DEF DaemonStep, DealEnds, JobOpen, JobWrite, JobFails, cli
  <2>3. Alone'
    BY <1>1, <2>2, Zenon DEF Alone, Live
  <2> QED
    BY <1>2, <2>1, <2>3, Zenon DEF IInv
<1>5. ASSUME NEW p \in Proc, Begin(p)
      PROVE  IInv'
  <2>1. /\ pc[p] = "idle" /\ UNCHANGED <<target, path, idx, job, tmp, work, out>>
        /\ \A q \in Proc : path[q] = path[p] => pc[q] \notin Running
        /\ pc' = [pc EXCEPT ![p] =
                    IF out[path[p]] = NONE THEN "removetmp" ELSE "failed"]
    BY <1>5, Zenon DEF Begin, Goto, cli, files
  <2>2. OutputIsAVersion'
    BY <1>1, <2>1, Zenon DEF OutputIsAVersion
  <2>3. \A q \in Proc : q # p => Held(q)' /\ pc'[q] = pc[q]
    <3>1. \A q \in Proc : q # p => pc'[q] = pc[q]
      BY <1>1, <2>1, Zenon DEF TypeOK
    <3> QED
      BY <1>1, <2>1, <3>1, HeldSame, Zenon
  <2>4. CASE out[path[p]] = NONE
    <3>1. pc'[p] = "removetmp"
      BY <1>1, <2>1, <2>4, Zenon DEF TypeOK
    <3>2. idx[p] = 0 /\ job[p] = "none" /\ 0 <= last(p)
      BY <1>1, <2>1, Zenon DEF Held
    <3>3. \A k \in Index : ~(k < 0)
      BY RetrieveAssumption DEF Index
    <3>4. Held(p)'
      BY <2>1, <2>4, <3>1, <3>2, <3>3, Zenon DEF Held, last, Running, Exports, Patches
    <3>5. \A q \in Proc : Live(q) => path[q] # path[p]
      BY <1>1, <2>1, <2>4, Zenon DEF Live, Held, Good
    <3>6. Alone'
      <4>1. path' = path /\ \A q \in Proc : q # p => (Live(q)' <=> Live(q))
        BY <2>1, <2>3, Zenon DEF Live
      <4>2. \A q, r \in Proc :
              Live(q)' /\ Live(r)' /\ path'[q] = path'[r] => q = r
        BY <1>1, <3>5, <4>1, Zenon DEF Alone
      <4> QED
        BY <4>2, Zenon DEF Alone
    <3>7. \A q \in Proc : Held(q)'
      BY <2>3, <3>4, Zenon
    <3> QED
      BY <1>2, <2>2, <3>6, <3>7, Zenon DEF IInv
  <2>5. CASE out[path[p]] # NONE
    <3>1. pc'[p] = "failed"
      BY <1>1, <2>1, <2>5, Zenon DEF TypeOK
    <3>2. Held(p)'
      BY <1>1, <2>1, <3>1, HeldFailed, Zenon
    <3>3. Alone'
      BY <1>1, <2>1, <2>3, <3>1, SMTT(120) DEF Alone, Live, Running, Exports, Patches
    <3>4. \A q \in Proc : Held(q)'
      BY <2>3, <3>2, Zenon
    <3> QED
      BY <1>2, <2>2, <3>3, <3>4, Zenon DEF IInv
  <2> QED
    BY <2>4, <2>5, Zenon
<1>6. ASSUME NEW p \in Proc, ConnectionLost(p)
      PROVE  IInv'
  <2>1. UNCHANGED <<pc, target, path, idx, job, tmp, work, out>>
    BY <1>6, Zenon DEF ConnectionLost, cli, files
  <2>2. \A q \in Proc : Held(q)'
    BY <1>1, <2>1, HeldSame, Zenon
  <2> QED
    BY <1>1, <1>2, <2>1, <2>2, Zenon DEF IInv, Alone, Live, OutputIsAVersion
<1>7. ASSUME NEW p \in Proc, Fail(p)
      PROVE  IInv'
  <2>1. /\ UNCHANGED <<target, path, idx, job, tmp, work, out>>
        /\ pc[p] \in Running /\ pc' = [pc EXCEPT ![p] = "failed"]
    BY <1>7, Zenon DEF Fail, Goto, cli, files
  <2>2. pc'[p] = "failed" /\ \A q \in Proc : q # p => pc'[q] = pc[q]
    BY <1>1, <2>1, Zenon DEF TypeOK
  <2>3. \A q \in Proc : q # p => Held(q)'
    BY <1>1, <2>1, <2>2, HeldSame, Zenon
  <2>4. Held(p)'
    BY <1>1, <2>1, <2>2, HeldFailed, Zenon
  <2>5. Alone'
    BY <1>1, <2>1, <2>2, Zenon DEF Alone, Live
  <2> QED
    BY <1>1, <1>2, <2>1, <2>3, <2>4, <2>5, Zenon DEF IInv, OutputIsAVersion
<1>8. ASSUME NEW o \in Path, CleanUp(o)
      PROVE  IInv'
  <2>1. /\ UNCHANGED <<pc, target, path, idx, job, tmp, work>>
        /\ \A q \in Proc : path[q] = o => pc[q] \in {"idle", "failed"}
        /\ out' = [out EXCEPT ![o] = NONE]
    BY <1>8, Zenon DEF CleanUp, cli
  <2>2. \A x \in Path : out'[x] = out[x] \/ (x = o /\ out'[x] = NONE)
    BY <1>1, <2>1, Zenon DEF TypeOK
  <2>3. \A q \in Proc : Held(q)'
    <3> SUFFICES ASSUME NEW q \in Proc PROVE Held(q)'
      BY Zenon
    <3>1. path[q] \in Path
      BY <1>1, Zenon DEF TypeOK
    <3>2. CASE path[q] = o
      <4>1. /\ pc'[q] \in {"idle", "failed"} /\ idx'[q] <= last(q)'
            /\ pc'[q] = "idle" => idx'[q] = 0 /\ job'[q] = "none"
        BY <1>1, <2>1, <3>2, Zenon DEF Held, last
      <4> QED
        BY <4>1, Zenon DEF Held, Running, Exports, Patches
    <3>3. CASE path[q] # o
      <4>1. out'[path[q]] = out[path[q]]
        BY <2>2, <3>1, <3>3, Zenon
      <4> QED
        BY <1>1, <2>1, <4>1, Zenon DEF Held, here, last, nth
    <3> QED
      BY <3>2, <3>3, Zenon
  <2> QED
    BY <1>1, <1>2, <2>1, <2>2, <2>3, Zenon DEF IInv, Alone, Live, OutputIsAVersion
<1>9. CASE UNCHANGED vars
  <2>1. UNCHANGED <<pc, target, path, idx, job, tmp, work, out>>
    BY <1>9, Zenon DEF vars, cli, files
  <2>2. \A q \in Proc : Held(q)'
    BY <1>1, <2>1, HeldSame, Zenon
  <2> QED
    BY <1>1, <1>2, <2>1, <2>2, Zenon DEF IInv, Alone, Live, OutputIsAVersion
<1> QED
  BY <1>3, <1>4, <1>5, <1>6, <1>7, <1>8, <1>9, Zenon DEF Next

(* While no two invocations use one output path, every variable keeps its  *)
(* type.                                                                   *)
THEOREM TypeCorrect ==
  ASSUME Exclusive
  PROVE  Spec => []TypeOK
<1>1. IInv => TypeOK
  BY Zenon DEF IInv
<1> QED
  BY <1>1, InitIInv, NextIInv, PTL DEF Spec

(* For every chain, every number of invocations and every point at which   *)
(* they fail or are killed: a path reported to hold a version holds it.    *)
THEOREM ReconstructionSound ==
  ASSUME Exclusive
  PROVE  Spec => []ReconstructedIsRequested
<1>1. IInv => ReconstructedIsRequested
  BY Zenon DEF IInv, ReconstructedIsRequested, Held, Good
<1> QED
  BY <1>1, InitIInv, NextIInv, PTL DEF Spec

(* And nothing but whole versions ever stands at an output path. *)
THEOREM OutputSound ==
  ASSUME Exclusive
  PROVE  Spec => []OutputIsAVersion
<1>1. IInv => OutputIsAVersion
  BY Zenon DEF IInv
<1> QED
  BY <1>1, InitIInv, NextIInv, PTL DEF Spec
============================================================================
