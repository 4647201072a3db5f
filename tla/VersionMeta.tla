---------------------------- MODULE VersionMeta ----------------------------
(***************************************************************************)
(* The version metadata that `lotus client deal --create / --update` keeps *)
(* in the working directory, and the two walks over it: `list-version`     *)
(* (forward, along the heads) and the resolution phase of                  *)
(* `retrieve-version` (backward, along the previous links).                *)
(*                                                                         *)
(* Each invocation is an operating-system process.  Nothing locks the      *)
(* files, so the invocations interleave between system calls, and an       *)
(* invocation may be killed (opendsn-api starts it with CommandContext) or *)
(* fail at any of them.                                                    *)
(*                                                                         *)
(* <cid>_meta has two meaningful lines, the previous cid and the head      *)
(* (next) cid.  os.WriteFile truncates and then writes, so a reader may    *)
(* find the file empty ("torn").  When two writers overlap, the later      *)
(* write replaces the first two lines: every line is either NULL or a cid, *)
(* and what may remain of a longer earlier text is a third line, which no  *)
(* reader looks at.                                                        *)
(***************************************************************************)
EXTENDS Naturals, Sequences, Functions

CONSTANTS
  Invocation, \* the CLI processes
  Cid,        \* the data cids that are dealt
  Request,    \* the argument combinations `client deal` is called with
  NULL        \* the literal NULL of a metadata line; as prev, no --previous

Link == Cid \cup {NULL}

ASSUME RequestAssumption ==
  /\ NULL \notin Cid
  /\ Request \subseteq [create : BOOLEAN, update : BOOLEAN,
                        cid : Cid, prev : Link]

VARIABLES
  meta,      \* <cid>_meta, for every cid
  fileroots, \* fileroots.log
  dealt,     \* cids for which ClientStartDeal has succeeded
  pc,        \* where each invocation is
  abortedAt, \* where an aborted invocation stopped
  req,       \* the arguments of each `client deal`
  kept,      \* lines[0] of the previous version's metadata, read by --update
  walk       \* the state of each list-version or retrieve-version

vars == <<meta, fileroots, dealt, pc, abortedAt, req, kept, walk>>

DealLoc == {"startDeal", "appendRoot", "truncRoot", "writeRoot",
            "readPrev", "truncPrev", "writePrev", "truncCur", "writeCur"}
WalkLoc == {"stat", "list", "resolve"}
Running == DealLoc \cup WalkLoc
Ended   == {"done", "resolved", "failed", "aborted"}

MetaFile == [status : {"absent", "torn", "full"}, prev : Link, head : Link]
Absent   == [status |-> "absent", prev |-> NULL, head |-> NULL]
Torn     == [status |-> "torn", prev |-> NULL, head |-> NULL]
Full(p, h) == [status |-> "full", prev |-> p, head |-> h]

NoRequest == [create |-> FALSE, update |-> FALSE, cid |-> NULL, prev |-> NULL]

Walk == [target : Link, cur : Link, visited : SUBSET Cid, chain : Seq(Cid)]
NewWalk(c, s) == [target |-> c, cur |-> c, visited |-> {}, chain |-> s]
NoWalk == NewWalk(NULL, <<>>)

Init ==
  /\ meta = [c \in Cid |-> Absent]
  /\ fileroots = <<>>
  /\ dealt = {}
  /\ pc = [p \in Invocation |-> "idle"]
  /\ abortedAt = [p \in Invocation |-> "none"]
  /\ req = [p \in Invocation |-> NoRequest]
  /\ kept = [p \in Invocation |-> NULL]
  /\ walk = [p \in Invocation |-> NoWalk]

Goto(p, loc) == pc' = [pc EXCEPT ![p] = loc]
At(p, loc)   == pc[p] = loc

----------------------------------------------------------------------------
(* client deal *)

(* The combinations of --create, --update and --previous that are refused. *)
BadFlags(r) ==
  \/ r.create /\ r.update
  \/ r.create /\ r.prev # NULL
  \/ r.update /\ r.prev = NULL

DealBegin(p, r) ==
  /\ At(p, "idle")
  /\ req' = [req EXCEPT ![p] = r]
  /\ Goto(p, IF BadFlags(r) THEN "failed" ELSE "startDeal")
  /\ UNCHANGED <<meta, fileroots, dealt, abortedAt, kept, walk>>

(* Mutant: the root's metadata is written without logging the root. *)
AfterDealUnlogged(r) ==
  IF r.create THEN "truncRoot" ELSE IF r.update THEN "readPrev" ELSE "done"

AfterDeal(r) ==
  IF r.create THEN "appendRoot" ELSE IF r.update THEN "readPrev" ELSE "done"

(* ClientStartDeal returned a proposal.  Its failure is an Abort. *)
StartDeal(p) ==
  /\ At(p, "startDeal")
  /\ dealt' = dealt \cup {req[p].cid}
  /\ Goto(p, AfterDeal(req[p]))
  /\ UNCHANGED <<meta, fileroots, abortedAt, req, kept, walk>>

(* --create: append the root to fileroots.log, then write its metadata. *)
AppendRoot(p) ==
  /\ At(p, "appendRoot")
  /\ fileroots' = Append(fileroots, req[p].cid)
  /\ Goto(p, "truncRoot")
  /\ UNCHANGED <<meta, dealt, abortedAt, req, kept, walk>>

(* os.WriteFile: open with O_TRUNC ... *)
Truncate(p, c, from, to) ==
  /\ At(p, from)
  /\ meta' = [meta EXCEPT ![c] = Torn]
  /\ Goto(p, to)
  /\ UNCHANGED <<fileroots, dealt, abortedAt, req, kept, walk>>

(* ... then write. *)
WriteLines(p, c, prev, head, from, to) ==
  /\ At(p, from)
  /\ meta' = [meta EXCEPT ![c] = Full(prev, head)]
  /\ Goto(p, to)
  /\ UNCHANGED <<fileroots, dealt, abortedAt, req, kept, walk>>

TruncRoot(p) == Truncate(p, req[p].cid, "truncRoot", "writeRoot")
WriteRoot(p) == WriteLines(p, req[p].cid, NULL, NULL, "writeRoot", "done")

(* os.ReadFile succeeds and there are at least two lines. *)
Readable(m) == m.status = "full"

(* Mutant: the second line is kept instead. *)
KeptLineHead(m) == m.head

(* lines[0], which --update writes back unchanged. *)
KeptLine(m) == m.prev

(* Mutant: an unreadable previous version is waited for. *)
ReadPrevWaits(p) ==
  /\ At(p, "readPrev")
  /\ Readable(meta[req[p].prev])
  /\ kept' = [kept EXCEPT ![p] = KeptLine(meta[req[p].prev])]
  /\ Goto(p, "truncPrev")
  /\ UNCHANGED <<meta, fileroots, dealt, abortedAt, req, walk>>

(* --update: read the previous version's metadata; a missing or short file *)
(* ends the invocation, after the deal was started.                        *)
ReadPrev(p) ==
  /\ At(p, "readPrev")
  /\ LET m == meta[req[p].prev] IN
       IF Readable(m)
       THEN /\ kept' = [kept EXCEPT ![p] = KeptLine(m)]
            /\ Goto(p, "truncPrev")
       ELSE /\ kept' = kept
            /\ Goto(p, "failed")
  /\ UNCHANGED <<meta, fileroots, dealt, abortedAt, req, walk>>

(* Put the new cid on the second line of the previous version's metadata. *)
TruncPrev(p) == Truncate(p, req[p].prev, "truncPrev", "writePrev")
WritePrev(p) ==
  WriteLines(p, req[p].prev, kept[p], req[p].cid, "writePrev", "truncCur")

(* Then write the new version's own metadata. *)
TruncCur(p) == Truncate(p, req[p].cid, "truncCur", "writeCur")
(* Mutant: the write goes to the previous version's file. *)
WriteCurToPrev(p) ==
  WriteLines(p, req[p].prev, req[p].prev, NULL, "writeCur", "done")

WriteCur(p) ==
  WriteLines(p, req[p].cid, req[p].prev, NULL, "writeCur", "done")

----------------------------------------------------------------------------
(* Mutant: cycles are not detected. *)
SeenNever(w) == FALSE

(* Both walks stop with an error at a cid they have visited before. *)
Seen(w) == w.cur \in w.visited

(* client list-version, and GET /api/client/versions *)

ListBegin(p, root) ==
  /\ At(p, "idle")
  /\ walk' = [walk EXCEPT ![p] = NewWalk(root, <<>>)]
  /\ Goto(p, "stat")
  /\ UNCHANGED <<meta, fileroots, dealt, abortedAt, req, kept>>

(* os.Stat: a root without metadata is reported and the walk not begun. *)
ListStat(p) ==
  /\ At(p, "stat")
  /\ IF meta[walk[p].cur].status = "absent"
     THEN walk' = walk /\ Goto(p, "failed")
     ELSE /\ walk' = [walk EXCEPT ![p] = NewWalk(walk[p].cur, <<walk[p].cur>>)]
          /\ Goto(p, "list")
  /\ UNCHANGED <<meta, fileroots, dealt, abortedAt, req, kept>>

(* One turn of the loop: read the current metadata, follow its head. *)
ListStep(p) ==
  /\ At(p, "list")
  /\ LET w == walk[p]
         m == meta[w.cur]
     IN IF Seen(w) \/ ~Readable(m)
        THEN walk' = walk /\ Goto(p, "failed")
        ELSE IF m.head = NULL
        THEN walk' = walk /\ Goto(p, "done")
        ELSE /\ walk' = [walk EXCEPT ![p] =
                  [target |-> w.target, cur |-> m.head,
                   visited |-> w.visited \cup {w.cur},
                   chain |-> Append(w.chain, m.head)]]
             /\ pc' = pc
  /\ UNCHANGED <<meta, fileroots, dealt, abortedAt, req, kept>>

----------------------------------------------------------------------------
(* client retrieve-version: resolving the version chain *)

RetrieveBegin(p, target) ==
  /\ At(p, "idle")
  /\ walk' = [walk EXCEPT ![p] = NewWalk(target, <<>>)]
  /\ Goto(p, "resolve")
  /\ UNCHANGED <<meta, fileroots, dealt, abortedAt, req, kept>>

(* One turn of the loop: read the current metadata, put the current cid in *)
(* front of the chain, follow its previous link.                           *)
ResolveStep(p) ==
  /\ At(p, "resolve")
  /\ LET w == walk[p]
         m == meta[w.cur]
     IN IF Seen(w) \/ ~Readable(m)
        THEN walk' = walk /\ Goto(p, "failed")
        ELSE /\ walk' = [walk EXCEPT ![p] =
                  [target |-> w.target,
                   cur |-> IF m.prev = NULL THEN w.cur ELSE m.prev,
                   visited |-> w.visited \cup {w.cur},
                   chain |-> <<w.cur>> \o w.chain]]
             /\ Goto(p, IF m.prev = NULL THEN "resolved" ELSE "resolve")
  /\ UNCHANGED <<meta, fileroots, dealt, abortedAt, req, kept>>

----------------------------------------------------------------------------
(* A failed system call or API call, or a kill. *)
Abort(p) ==
  /\ pc[p] \in Running
  /\ abortedAt' = [abortedAt EXCEPT ![p] = pc[p]]
  /\ Goto(p, "aborted")
  /\ UNCHANGED <<meta, fileroots, dealt, req, kept, walk>>

Begin(p) ==
  \/ \E r \in Request : DealBegin(p, r)
  \/ \E c \in Cid : ListBegin(p, c)
  \/ \E c \in Cid : RetrieveBegin(p, c)

Step(p) ==
  \/ StartDeal(p)
  \/ AppendRoot(p)
  \/ TruncRoot(p)
  \/ WriteRoot(p)
  \/ ReadPrev(p)
  \/ TruncPrev(p)
  \/ WritePrev(p)
  \/ TruncCur(p)
  \/ WriteCur(p)
  \/ ListStat(p)
  \/ ListStep(p)
  \/ ResolveStep(p)

Next == \E p \in Invocation : Begin(p) \/ Step(p) \/ Abort(p)

Spec == Init /\ [][Next]_vars

(* A started process keeps running, or is killed. *)
FairSpec == Spec /\ \A p \in Invocation : WF_vars(Step(p))

----------------------------------------------------------------------------
(* Properties *)

(* Every variable has its type. *)
TypeOK ==
  /\ meta \in [Cid -> MetaFile]
  /\ fileroots \in Seq(Cid)
  /\ dealt \subseteq Cid
  /\ pc \in [Invocation -> {"idle"} \cup Running \cup Ended]
  /\ abortedAt \in [Invocation -> {"none"} \cup Running]
  /\ req \in [Invocation -> Request \cup {NoRequest}]
  /\ kept \in [Invocation -> Link]
  /\ walk \in [Invocation -> Walk]

(* The requests so far that were not refused; those that write metadata    *)
(* for c as the successor of p, and those that write it as a root.         *)
Requested == {req[p] : p \in {q \in Invocation : ~BadFlags(req[q])}}
Updates(p, c) == \E r \in Requested : r.update /\ r.prev = p /\ r.cid = c
Creates(c)    == \E r \in Requested : r.create /\ r.cid = c

IsVersionPath(s) == \A i \in 1 .. Len(s) - 1 : Updates(s[i], s[i + 1])
Distinct(s) == \A i, j \in DOMAIN s : s[i] = s[j] => i = j

(* What retrieve-version hands to the retrieval loop, whatever deals ran,  *)
(* died or were repeated while it read the files: a chain that ends in the *)
(* requested cid, begins at a root recorded in fileroots.log, follows      *)
(* updates that had been requested, repeats no cid, and holds only data    *)
(* for which a deal was started.                                           *)
ResolvedChainSound ==
  \A p \in Invocation : pc[p] = "resolved" =>
    LET s == walk[p].chain IN
      /\ s # <<>>
      /\ s[Len(s)] = walk[p].target
      /\ Creates(s[1])
      /\ s[1] \in Range(fileroots)
      /\ IsVersionPath(s)
      /\ Distinct(s)
      /\ Range(s) \subseteq dealt

(* What list-version prints when it reports no error: the root it was      *)
(* given, then versions each of which was requested as an update of the    *)
(* one before it, none twice.                                              *)
ListedChainSound ==
  \A p \in Invocation : pc[p] = "done" /\ walk[p].target # NULL =>
    LET s == walk[p].chain IN
      /\ s # <<>>
      /\ s[1] = walk[p].target
      /\ IsVersionPath(s)
      /\ Distinct(s)

(* Where an invocation is, or was when it died. *)
Location(p) == IF pc[p] = "aborted" THEN abortedAt[p] ELSE pc[p]

(* A metadata file is found empty only while an invocation is between the  *)
(* truncation and the write of that very file, or because one died there;  *)
(* and a head without metadata is the new version of an update that has    *)
(* linked it and has not yet reached, or died before reaching, its file.   *)
BrokenOnlyByAWriter ==
  \A c \in Cid :
    /\ meta[c].status = "torn" => \E p \in Invocation :
         \/ Location(p) \in {"writeRoot", "writeCur"} /\ req[p].cid = c
         \/ Location(p) = "writePrev" /\ req[p].prev = c
    /\ meta[c].head # NULL /\ meta[meta[c].head].status = "absent" =>
         \E p \in Invocation :
            /\ Location(p) = "truncCur"
            /\ req[p].prev = c
            /\ req[p].cid = meta[c].head

(* Every cid was requested under one previous version only: patches are    *)
(* bsdiff outputs, so a patch belongs to the version it was made from.     *)
ContentBound ==
  \A r1, r2 \in {r \in Requested : r.create \/ r.update} :
    r1.cid = r2.cid => r1.prev = r2.prev

(* No invocation is running and none died. *)
Quiet == \A p \in Invocation : pc[p] \in {"idle", "done", "resolved", "failed"}

(* Once all invocations have come to their own end, the links agree in     *)
(* both directions: the previous version of a version has metadata, the    *)
(* head of a version names that version as its previous one, and every     *)
(* recorded root has metadata.                                             *)
QuietLinksAgree ==
  Quiet /\ ContentBound =>
    /\ \A c \in Cid : meta[c].status = "full" =>
         /\ meta[c].prev # NULL => meta[meta[c].prev].status = "full"
         /\ meta[c].head # NULL =>
              /\ meta[meta[c].head].status = "full"
              /\ meta[meta[c].head].prev = c
    /\ \A c \in Range(fileroots) : meta[c].status = "full"

(* Following the heads from a root leads to every version of that file.    *)
EveryVersionListed ==
  Quiet => \A c \in Cid : meta[c].status = "full" /\ meta[c].prev # NULL =>
             meta[meta[c].prev].head = c

(* Every invocation comes to an end, cycles in the metadata included.      *)
InvocationsEnd ==
  \A p \in Invocation : pc[p] \in Running ~> pc[p] \in Ended

----------------------------------------------------------------------------
(* The inductive strengthening of TypeOK, ResolvedChainSound and           *)
(* ListedChainSound.                                                       *)

(* What an invocation may rely on at each step of `client deal`. *)
DealInv ==
  \A p \in Invocation :
    /\ pc[p] = "idle" => req[p] = NoRequest
    /\ pc[p] \in DealLoc => req[p] \in Request /\ ~BadFlags(req[p])
    /\ pc[p] \in {"appendRoot", "truncRoot", "writeRoot"} => req[p].create
    /\ pc[p] \in {"readPrev", "truncPrev", "writePrev", "truncCur", "writeCur"}
         => req[p].update
    /\ pc[p] \in DealLoc \ {"startDeal"} => req[p].cid \in dealt
    /\ pc[p] \in {"truncRoot", "writeRoot"} => req[p].cid \in Range(fileroots)

(* prev is a previous link that some request wrote for c. *)
GoodLink(c, prev) ==
  /\ c \in dealt
  /\ prev = NULL => Creates(c) /\ c \in Range(fileroots)
  /\ prev # NULL => Updates(prev, c)

LinkInv ==
  /\ \A c \in Cid : meta[c].status = "full" =>
       /\ GoodLink(c, meta[c].prev)
       /\ meta[c].head # NULL => Updates(c, meta[c].head)
  /\ \A p \in Invocation : pc[p] \in {"truncPrev", "writePrev"} =>
       GoodLink(req[p].prev, kept[p])

(* The list-version walk w has printed its chain up to w.cur. *)
Listing(w) ==
  /\ w.chain # <<>>
  /\ w.chain[1] = w.target
  /\ w.chain[Len(w.chain)] = w.cur
  /\ IsVersionPath(w.chain)
  /\ w.visited = {w.chain[i] : i \in 1 .. Len(w.chain) - 1}
  /\ \A i, j \in 1 .. Len(w.chain) - 1 : w.chain[i] = w.chain[j] => i = j

(* The retrieve-version walk w has collected its chain down to the         *)
(* successor of w.cur.                                                     *)
Resolving(w) ==
  /\ w.visited = Range(w.chain)
  /\ IsVersionPath(w.chain)
  /\ Distinct(w.chain)
  /\ w.chain = <<>> => w.cur = w.target
  /\ w.chain # <<>> => /\ w.chain[Len(w.chain)] = w.target
                       /\ Updates(w.cur, w.chain[1])

WalkInv ==
  \A p \in Invocation :
    /\ pc[p] \in WalkLoc => walk[p].cur \in Cid /\ walk[p].target \in Cid
    /\ pc[p] = "stat" => walk[p].cur = walk[p].target
    /\ pc[p] = "list" => Listing(walk[p])
    /\ pc[p] = "resolve" => /\ Resolving(walk[p])
                            /\ Range(walk[p].chain) \subseteq dealt
    /\ pc[p] \in {"idle"} \cup DealLoc => walk[p] = NoWalk

IInv ==
  /\ TypeOK
  /\ DealInv
  /\ LinkInv
  /\ WalkInv
  /\ ResolvedChainSound
  /\ ListedChainSound

(* For QuietLinksAgree: a file that exists never goes away again, so the   *)
(* files a deal or a metadata file relies on exist: the one a previous     *)
(* link names, the one --update has read and the one before that.  A       *)
(* recorded root has its file, unless the deal that recorded it has not    *)
(* reached the file, or died before.                                       *)
PresentInv ==
  /\ \A c \in Cid : meta[c].status = "full" /\ meta[c].prev # NULL =>
       meta[meta[c].prev].status # "absent"
  /\ \A p \in Invocation :
       /\ pc[p] \in {"truncPrev", "writePrev", "truncCur", "writeCur"} =>
            meta[req[p].prev].status # "absent"
       /\ pc[p] \in {"truncPrev", "writePrev"} /\ kept[p] # NULL =>
            meta[kept[p]].status # "absent"
  /\ \A c \in Range(fileroots) : meta[c].status = "absent" =>
       \E p \in Invocation : Location(p) = "truncRoot" /\ req[p].cid = c

StandInv == IInv /\ BrokenOnlyByAWriter /\ PresentInv
============================================================================
