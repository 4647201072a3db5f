--------------------------- MODULE RetrieveVersion ---------------------------
(***************************************************************************)
(* `lotus client retrieve-version` after it has resolved the version       *)
(* chain: every cid of the chain is retrieved and exported by the daemon   *)
(* to <output>_tmp_<i>, the root is renamed to <output>, and the patches   *)
(* are applied one by one through <output>_work_<i>.                       *)
(*                                                                         *)
(* The content of a file is named by a cid: in tmp the data stored under   *)
(* that cid (a whole file for a root, a patch for another version), in out *)
(* and work the version with that cid.                                     *)
(***************************************************************************)
EXTENDS Integers, Sequences

CONSTANTS
  Proc,      \* invocations
  Cid, Path,
  Chain,     \* the chain resolved for each cid
  Prev,      \* the version each cid was made from
  MaxIndex,  \* bound: the index of the last patch of a chain
  Exclusive, \* no two invocations run on one output path
  NONE

ASSUME RetrieveAssumption ==
  /\ MaxIndex \in Nat
  /\ NONE \notin Cid
  /\ NONE \notin [cid : Cid \cup {NONE}, whole : BOOLEAN, by : Proc]
  /\ Prev \in [Cid -> Cid \cup {NONE}]
  /\ Chain \in [Cid -> Seq(Cid)]
  /\ \A c \in Cid :
       /\ Len(Chain[c]) \in 1 .. MaxIndex + 1
       /\ Chain[c][Len(Chain[c])] = c
       /\ Prev[Chain[c][1]] = NONE
       /\ \A k \in 1 .. Len(Chain[c]) - 1 : Prev[Chain[c][k + 1]] = Chain[c][k]

VARIABLES
  pc, target, path,
  idx,    \* the loop variable i
  sub,    \* the subscription to retrieval events is open
  deal,   \* the retrieval deal of the current cid, at the daemon
  inbox,  \* its final event, sent and not yet read
  job,    \* the daemon's export for the current cid
  tmp, work, out

cli   == <<target, path>>
node  == <<sub, deal, inbox>>
files == <<tmp, work, out>>
vars  == <<pc, cli, idx, node, job, files>>

Index   == 0 .. MaxIndex
File    == [cid : Cid \cup {NONE}, whole : BOOLEAN, by : Proc]
Slot    == Path \X Index
Exports == {"removetmp", "retrieve", "subscribe", "start", "events", "export",
            "exporting"}
Patches == {"rmwork", "bspatch", "rmout", "mvwork", "rmpatch"}
Running == Exports \cup {"rename", "report"} \cup Patches
Ended   == {"done", "failed"}

here(p) == <<path[p], idx[p]>>
last(p) == Len(Chain[target[p]]) - 1
Goto(p, loc) == pc' = [pc EXCEPT ![p] = loc]

Init ==
  /\ pc = [p \in Proc |-> "idle"]
  /\ target \in [Proc -> Cid]
  /\ path \in [Proc -> Path]
  /\ idx = [p \in Proc |-> 0]
  /\ sub = [p \in Proc |-> FALSE]
  /\ deal = [p \in Proc |-> "none"]
  /\ inbox = [p \in Proc |-> {}]
  /\ job = [p \in Proc |-> "none"]
  /\ tmp = [s \in Slot |-> NONE]
  /\ work = [s \in Slot |-> NONE]
  /\ out = [o \in Path |-> NONE]

(* Start; an output path that exists is refused. *)
Begin(p) ==
  /\ pc[p] = "idle"
  /\ Exclusive => \A q \in Proc : path[q] = path[p] => pc[q] \notin Running
  /\ Goto(p, IF out[path[p]] = NONE THEN "removetmp" ELSE "failed")
  /\ UNCHANGED <<cli, idx, node, job, files>>

----------------------------------------------------------------------------
(* Retrieving and exporting one cid of the chain. *)

RemoveTmp(p) ==
  /\ pc[p] = "removetmp"
  /\ tmp' = [tmp EXCEPT ![here(p)] = NONE]
  /\ Goto(p, "retrieve")
  /\ UNCHANGED <<cli, idx, node, job, work, out>>

(* A local import needs no retrieval; otherwise an offer has to be found. *)
ChooseSource(p) ==
  /\ pc[p] = "retrieve"
  /\ \E loc \in {"export", "subscribe"} : Goto(p, loc)
  /\ UNCHANGED <<cli, idx, node, job, files>>

(* Subscribe to the events of all retrievals... *)
Subscribe(p) ==
  /\ pc[p] = "subscribe"
  /\ sub' = [sub EXCEPT ![p] = TRUE]
  /\ inbox' = [inbox EXCEPT ![p] = {}]
  /\ Goto(p, "start")
  /\ UNCHANGED <<cli, idx, deal, job, files>>

(* Mutant: the retrieval begins first, and may end before the subscription. *)
StartRetrievalFirst(p) ==
  /\ pc[p] = "start"
  /\ \E s \in {"ongoing", "completed"} : deal' = [deal EXCEPT ![p] = s]
  /\ Goto(p, "events")
  /\ UNCHANGED <<cli, idx, sub, inbox, job, files>>

(* ...then start this one. *)
StartRetrieval(p) ==
  /\ pc[p] = "start"
  /\ deal' = [deal EXCEPT ![p] = "ongoing"]
  /\ Goto(p, "events")
  /\ UNCHANGED <<cli, idx, sub, inbox, job, files>>

(* The daemon's deal ends and is announced to the subscribers. *)
DealEnds(p) ==
  /\ deal[p] = "ongoing"
  /\ \E s \in {"completed", "errored"} :
       /\ deal' = [deal EXCEPT ![p] = s]
       /\ inbox' = [inbox EXCEPT ![p] = IF sub[p] THEN {s} ELSE @]
  /\ UNCHANGED <<pc, cli, idx, sub, job, files>>

(* The connection to the daemon is lost: the event channel is closed and   *)
(* yields events of no deal, which are skipped.                            *)
ConnectionLost(p) ==
  /\ sub[p]
  /\ sub' = [sub EXCEPT ![p] = FALSE]
  /\ UNCHANGED <<pc, cli, idx, deal, inbox, job, files>>

ReadEvent(p) ==
  /\ pc[p] = "events"
  /\ \E s \in inbox[p] : Goto(p, IF s = "completed" THEN "export" ELSE "failed")
  /\ sub' = [sub EXCEPT ![p] = FALSE]
  /\ inbox' = [inbox EXCEPT ![p] = {}]
  /\ UNCHANGED <<cli, idx, deal, job, files>>

Export(p) ==
  /\ pc[p] = "export"
  /\ job' = [job EXCEPT ![p] = "asked"]
  /\ Goto(p, "exporting")
  /\ UNCHANGED <<cli, idx, node, files>>

(* The daemon's export.  It goes on when the invocation is killed: it may  *)
(* open the file late, and it fails when the file exists.                  *)
JobOpen(p) ==
  /\ job[p] = "asked"
  /\ IF tmp[here(p)] # NONE
     THEN /\ job' = [job EXCEPT ![p] = "failed"]
          /\ UNCHANGED tmp
     ELSE /\ job' = [job EXCEPT ![p] = "open"]
          /\ tmp' = [tmp EXCEPT ![here(p)] =
                       [cid |-> Chain[target[p]][idx[p] + 1], whole |-> FALSE,
                        by |-> p]]
  /\ UNCHANGED <<pc, cli, idx, node, work, out>>

(* It writes to the file it opened, wherever that is by now. *)
Written(f, p) == IF f # NONE /\ f.by = p THEN [f EXCEPT !.whole = TRUE] ELSE f

JobWrite(p) ==
  /\ job[p] = "open"
  /\ job' = [job EXCEPT ![p] = "done"]
  /\ tmp' = [tmp EXCEPT ![here(p)] = Written(@, p)]
  /\ out' = [out EXCEPT ![path[p]] = Written(@, p)]
  /\ UNCHANGED <<pc, cli, idx, node, work>>

JobFails(p) ==
  /\ job[p] \in {"asked", "open"}
  /\ job' = [job EXCEPT ![p] = "failed"]
  /\ UNCHANGED <<pc, cli, idx, node, files>>

(* Mutant: the export is not waited for. *)
ExportedEarly(p) ==
  /\ pc[p] = "exporting"
  /\ job[p] \in {"open", "done"}
  /\ IF idx[p] < last(p)
     THEN /\ idx' = [idx EXCEPT ![p] = @ + 1]
          /\ Goto(p, "removetmp")
     ELSE /\ UNCHANGED idx
          /\ Goto(p, "rename")
  /\ UNCHANGED <<cli, node, job, files>>

(* The export returns: on to the next cid, or to the reconstruction. *)
Exported(p) ==
  /\ pc[p] = "exporting"
  /\ job[p] = "done"
  /\ IF idx[p] < last(p)
     THEN /\ idx' = [idx EXCEPT ![p] = @ + 1]
          /\ Goto(p, "removetmp")
     ELSE /\ UNCHANGED idx
          /\ Goto(p, "rename")
  /\ UNCHANGED <<cli, node, job, files>>

ExportFails(p) ==
  /\ pc[p] = "exporting"
  /\ job[p] = "failed"
  /\ Goto(p, "failed")
  /\ UNCHANGED <<cli, idx, node, job, files>>

----------------------------------------------------------------------------
(* Reconstructing the version. *)

(* After patch k, or after the root when k = 0. *)
NextPatch(p, k) ==
  /\ idx' = [idx EXCEPT ![p] = IF k < last(p) THEN k + 1 ELSE k]
  /\ Goto(p, IF k < last(p) THEN "rmwork" ELSE "report")

(* Mutant: the last patch is not applied. *)
RenameRootOffByOne(p) ==
  /\ pc[p] = "rename"
  /\ tmp[<<path[p], 0>>] # NONE
  /\ out' = [out EXCEPT ![path[p]] = tmp[<<path[p], 0>>]]
  /\ tmp' = [tmp EXCEPT ![<<path[p], 0>>] = NONE]
  /\ idx' = [idx EXCEPT ![p] = IF last(p) > 1 THEN 1 ELSE 0]
  /\ Goto(p, IF last(p) > 1 THEN "rmwork" ELSE "report")
  /\ UNCHANGED <<cli, node, job, work>>

RenameRoot(p) ==
  /\ pc[p] = "rename"
  /\ tmp[<<path[p], 0>>] # NONE
  /\ out' = [out EXCEPT ![path[p]] = tmp[<<path[p], 0>>]]
  /\ tmp' = [tmp EXCEPT ![<<path[p], 0>>] = NONE]
  /\ NextPatch(p, 0)
  /\ UNCHANGED <<cli, node, job, work>>

RemoveWork(p) ==
  /\ pc[p] = "rmwork"
  /\ work' = [work EXCEPT ![here(p)] = NONE]
  /\ Goto(p, "bspatch")
  /\ UNCHANGED <<cli, idx, node, job, tmp, out>>

(* What bspatch makes of two files: the next version when both are whole   *)
(* and the patch was made for that version, or else something useless.     *)
patched(old, patch) ==
  IF old.whole /\ patch.whole /\ patch.cid # NONE /\ Prev[patch.cid] = old.cid
  THEN patch.cid
  ELSE NONE

Bspatch(p) ==
  /\ pc[p] = "bspatch"
  /\ out[path[p]] # NONE /\ tmp[here(p)] # NONE
  /\ work' = [work EXCEPT ![here(p)] =
                [cid |-> patched(out[path[p]], tmp[here(p)]), whole |-> TRUE,
                 by |-> p]]
  /\ Goto(p, "rmout")
  /\ UNCHANGED <<cli, idx, node, job, tmp, out>>

(* bspatch fails with part of the new file written. *)
BspatchFails(p) ==
  /\ pc[p] = "bspatch"
  /\ work' = [work EXCEPT ![here(p)] = [cid |-> NONE, whole |-> FALSE, by |-> p]]
  /\ Goto(p, "failed")
  /\ UNCHANGED <<cli, idx, node, job, tmp, out>>

RemoveOutput(p) ==
  /\ pc[p] = "rmout"
  /\ out' = [out EXCEPT ![path[p]] = NONE]
  /\ Goto(p, "mvwork")
  /\ UNCHANGED <<cli, idx, node, job, tmp, work>>

RenameWork(p) ==
  /\ pc[p] = "mvwork"
  /\ work[here(p)] # NONE
  /\ out' = [out EXCEPT ![path[p]] = work[here(p)]]
  /\ work' = [work EXCEPT ![here(p)] = NONE]
  /\ Goto(p, "rmpatch")
  /\ UNCHANGED <<cli, idx, node, job, tmp>>

RemovePatch(p) ==
  /\ pc[p] = "rmpatch"
  /\ tmp' = [tmp EXCEPT ![here(p)] = NONE]
  /\ NextPatch(p, idx[p])
  /\ UNCHANGED <<cli, node, job, work, out>>

(* "Reconstructed version ... at ..." *)
Report(p) ==
  /\ pc[p] = "report"
  /\ Goto(p, "done")
  /\ UNCHANGED <<cli, idx, node, job, files>>

(* Any call fails, or the invocation is killed. *)
Fail(p) ==
  /\ pc[p] \in Running
  /\ Goto(p, "failed")
  /\ sub' = [sub EXCEPT ![p] = FALSE]
  /\ UNCHANGED <<cli, idx, deal, inbox, job, files>>

(* After a failure the user removes what is left at the output path. *)
CleanUp(o) ==
  /\ \A p \in Proc : path[p] = o => pc[p] \in {"idle", "failed"}
  /\ out[o] # NONE
  /\ out' = [out EXCEPT ![o] = NONE]
  /\ UNCHANGED <<pc, cli, idx, node, job, tmp, work>>

----------------------------------------------------------------------------
ClientStep(p) ==
  \/ RemoveTmp(p) \/ ChooseSource(p) \/ Subscribe(p) \/ StartRetrieval(p)
  \/ ReadEvent(p) \/ Export(p) \/ Exported(p) \/ ExportFails(p)
  \/ RenameRoot(p) \/ RemoveWork(p) \/ Bspatch(p) \/ BspatchFails(p)
  \/ RemoveOutput(p) \/ RenameWork(p) \/ RemovePatch(p) \/ Report(p)

DaemonStep(p) == DealEnds(p) \/ JobOpen(p) \/ JobWrite(p) \/ JobFails(p)

Next ==
  \/ \E p \in Proc : \/ Begin(p) \/ ClientStep(p) \/ DaemonStep(p)
                     \/ ConnectionLost(p) \/ Fail(p)
  \/ \E o \in Path : CleanUp(o)

Spec == Init /\ [][Next]_vars

(* The invocation and the daemon keep running; deals end. *)
FairSpec ==
  Spec /\ \A p \in Proc : WF_vars(ClientStep(p)) /\ WF_vars(DaemonStep(p))

----------------------------------------------------------------------------
(* Properties *)

(* Every variable has its type. *)
TypeOK ==
  /\ pc \in [Proc -> {"idle"} \cup Running \cup Ended]
  /\ target \in [Proc -> Cid]
  /\ path \in [Proc -> Path]
  /\ idx \in [Proc -> Index]
  /\ sub \in [Proc -> BOOLEAN]
  /\ deal \in [Proc -> {"none", "ongoing", "completed", "errored"}]
  /\ inbox \in [Proc -> SUBSET {"completed", "errored"}]
  /\ job \in [Proc -> {"none", "asked", "open", "done", "failed"}]
  /\ tmp \in [Slot -> File \cup {NONE}]
  /\ work \in [Slot -> File \cup {NONE}]
  /\ out \in [Path -> File \cup {NONE}]

(* When "Reconstructed version c at o" is reported, o holds version c,     *)
(* whole, and keeps it: whatever earlier invocations on the path left      *)
(* behind, exports of killed invocations that the daemon finishes late     *)
(* included.                                                               *)
ReconstructedIsRequested ==
  \A p \in Proc : pc[p] = "done" =>
    /\ out[path[p]] # NONE
    /\ out[path[p]].whole
    /\ out[path[p]].cid = target[p]

(* At no moment, and after no failure, is there anything else at an output *)
(* path than a whole version: never part of an export, never the result of *)
(* a patch applied to another version than it was made for.                *)
OutputIsAVersion ==
  \A o \in Path : out[o] # NONE => out[o].whole /\ out[o].cid # NONE

(* An invocation ends unless it loses the connection to the daemon while   *)
(* it waits: the final event of a retrieval is never missed.               *)
RetrievalsEnd ==
  \A p \in Proc : pc[p] = "removetmp" ~>
                    pc[p] \in Ended \/ (pc[p] = "events" /\ ~sub[p])

----------------------------------------------------------------------------
(* The inductive invariant: an invocation that runs, or has reported, is   *)
(* alone on its path, and has there what it has made so far.               *)

Good(f, c) == f # NONE /\ f.whole /\ f.cid = c
nth(p, k)  == Chain[target[p]][k + 1]
Live(p)    == pc[p] \in Running \cup {"done"}

Alone ==
  \A p, q \in Proc : Live(p) /\ Live(q) /\ path[p] = path[q] => p = q

Held(p) ==
  /\ idx[p] <= last(p)
  /\ pc[p] = "idle" => idx[p] = 0 /\ job[p] = "none"
  /\ pc[p] \in Exports =>
       /\ out[path[p]] = NONE
       /\ \A k \in Index : k < idx[p] => Good(tmp[<<path[p], k>>], nth(p, k))
  /\ pc[p] \in Running \ {"exporting"} => job[p] \notin {"asked", "open"}
  /\ pc[p] = "exporting" /\ job[p] = "open" =>
       /\ tmp[here(p)] # NONE
       /\ tmp[here(p)].by = p
       /\ tmp[here(p)].cid = nth(p, idx[p])
  /\ pc[p] = "exporting" /\ job[p] = "done" =>
       Good(tmp[here(p)], nth(p, idx[p]))
  /\ pc[p] = "rename" =>
       /\ out[path[p]] = NONE
       /\ \A k \in Index : k <= last(p) => Good(tmp[<<path[p], k>>], nth(p, k))
  /\ pc[p] \in Patches =>
       /\ idx[p] >= 1
       /\ \A k \in Index : k \in idx[p] + 1 .. last(p) =>
                             Good(tmp[<<path[p], k>>], nth(p, k))
  /\ pc[p] \in {"rmwork", "bspatch"} =>
       /\ Good(out[path[p]], nth(p, idx[p] - 1))
       /\ Good(tmp[here(p)], nth(p, idx[p]))
  /\ pc[p] \in {"rmout", "mvwork"} => Good(work[here(p)], nth(p, idx[p]))
  /\ pc[p] = "rmpatch" => Good(out[path[p]], nth(p, idx[p]))
  /\ pc[p] \in {"report", "done"} => Good(out[path[p]], target[p])

IInv == TypeOK /\ Alone /\ OutputIsAVersion /\ \A p \in Proc : Held(p)
============================================================================
