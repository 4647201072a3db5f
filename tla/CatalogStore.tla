---------------------------- MODULE CatalogStore ----------------------------
(***************************************************************************)
(* How opendsn-api keeps the catalog: concurrent POST /api/client/deal     *)
(* handlers that, when the CLI deal is done, stamp the version, lock       *)
(* catalogMu, load catalog.json, change it in memory, write catalog.json   *)
(* .tmp and rename it.  Any call may fail, and the server may crash.       *)
(***************************************************************************)
EXTENDS Catalog

CONSTANTS Handler, NoHandler

ASSUME HandlerAssumption == NoHandler \notin Handler

VARIABLES
  tmp,    \* catalog.json.tmp; catalog.json is the variable catalog
  lock,   \* the holder of catalogMu
  now,    \* the clock, in seconds
  pc, req, at,
  mem     \* the catalog each handler has loaded and changed

vars == <<catalog, tmp, lock, now, pc, req, at, mem>>

Saving   == {"trunc", "write", "rename"}
Critical == {"load"} \cup Saving
Active   == {"deal", "lock"} \cup Critical
Over     == {"failed", "catalogued", "uncatalogued", "crashed"}

NoRequest == [cid |-> NULL, prev |-> NULL, name |-> 0]

StoreInit ==
  /\ catalog = Empty
  /\ tmp = [status |-> "absent", content |-> Empty]
  /\ lock = NoHandler
  /\ now \in Time
  /\ pc = [h \in Handler |-> "idle"]
  /\ req = [h \in Handler |-> NoRequest]
  /\ at = [h \in Handler |-> now]
  /\ mem = [h \in Handler |-> Empty]

Goto(h, loc) == pc' = [pc EXCEPT ![h] = loc]

(* A second passes.  The wall clock may also be set back. *)
Tick ==
  /\ now' \in Time
  /\ UNCHANGED <<catalog, tmp, lock, pc, req, at, mem>>

Begin(h, r) ==
  /\ pc[h] = "idle"
  /\ req' = [req EXCEPT ![h] = r]
  /\ Goto(h, "deal")
  /\ UNCHANGED <<catalog, tmp, lock, now, at, mem>>

(* The CLI deal ends; uploadedAt is taken at once. *)
DealEnds(h) ==
  /\ pc[h] = "deal"
  /\ at' = [at EXCEPT ![h] = now]
  /\ pc' \in {[pc EXCEPT ![h] = loc] : loc \in {"lock", "failed"}}
  /\ UNCHANGED <<catalog, tmp, lock, now, req, mem>>

(* Mutant: the catalog is not locked. *)
LockNot(h) ==
  /\ pc[h] = "lock"
  /\ lock' = h
  /\ Goto(h, "load")
  /\ UNCHANGED <<catalog, tmp, now, req, at, mem>>

Lock(h) ==
  /\ pc[h] = "lock"
  /\ lock = NoHandler
  /\ lock' = h
  /\ Goto(h, "load")
  /\ UNCHANGED <<catalog, tmp, now, req, at, mem>>

(* Load the catalog and put the version into it. *)
Load(h) ==
  /\ pc[h] = "load"
  /\ mem' \in {[mem EXCEPT ![h] = cat] : cat \in Results(catalog, req[h], at[h])}
  /\ Goto(h, "trunc")
  /\ UNCHANGED <<catalog, tmp, lock, now, req, at>>

(* os.WriteFile of the temporary file, and the rename. *)
TruncTmp(h) ==
  /\ pc[h] = "trunc"
  /\ tmp' = [status |-> "torn", content |-> Empty]
  /\ Goto(h, "write")
  /\ UNCHANGED <<catalog, lock, now, req, at, mem>>

WriteTmp(h) ==
  /\ pc[h] = "write"
  /\ tmp' = [status |-> "full", content |-> mem[h]]
  /\ Goto(h, "rename")
  /\ UNCHANGED <<catalog, lock, now, req, at, mem>>

(* Renaming ends saveCatalogLocked; the deferred unlock follows. *)
Rename(h) ==
  /\ pc[h] = "rename"
  /\ catalog' = tmp.content
  /\ tmp' = [status |-> "absent", content |-> Empty]
  /\ lock' = NoHandler
  /\ Goto(h, "catalogued")
  /\ UNCHANGED <<now, req, at, mem>>

(* Mutant: an error path that leaves catalogMu locked. *)
RecordFailsLocked(h) ==
  /\ pc[h] \in Critical
  /\ Goto(h, "uncatalogued")
  /\ UNCHANGED <<catalog, tmp, lock, now, req, at, mem>>

(* A failed read, parse, write or rename, or a previous version that is    *)
(* not in the catalog: the deal is reported with a catalog error.          *)
RecordFails(h) ==
  /\ pc[h] \in Critical
  /\ lock' = NoHandler
  /\ Goto(h, "uncatalogued")
  /\ UNCHANGED <<catalog, tmp, now, req, at, mem>>

(* The server process dies, with all its handlers. *)
Crash ==
  /\ \E h \in Handler : pc[h] \in Active
  /\ pc' = [h \in Handler |-> IF pc[h] \in Active THEN "crashed" ELSE pc[h]]
  /\ lock' = NoHandler
  /\ UNCHANGED <<catalog, tmp, now, req, at, mem>>

Step(h) ==
  \/ DealEnds(h)
  \/ Lock(h)
  \/ Load(h)
  \/ TruncTmp(h)
  \/ WriteTmp(h)
  \/ Rename(h)
  \/ RecordFails(h)

StoreNext ==
  \/ Tick
  \/ Crash
  \/ \E h \in Handler : Step(h) \/ \E r \in Request : Begin(h, r)

StoreSpec == StoreInit /\ [][StoreNext]_vars

(* A handler's goroutine runs on; sync.Mutex hands the lock on in the end. *)
FairStoreSpec ==
  StoreSpec /\ \A h \in Handler :
    /\ WF_vars(DealEnds(h))
    /\ SF_vars(Lock(h))
    /\ WF_vars(pc[h] \in Critical /\ Step(h))

----------------------------------------------------------------------------
(* Properties *)

TmpType == [status : {"absent", "torn", "full"}, content : CatalogType]

(* Every variable has its type. *)
StoreTypeOK ==
  /\ catalog \in CatalogType
  /\ tmp \in TmpType
  /\ lock \in Handler \cup {NoHandler}
  /\ now \in Time
  /\ pc \in [Handler -> {"idle"} \cup Active \cup Over]
  /\ req \in [Handler -> Request \cup {NoRequest}]
  /\ at \in [Handler -> Time]
  /\ mem \in [Handler -> CatalogType]

(* Through all interleavings, failures and crashes, catalog.json changes   *)
(* only by whole records of one deal each.                                 *)
Refinement == Spec

(* The version that was recorded is there, in a file that has its previous *)
(* version.                                                                *)
Recorded(cat, r) ==
  \E v \in cat.versions :
    /\ v.cid = r.cid
    /\ r.prev = NULL => v.root = v.cid
    /\ r.prev # NULL => HasVersion(cat, v.root, r.prev)

(* A handler that answered without a catalog error has its version in the  *)
(* catalog, for good: later handlers never overwrite it with an older      *)
(* copy.                                                                   *)
AnsweredIsCatalogued ==
  \A h \in Handler : pc[h] = "catalogued" => Recorded(catalog, req[h])

(* Every request is answered unless the server dies: the mutex is released *)
(* on every path.                                                          *)
RequestsAnswered ==
  \A h \in Handler : pc[h] = "deal" ~> pc[h] \in Over

----------------------------------------------------------------------------
(* The inductive invariant: only the holder of catalogMu is between load   *)
(* and rename, so what it has in memory is still a record of its deal into *)
(* the current catalog.json, and the temporary file it renames is its own. *)
StoreInv ==
  /\ StoreTypeOK
  /\ Rooted(catalog)
  /\ AnsweredIsCatalogued
  /\ \A h \in Handler :
       /\ pc[h] \in Critical => lock = h
       /\ pc[h] \in Active \cup {"catalogued"} => req[h] \in Request
       /\ pc[h] \in Saving => mem[h] \in Results(catalog, req[h], at[h])
       /\ pc[h] = "rename" => tmp.content = mem[h]
============================================================================
