----------------------------- MODULE SectorLocks -----------------------------
(***************************************************************************)
(* The locks of the sector index (storage/paths): a request locks some     *)
(* file types of a sector for reading and some for writing, and holds them *)
(* until its context ends.  The lock object of a sector is created by the  *)
(* first request and deleted with the last reference to it.                *)
(*                                                                         *)
(* One step is one critical section: of indexLocks.lk in Ask and Release,  *)
(* of the lock object's cond.L in Attempt.                                 *)
(***************************************************************************)
EXTENDS Integers, FiniteSets

CONSTANTS
  Proc,      \* goroutines that ask for locks
  Sector, FileType,
  Obj,       \* addresses of sectorLock objects
  MaxRefs,   \* bound: requests that failed are never subtracted from refs
  NONE

ASSUME LocksAssumption ==
  /\ IsFiniteSet(Proc)
  /\ MaxRefs \in Nat
  /\ NONE \notin Obj
  /\ NONE \notin [sector : Sector, read : SUBSET FileType,
                 write : SUBSET FileType, try : BOOLEAN, slk : Obj]

VARIABLES
  locks,                \* indexLocks.locks
  r, w, refs,           \* the fields of each sectorLock
  parked,               \* who waits on a channel that is not closed yet
  pc,
  req,                  \* what each goroutine asked for, and its slk
  ctxDone               \* the request's context has ended

object == <<r, w, refs>>
vars   == <<locks, object, parked, pc, req, ctxDone>>

Request ==
  [sector : Sector, read : SUBSET FileType, write : SUBSET FileType,
   try : BOOLEAN, slk : Obj]

slk(p)   == req[p].slk
read(p)  == req[p].read
write(p) == req[p].write

Init ==
  /\ locks = [s \in Sector |-> NONE]
  /\ r = [o \in Obj |-> [t \in FileType |-> 0]]
  /\ w = [o \in Obj |-> {}]
  /\ refs = [o \in Obj |-> 0]
  /\ parked = {}
  /\ pc = [p \in Proc |-> "idle"]
  /\ req = [p \in Proc |-> NONE]
  /\ ctxDone = [p \in Proc |-> FALSE]

Goto(p, loc) == pc' = [pc EXCEPT ![p] = loc]

Return(p) ==
  /\ Goto(p, "idle")
  /\ req' = [req EXCEPT ![p] = NONE]
  /\ ctxDone' = [ctxDone EXCEPT ![p] = FALSE]

----------------------------------------------------------------------------
(* Getting hold of the lock object. *)

Free(o) ==
  /\ \A s \in Sector : locks[s] # o
  /\ \A p \in Proc : pc[p] # "idle" => slk(p) # o

Referenced(s, o) ==
  /\ locks[s] = o
  /\ refs[o] < MaxRefs
  /\ refs' = [refs EXCEPT ![o] = @ + 1]
  /\ UNCHANGED <<locks, r, w>>

Created(s, o) ==
  /\ locks[s] = NONE
  /\ Free(o)
  /\ locks' = [locks EXCEPT ![s] = o]
  /\ r' = [r EXCEPT ![o] = [t \in FileType |-> 0]]
  /\ w' = [w EXCEPT ![o] = {}]
  /\ refs' = [refs EXCEPT ![o] = 1]

Ask(p, q) ==
  /\ pc[p] = "idle"
  /\ q.read \cup q.write # {}
  /\ Referenced(q.sector, q.slk) \/ Created(q.sector, q.slk)
  /\ req' = [req EXCEPT ![p] = q]
  /\ Goto(p, "asked")
  /\ UNCHANGED <<parked, ctxDone>>

----------------------------------------------------------------------------
(* Locking. *)

(* Mutant: a writer does not look for readers. *)
canLockIgnoringReaders(o, rd, wr) == w[o] \cap (rd \cup wr) = {}

canLock(o, rd, wr) ==
  /\ \A t \in wr : r[o][t] = 0
  /\ w[o] \cap (rd \cup wr) = {}

tryLock(p, o) ==
  /\ canLock(o, read(p), write(p))
  /\ r' = [r EXCEPT ![o] =
             [t \in FileType |-> IF t \in read(p) THEN @[t] + 1 ELSE @[t]]]
  /\ w' = [w EXCEPT ![o] = @ \cup write(p)]

(* First after Ask, and again whenever the channel it waits on is closed. *)
Runs(p) == pc[p] = "asked" \/ (pc[p] = "waiting" /\ p \notin parked)

Locked(p) ==
  /\ Runs(p)
  /\ tryLock(p, slk(p))
  /\ Goto(p, "locked")
  /\ UNCHANGED <<locks, refs, parked, req, ctxDone>>

(* StorageTryLock returns false. *)
Refused(p) ==
  /\ Runs(p)
  /\ req[p].try
  /\ ~canLock(slk(p), read(p), write(p))
  /\ Return(p)
  /\ UNCHANGED <<locks, object, parked>>

(* StorageLock waits. *)
Wait(p) ==
  /\ Runs(p)
  /\ ~req[p].try
  /\ ~canLock(slk(p), read(p), write(p))
  /\ parked' = parked \cup {p}
  /\ Goto(p, "waiting")
  /\ UNCHANGED <<locks, object, req, ctxDone>>

CtxDone(p) ==
  /\ pc[p] # "idle"
  /\ ctxDone' = [ctxDone EXCEPT ![p] = TRUE]
  /\ UNCHANGED <<locks, object, parked, pc, req>>

(* The context of a request that waits ends; its reference stays counted. *)
GiveUp(p) ==
  /\ pc[p] = "waiting"
  /\ ctxDone[p]
  /\ parked' = parked \ {p}
  /\ Return(p)
  /\ UNCHANGED <<locks, object>>

----------------------------------------------------------------------------
(* Unlocking, by the goroutine that waits for the end of the context. *)

(* Mutant: nobody is woken. *)
BroadcastNone(o) == UNCHANGED parked

Broadcast(o) == parked' = {q \in parked : slk(q) # o}

(* Mutant: only the readers are counted down. *)
unlockReaders(p, o) ==
  /\ r' = [r EXCEPT ![o] =
             [t \in FileType |-> IF t \in read(p) THEN @[t] - 1 ELSE @[t]]]
  /\ UNCHANGED w
  /\ Broadcast(o)

unlock(p, o) ==
  /\ r' = [r EXCEPT ![o] =
             [t \in FileType |-> IF t \in read(p) THEN @[t] - 1 ELSE @[t]]]
  /\ w' = [w EXCEPT ![o] = @ \ write(p)]
  /\ Broadcast(o)

(* Mutant: the object is deleted although others refer to it. *)
ForgetAlways(s, o) == locks' = [locks EXCEPT ![s] = NONE]

Forget(s, o) ==
  locks' = IF refs[o] = 1 THEN [locks EXCEPT ![s] = NONE] ELSE locks

Release(p) ==
  /\ pc[p] = "locked"
  /\ ctxDone[p]
  /\ unlock(p, slk(p))
  /\ refs' = [refs EXCEPT ![slk(p)] = @ - 1]
  /\ Forget(req[p].sector, slk(p))
  /\ Return(p)

----------------------------------------------------------------------------
Attempt(p) == Locked(p) \/ Refused(p) \/ Wait(p)

Next ==
  \E p \in Proc :
    \/ \E q \in Request : Ask(p, q)
    \/ Attempt(p) \/ CtxDone(p) \/ GiveUp(p) \/ Release(p)

Spec == Init /\ [][Next]_vars

(* Goroutines that can run do; the work a lock is held for ends.  Nobody   *)
(* is obliged to give up waiting.                                          *)
FairSpec ==
  Spec /\ \A p \in Proc : /\ WF_vars(Attempt(p))
                          /\ WF_vars(pc[p] = "locked" /\ CtxDone(p))
                          /\ WF_vars(Release(p))

----------------------------------------------------------------------------
(* Properties *)

Using(p) == pc[p] # "idle"

(* Every variable has its type; the uint counters do not go below zero. *)
TypeOK ==
  /\ locks \in [Sector -> Obj \cup {NONE}]
  /\ r \in [Obj -> [FileType -> Nat]]
  /\ w \in [Obj -> SUBSET FileType]
  /\ refs \in [Obj -> Nat]
  /\ parked \subseteq Proc
  /\ pc \in [Proc -> {"idle", "asked", "waiting", "locked"}]
  /\ \A p \in Proc : pc[p] = "idle" <=> req[p] = NONE
  /\ req \in [Proc -> Request \cup {NONE}]
  /\ ctxDone \in [Proc -> BOOLEAN]

(* While one request has a file type of a sector locked for writing, no    *)
(* other has it locked at all, whatever lock objects were deleted and      *)
(* created in between.                                                     *)
Exclusion ==
  \A p, q \in Proc :
    /\ p # q
    /\ pc[p] = "locked" /\ pc[q] = "locked"
    /\ req[p].sector = req[q].sector
    => write(p) \cap (read(q) \cup write(q)) = {}

(* A lock object is never deleted under a request that still uses it: all  *)
(* requests for a sector meet at the one object in the map.                *)
OneObject == \A p \in Proc : Using(p) => locks[req[p].sector] = slk(p)

(* No wakeup is lost: a request sleeps on an open channel only while it    *)
(* could not have its locks.                                               *)
SleepersBlocked ==
  \A p \in parked : /\ pc[p] = "waiting"
                    /\ ~canLock(slk(p), read(p), write(p))

(* A request waits for ever only if other requests keep coming: when they  *)
(* stop, every waiter gets its locks in the end.                           *)
WaitersServed ==
  \A p \in Proc : []<>(pc[p] # "waiting") \/ []<>(\E q \in Proc : pc[q] = "asked")

----------------------------------------------------------------------------
(* The inductive invariant: refs counts at least the requests that use an  *)
(* object, r and w say exactly what is held.                               *)

Users(o)      == {p \in Proc : Using(p) /\ slk(p) = o}
Holders(o)    == {p \in Proc : pc[p] = "locked" /\ slk(p) = o}
Readers(o, t) == {p \in Holders(o) : t \in read(p)}

Counted ==
  \A o \in Obj :
    /\ Cardinality(Users(o)) <= refs[o]
    /\ \A t \in FileType : r[o][t] = Cardinality(Readers(o, t))
    /\ \A t \in FileType : t \in w[o] <=> \E p \in Holders(o) : t \in write(p)

ObjectsApart ==
  \A s1, s2 \in Sector : locks[s1] # NONE /\ locks[s1] = locks[s2] => s1 = s2

HoldersApart ==
  \A o \in Obj : \A p, q \in Holders(o) :
    p # q => write(p) \cap (read(q) \cup write(q)) = {}

IInv ==
  /\ TypeOK /\ OneObject /\ ObjectsApart /\ Counted
  /\ HoldersApart /\ SleepersBlocked
=============================================================================
