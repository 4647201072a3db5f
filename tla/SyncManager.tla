----------------------------- MODULE SyncManager -----------------------------
(***************************************************************************)
(* The chain sync manager (chain/sync_manager.go).  Peers announce heads;  *)
(* the scheduler, one goroutine, starts a worker for a head, keeps it for  *)
(* when a related worker ends (pend), defers it, or ignores it.  Workers   *)
(* sync in goroutines of their own and report when they are done.          *)
(* Merging of sibling tipsets (LOTUS_SYNC_FORMTS_PEND, off by default) and *)
(* shutdown are left out.                                                  *)
(***************************************************************************)
EXTENDS Naturals, Sequences, FiniteSets, FiniteSetsExt

CONSTANTS
  TipSet,        \* the heads that are announced
  Parents,       \* key of a tipset's parents: a tipset or some other value
  ParentWeight, Height,
  Peer,
  BootstrapPeerThreshold, MaxSyncWorkers, RecentSyncBufferSize,
  NONE

ASSUME SyncAssumption ==
  /\ ParentWeight \in [TipSet -> Nat] /\ Height \in [TipSet -> Nat]
  /\ DOMAIN Parents = TipSet /\ NONE \notin TipSet
  /\ \A t \in TipSet : Parents[t] \in TipSet =>
       ParentWeight[Parents[t]] < ParentWeight[t] /\ Height[Parents[t]] < Height[t]
  /\ BootstrapPeerThreshold \in 1 .. Cardinality(Peer)
  /\ MaxSyncWorkers \in Nat \ {0} /\ RecentSyncBufferSize \in Nat \ {0}

VARIABLES
  heads,           \* syncManager.heads, until the first worker starts
  started,         \* nextWorker > 0
  state,           \* how many workers sync each tipset
  pend, deferred,  \* sequences of buckets, a bucket a sequence of tipsets
  recent,          \* the tipsets in the circular buffer, oldest first
  initialSyncDone,
  ticking,         \* the ticker has not been stopped
  put              \* history: a tipset was deferred

vars == <<heads, started, state, pend, deferred, recent, initialSyncDone, ticking, put>>

Init ==
  /\ heads = [p \in Peer |-> NONE] /\ started = FALSE
  /\ state = [t \in TipSet |-> 0]
  /\ pend = <<>> /\ deferred = <<>> /\ recent = <<>>
  /\ initialSyncDone = FALSE /\ ticking = TRUE
  /\ put = FALSE

------------------------------------------------------------------------------
(* Buckets. *)

isHeavier(a, b) == ParentWeight[a] > ParentWeight[b]

(* The first of the heaviest tipsets of a bucket. *)
heaviestTipSet(b) ==
  b[Min({k \in DOMAIN b : \A i \in DOMAIN b : ~isHeavier(b[i], b[k])})]

sameChainAs(b, ts) ==
  \E i \in DOMAIN b : ts = b[i] \/ ts = Parents[b[i]] \/ Parents[ts] = b[i]

RelatedToAny(bs, ts) == \E i \in DOMAIN bs : sameChainAs(bs[i], ts)

(* Mutant: a tipset takes the place of the first one of its bucket. *)
addToReplaces(b, ts) == [b EXCEPT ![1] = ts]

addTo(b, ts) == IF ts \in Range(b) THEN b ELSE Append(b, ts)

(* The buckets on the chain of ts. *)
Related(bs, ts) == {i \in DOMAIN bs : sameChainAs(bs[i], ts)}

Insert(bs, ts) ==
  LET I == Related(bs, ts)
  IN  IF I = {} THEN Append(bs, <<ts>>) ELSE [bs EXCEPT ![Min(I)] = addTo(@, ts)]

(* The first of the buckets with indices in I that has a heaviest tipset. *)
BestOf(bs, I) ==
  Min({i \in I : \A j \in I :
         ~isHeavier(heaviestTipSet(bs[j]), heaviestTipSet(bs[i]))})

Best(bs) == BestOf(bs, DOMAIN bs)

Heaviest(bs) == heaviestTipSet(bs[Best(bs)])

removeBucket(bs, i) ==
  [k \in 1 .. Len(bs) - 1 |-> IF k < i THEN bs[k] ELSE bs[k + 1]]

(* PopRelated takes the related buckets and leaves these. *)
Unrelated(bs, ts) ==
  LET left[i \in 0 .. Len(bs)] ==
        IF i = 0 THEN <<>>
        ELSE IF sameChainAs(bs[i], ts) THEN left[i - 1]
        ELSE Append(left[i - 1], bs[i])
  IN left[Len(bs)]

(* The circular buffer. *)
Push(r, ts) ==
  LET all == Append(r, ts)
  IN  IF Len(all) > RecentSyncBufferSize THEN Tail(all) ELSE all

Synced(r, ts) == \E i \in DOMAIN r : r[i] = ts \/ isHeavier(r[i], ts)

------------------------------------------------------------------------------
(* Workers. *)

Active(s) == {t \in TipSet : s[t] > 0}

WorkersOf(s) == UNION {{t} \X (1 .. s[t]) : t \in TipSet}
Workers(s)   == Cardinality(WorkersOf(s))

spawnWorker(s, ts) == [s EXCEPT ![ts] = @ + 1]

(* selectInitialSyncTarget: heads of one height come in any order. *)
selectInitialSyncTarget(hs) ==
  LET known  == Range(hs) \ {NONE}
      n      == Cardinality(known)
      sorted == {s \in Bijection(1 .. n, known) :
                   \A i, j \in 1 .. n : i < j => Height[s[i]] <= Height[s[j]]}
      buckets(s) ==
        LET bs[i \in 0 .. n] == IF i = 0 THEN <<>> ELSE Insert(bs[i - 1], s[i])
        IN bs[n]
  IN  {Heaviest(buckets(s)) : s \in sorted}

(* The scheduler's data in the middle of a handler. *)
Queues(p, d, s) == [pend |-> p, deferred |-> d, state |-> s]

(* A loop over the deferred targets: it goes on, or is over with a target, *)
(* or with NONE when no work was found.                                    *)
GoesOn(q)       == [over |-> FALSE, target |-> NONE, q |-> q]
Over(target, q) == [over |-> TRUE, target |-> target, q |-> q]

(* A turn of the loop of selectDeferredSyncTarget.  The loop over the      *)
(* workers, a map, ends with the first it meets; without a worker a target *)
(* falls through and is dropped.                                           *)
popDeferred(q, r) ==
  LET i         == Best(q.deferred)
      h         == heaviestTipSet(q.deferred[i])
      rest      == [q EXCEPT !.deferred = removeBucket(@, i)]
      Skip      == GoesOn(rest)
      Converged == GoesOn([rest EXCEPT !.pend = Insert(@, h)])
  IN  CASE q.deferred = <<>> -> {Over(NONE, q)}
        [] q.deferred # <<>> /\ Synced(r, h) -> {Skip}
        [] q.deferred # <<>> /\ ~Synced(r, h) /\ RelatedToAny(q.pend, h) -> {Converged}
        [] OTHER ->
             IF Active(q.state) = {} THEN {Skip}
             ELSE {CASE w = h \/ isHeavier(w, h) -> Skip
                     [] w # h /\ ~isHeavier(w, h) /\ Parents[h] = w -> Converged
                     [] OTHER -> Over(h, rest) :
                   w \in Active(q.state)}

(* What the loop may end with; every turn takes a bucket out of deferred. *)
selectDeferredSyncTarget(q, r) ==
  LET turns[n \in 0 .. Len(q.deferred) + 1] ==
        IF n = 0 THEN {GoesOn(q)}
        ELSE UNION {IF o.over THEN {o} ELSE popDeferred(o.q, r) : o \in turns[n - 1]}
  IN turns[Len(q.deferred) + 1]

(* Mutant: a worker that ends looks at the deferred targets only. *)
selectSyncTargetDeferred(q, r, done) == selectDeferredSyncTarget(q, r)

(* selectSyncTarget, after the worker for done has ended. *)
selectSyncTarget(q, r, done) ==
  LET related == Related(q.pend, done)
      rest    == [q EXCEPT !.pend = Unrelated(@, done)]
      h       == heaviestTipSet(q.pend[BestOf(q.pend, related)])
  IN  IF \/ related = {}
         \/ isHeavier(done, h)
         \/ \E w \in Active(q.state) : isHeavier(w, h)
         \/ Synced(r, h)
      THEN selectDeferredSyncTarget(rest, r)
      ELSE {Over(h, rest)}

(* A choice is put into effect. *)
Chosen(o) ==
  IF o.target = NONE THEN o.q ELSE [o.q EXCEPT !.state = spawnWorker(@, o.target)]

(* handleInitialSyncDone: workers are started up to MaxSyncWorkers. *)
startDeferred(q, r) ==
  IF Workers(q.state) >= MaxSyncWorkers THEN {Over(NONE, q)}
  ELSE {IF o.target = NONE THEN o ELSE GoesOn(Chosen(o)) :
        o \in selectDeferredSyncTarget(q, r)}

handleInitialSyncDone(q, r) ==
  LET turns[n \in 0 .. MaxSyncWorkers] ==
        IF n = 0 THEN {GoesOn(q)}
        ELSE UNION {IF o.over THEN {o} ELSE startDeferred(o.q, r) : o \in turns[n - 1]}
  IN {o.q : o \in turns[MaxSyncWorkers]}

Becomes(q) == pend' = q.pend /\ deferred' = q.deferred /\ state' = q.state
------------------------------------------------------------------------------
(* The scheduler. *)

(* Before the first worker starts: enough peers must have been heard of. *)
handleFirstHeads(p, ts) ==
  /\ ~started
  /\ heads' = [heads EXCEPT ![p] = ts]
  /\ IF Cardinality({q \in Peer : heads'[q] # NONE}) < BootstrapPeerThreshold
     THEN UNCHANGED <<started, state>>
     ELSE /\ started' = TRUE
          /\ \E target \in selectInitialSyncTarget(heads') :
               state' = spawnWorker(state, target)
  /\ UNCHANGED <<pend, deferred, put>>

(* Mutant: a head that is being synced is not recognised. *)
RelatedToActiveParents(ts) == Active(state) \cap {Parents[ts]}

(* The workers that decide on a head at once: one that syncs it, or its parent. *)
RelatedToActive(ts) == Active(state) \cap {ts, Parents[ts]}

(* addSyncTarget and handlePeerHead once syncing has started. *)
addSyncTarget(ts) ==
  LET active  == Active(state)
      lighter == \/ \E w \in active : isHeavier(w, ts)
                 \/ pend # <<>> /\ isHeavier(Heaviest(pend), ts)
      wait    == ~initialSyncDone \/ Workers(state) >= MaxSyncWorkers
  IN  /\ started
      /\ UNCHANGED <<heads, started>>
      /\ IF Synced(recent, ts)
         THEN UNCHANGED <<state, pend, deferred, put>>
         ELSE IF active = {}
         THEN state' = spawnWorker(state, ts) /\ UNCHANGED <<pend, deferred, put>>
         ELSE IF RelatedToActive(ts) # {}
         THEN /\ \E w \in RelatedToActive(ts) :
                   pend' = IF w = ts THEN pend ELSE Insert(pend, ts)
              /\ UNCHANGED <<state, deferred, put>>
         ELSE IF RelatedToAny(pend, ts)
         THEN pend' = Insert(pend, ts) /\ UNCHANGED <<state, deferred, put>>
         ELSE IF lighter
         THEN UNCHANGED <<state, pend, deferred, put>>
         ELSE IF wait
         THEN /\ deferred' = Insert(deferred, ts) /\ put' = TRUE
              /\ UNCHANGED <<state, pend>>
         ELSE state' = spawnWorker(state, ts) /\ UNCHANGED <<pend, deferred, put>>

handlePeerHead(p, ts) ==
  /\ handleFirstHeads(p, ts) \/ addSyncTarget(ts)
  /\ UNCHANGED <<recent, initialSyncDone, ticking>>

(* A worker reports; fast tells whether it took less than                  *)
(* InitialSyncTimeThreshold.                                               *)
handleWorkerStatus(ts, ok, fast) ==
  /\ state[ts] > 0
  /\ recent' = IF ok THEN Push(recent, ts) ELSE recent
  /\ initialSyncDone' = (initialSyncDone \/ (ok /\ fast))
  /\ \E o \in selectSyncTarget(Queues(pend, deferred, [state EXCEPT ![ts] = @ - 1]),
                               recent', ts) :
       Becomes(Chosen(o))
  /\ UNCHANGED <<heads, started, ticking, put>>

(* The ticker after the initial sync. *)
Tick ==
  /\ ticking /\ initialSyncDone
  /\ ticking' = FALSE
  /\ \E q \in handleInitialSyncDone(Queues(pend, deferred, state), recent) : Becomes(q)
  /\ UNCHANGED <<heads, started, recent, initialSyncDone, put>>

Next ==
  \/ \E p \in Peer, ts \in TipSet : handlePeerHead(p, ts)
  \/ \E ts \in TipSet, ok, fast \in BOOLEAN : handleWorkerStatus(ts, ok, fast)
  \/ Tick

Spec == Init /\ [][Next]_vars

------------------------------------------------------------------------------
(* Properties. *)

(* Nothing that is kept for later is forgotten: in every bucket of pend is *)
(* a child of a tipset some worker is syncing, so that selectSyncTarget    *)
(* finds it when that worker ends, even with an error; and deferred        *)
(* targets are kept only while there is a worker to end.                   *)
NothingOrphaned ==
  /\ \A i \in DOMAIN pend :
       \E t \in Range(pend[i]) : Parents[t] \in Active(state)
  /\ deferred # <<>> => Active(state) # {}

(* "deduplicating processing for already-active syncs": no tipset is       *)
(* synced by two workers.                                                  *)
OneWorkerPerTarget == \A t \in TipSet : state[t] <= 1

(* There are never more than MaxSyncWorkers workers, and a tipset is       *)
(* synced by two of them only if a tipset had been deferred: the deferred  *)
(* target is compared with one worker only.                                *)
DedupUnlessDeferred ==
  /\ Workers(state) <= MaxSyncWorkers
  /\ ~put => OneWorkerPerTarget

(* The target a bucket stands for. *)
Targets(bs) == {heaviestTipSet(bs[i]) : i \in DOMAIN bs}

(* A deferred target "will be processed once a worker is freed": it leaves *)
(* deferred for a worker or for pend, or because one as heavy is known.    *)
(* The exception is the end of the last worker: selectDeferredSyncTarget   *)
(* then drops all of deferred.                                             *)
DeferredAreLookedAt ==
  [][\A t \in Targets(deferred) :
       \/ t \in Targets(deferred')
       \/ t \in UNION {Range(pend'[i]) : i \in DOMAIN pend'}
       \/ \E u \in Active(state') \cup Range(recent') \cup Targets(deferred') :
            u = t \/ isHeavier(u, t)
       \/ Workers(state) = 1 /\ Workers(state') = 0]_vars

------------------------------------------------------------------------------
(* What the proofs need. *)

Bucket    == {b \in Seq(TipSet) : b # <<>>}
QueueType == [pend : Seq(Bucket), deferred : Seq(Bucket), state : [TipSet -> Nat]]

TypeOK ==
  /\ heads \in [Peer -> TipSet \cup {NONE}]
  /\ started \in BOOLEAN /\ initialSyncDone \in BOOLEAN
  /\ ticking \in BOOLEAN /\ put \in BOOLEAN
  /\ Queues(pend, deferred, state) \in QueueType
  /\ recent \in Seq(TipSet)

(* A bucket grew from a child of a tipset being synced and holds no tipset *)
(* being synced.                                                           *)
FreshBucket(b, s) ==
  /\ Parents[b[1]] \in Active(s)
  /\ \A k \in DOMAIN b :
       /\ b[k] \notin Active(s)
       /\ k = 1 \/ \E j \in 1 .. k - 1 : Parents[b[k]] = b[j]

(* Until a tipset is deferred, the buckets of pend are fresh and disjoint, *)
(* and no tipset is synced along with its parent.                          *)
PendIsFresh(p, s) ==
  /\ \A t \in Active(s) : s[t] = 1 /\ Parents[t] \notin Active(s)
  /\ \A i \in DOMAIN p : FreshBucket(p[i], s)
  /\ \A i, j \in DOMAIN p : i # j => Range(p[i]) \cap Range(p[j]) = {}

(* The inductive invariant. *)
SyncInv ==
  /\ TypeOK
  /\ ~started => Active(state) = {} /\ pend = <<>>
  /\ NothingOrphaned
  /\ IsFiniteSet(WorkersOf(state)) /\ Workers(state) <= MaxSyncWorkers
  /\ ~put => deferred = <<>> /\ PendIsFresh(pend, state)
==============================================================================
