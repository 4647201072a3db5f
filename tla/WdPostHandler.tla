---------------------------- MODULE WdPostHandler ----------------------------
(***************************************************************************)
(* The window PoSt scheduler of the miner (storage/wdpost).  It follows    *)
(* the head of the chain: the prover generates the proofs of a window when *)
(* its challenge is known, and puts them into a cache; the submitter sends *)
(* them when the window is open.  The two run as goroutines of their own;  *)
(* generating and sending happen in further goroutines that report back.   *)
(***************************************************************************)
EXTENDS Integers, Sequences, FiniteSets

CONSTANTS
  WPoStChallengeWindow, WPoStChallengeLookback, WPoStPeriodDeadlines,
  ChallengeConfidence, SubmitConfidence,
  FirstPeriod,     \* the epoch of the miner's first proving period
  Periods,         \* bound: proving periods looked at
  MaxHeight,       \* bound: height of the chain
  Reverted,        \* bound: heights of lowest reverted tipsets looked at
  Gen,             \* bound: generating goroutines that have not reported
  AddedCap,        \* capacity of the channel postsCache.added
  PassesOver,      \* select may prefer a head change to a full channel
  NONE

WPoStProvingPeriod == WPoStPeriodDeadlines * WPoStChallengeWindow

Starts == {FirstPeriod + k * WPoStProvingPeriod : k \in 0 .. Periods - 1}

(* dline.Info: the epoch of the period and the index of the deadline. *)
Deadline == [periodStart : Starts, index : 0 .. WPoStPeriodDeadlines - 1]

Epoch == 0 .. MaxHeight

ASSUME WdPostAssumption ==
  /\ WPoStChallengeWindow \in Nat \ {0}
  /\ WPoStPeriodDeadlines \in Nat \ {0}
  /\ WPoStChallengeLookback \in Nat /\ ChallengeConfidence \in Nat
  /\ SubmitConfidence \in Nat
  /\ FirstPeriod \in Nat /\ Periods \in Nat /\ MaxHeight \in Nat
  /\ Reverted \subseteq Epoch
  /\ AddedCap \in Nat /\ PassesOver \in BOOLEAN
  /\ IsFiniteSet(Gen)
  /\ NONE \notin Gen /\ NONE \notin Deadline /\ NONE \notin Int
  /\ NONE \notin {"Start", "Submitting", "Complete"}

VARIABLES
  hc,        \* the head change it is handing over, or NONE
  to,        \* to whom: "prover", then "submitter"
  current,   \* proveHandler.current
  gen,       \* the generating goroutines
  adding,    \* the window whose posts the prover is adding, lk held, or NONE
  cache,     \* postsCache.cache: "none", "empty" or "posts" per window
  added,     \* postsCache.added
  taken,     \* the head change the submitter works on, or NONE
  currentTS, \* submitHandler.currentTS: its height, or NONE
  pw,        \* submitHandler.postWindows: submitState per window, or NONE
  orphans,   \* windows with sending goroutines of objects since replaced
  late,      \* history: a proof that had been aborted was delivered
  missed,    \* history: the last send failed and nothing woke the window since
  sent       \* history: sent, or nothing to send, since the last abort or reset

sched     == <<hc, to>>
prover    == <<current, gen, adding, late>>
posts     == <<cache, added>>
submitter == <<taken, currentTS, pw, orphans, missed, sent>>
vars      == <<sched, prover, posts, submitter>>

----------------------------------------------------------------------------
(* Deadlines (dline.NewInfo). *)

Open(di)      == di.periodStart + di.index * WPoStChallengeWindow
Close(di)     == Open(di) + WPoStChallengeWindow
Challenge(di) == Open(di) - WPoStChallengeLookback

nextDeadline(di) ==
  IF di.index + 1 = WPoStPeriodDeadlines
  THEN [periodStart |-> di.periodStart + WPoStProvingPeriod, index |-> 0]
  ELSE [di EXCEPT !.index = @ + 1]

(* StateMinerProvingDeadline at height h, once the first period started. *)
IsDeadlineAt(h, di) == Open(di) <= h /\ h < Close(di)

(* A generating goroutine: its window, and whether its context was cancelled. *)
Idle == [di |-> NONE, aborted |-> FALSE]

Init ==
  /\ hc = NONE /\ to = "prover"
  /\ current = NONE /\ adding = NONE /\ late = FALSE
  /\ gen = [g \in Gen |-> Idle]
  /\ cache = [d \in Deadline |-> "none"]
  /\ added = <<>>
  /\ taken = NONE /\ currentTS = NONE
  /\ pw = [d \in Deadline |-> NONE]
  /\ orphans = {}
  /\ missed = [d \in Deadline |-> FALSE]
  /\ sent = [d \in Deadline |-> FALSE]

----------------------------------------------------------------------------
(* The scheduler: WindowPoStScheduler.Run and changeHandler.update. *)

HeadChange(rev, adv, di) == [revert |-> rev, advance |-> adv, di |-> di]

(* The head moves to a tipset of height adv; rev is the height of the lowest *)
(* tipset that was reverted, NONE when none was or when this is the first    *)
(* notification of a new subscription.  Before the first proving period, and *)
(* when the deadline cannot be asked for, nothing happens.                   *)
update(rev, adv) ==
  /\ hc = NONE
  /\ \E di \in Deadline :
       IsDeadlineAt(adv, di) /\ hc' = HeadChange(rev, adv, di)
  /\ UNCHANGED <<to, prover, posts, submitter>>

----------------------------------------------------------------------------
(* The prover. *)

(* The window that the loop over completed windows ends at, from di on. *)
FirstUnproved(di, d) ==
  /\ Open(di) <= Open(d)
  /\ cache[d] = "none"
  /\ \A e \in Deadline :
       Open(di) <= Open(e) /\ Open(e) < Open(d) => cache[e] # "none"

(* Mutant: the proof of a closed window is forgotten but not aborted. *)
ExpireNoAbort ==
  IF current # NONE /\ hc.advance >= Close(gen[current].di)
  THEN [current |-> NONE, gen |-> gen]
  ELSE [current |-> current, gen |-> gen]

Expire ==
  IF current # NONE /\ hc.advance >= Close(gen[current].di)
  THEN [current |-> NONE, gen |-> [gen EXCEPT ![current].aborted = TRUE]]
  ELSE [current |-> current, gen |-> gen]

startGeneratePoST(g, d) ==
  /\ Expire.gen[g] = Idle
  /\ current' = g
  /\ gen' = [Expire.gen EXCEPT ![g] =
               [di |-> d, aborted |-> FALSE]]

(* proveHandler.processHeadChange *)
ProverHeadChange ==
  /\ hc # NONE /\ to = "prover" /\ adding = NONE
  /\ to' = "submitter"
  /\ \/ /\ Expire.current # NONE      \* only one proof at a time
        /\ current' = Expire.current /\ gen' = Expire.gen
     \/ /\ Expire.current = NONE
        /\ \E d \in Deadline :
             /\ FirstUnproved(hc.di, d)
             /\ IF hc.advance < Challenge(d) + ChallengeConfidence
                THEN current' = NONE /\ gen' = Expire.gen
                ELSE \E g \in Gen : startGeneratePoST(g, d)
  /\ UNCHANGED <<hc, adding, late, posts, submitter>>

(* A goroutine reports what it computed: an error, or the posts of its window. *)
(* An aborted one may have succeeded.  The cache is written here; add keeps    *)
(* its lock until it has sent.  A reader that waits for the lock goes first.   *)
processPostResult(g) ==
  /\ gen[g] # Idle /\ adding = NONE
  /\ gen' = [gen EXCEPT ![g] = Idle]
  /\ \/ /\ current' = IF current = g THEN NONE ELSE current
        /\ UNCHANGED <<adding, late, cache>>
     \/ \E res \in {"posts", "empty"} :
          /\ taken = NONE
          /\ current' = NONE
          /\ late' = (late \/ gen[g].aborted)
          /\ cache' = [cache EXCEPT ![gen[g].di] = res]
          /\ adding' = gen[g].di
  /\ UNCHANGED <<sched, added, submitter>>

(* postsCache.add sends on the channel and returns. *)
add ==
  /\ adding # NONE
  /\ Len(added) < AddedCap
  /\ added' = Append(added, adding)
  /\ adding' = NONE
  /\ UNCHANGED <<sched, current, gen, late, cache, submitter>>

----------------------------------------------------------------------------
(* The submitter. *)

(* postsCache.get waits while the prover holds the lock. *)
Readable == adding = NONE


(* The submitter receives a head change and, in processHeadChange, waits for  *)
(* the lock.  Go's select chooses among ready cases at random: unless         *)
(* PassesOver, it does not pass over a channel that is full.                  *)
HeadChangeTaken ==
  /\ hc # NONE /\ to = "submitter" /\ taken = NONE
  /\ ~Readable
  /\ PassesOver \/ Len(added) < AddedCap
  /\ taken' = hc
  /\ hc' = NONE /\ to' = "prover"
  /\ UNCHANGED <<prover, posts, currentTS, pw, orphans, missed,
                 sent>>

(* submitIfReady for a window in state st, with the head at height h. *)
Ready(d, st, h) ==
  /\ h < Close(d)
  /\ st = "Start"
  /\ h >= Open(d) + SubmitConfidence
  /\ cache[d] # "none"

submitIfReady(d, st, h) ==
  IF ~Ready(d, st, h) THEN st
  ELSE IF cache[d] = "empty" THEN "Complete" ELSE "Submitting"

(* processHeadChangeForPW up to submitIfReady, for head change c. *)
RevertedToPrevDL(c, d) == c.revert # NONE /\ c.revert < Open(d)
Expired(c, d)          == c.advance >= Close(d)

Aborts(c, d) ==
  pw[d] = "Submitting" /\ (RevertedToPrevDL(c, d) \/ Expired(c, d))
Resets(c, d) == pw[d] = "Complete" /\ RevertedToPrevDL(c, d)

AfterChange(c, d) ==
  IF Aborts(c, d) \/ Resets(c, d) \/ (pw[d] = NONE /\ d = c.di)
  THEN "Start" ELSE pw[d]

(* All windows that are tracked. *)
processHeadChange(c) ==
  LET Now(d)     == submitIfReady(d, AfterChange(c, d), c.advance)
      Left(d)    == AfterChange(c, d) = "Start" /\ Now(d) # "Start"
  IN /\ Readable
     /\ currentTS' = c.advance
     /\ pw' = [d \in Deadline |-> Now(d)]
     /\ orphans' = orphans \cup {d \in Deadline : Aborts(c, d)}
     /\ missed' = [d \in Deadline |-> FALSE]
     /\ sent' = [d \in Deadline |->
                   \/ Left(d) /\ Now(d) = "Complete"
                   \/ sent[d] /\ ~Aborts(c, d) /\ ~Resets(c, d)]

SubmitterHeadChange ==
  \/ /\ hc # NONE /\ to = "submitter" /\ taken = NONE
     /\ processHeadChange(hc)
     /\ hc' = NONE /\ to' = "prover"
     /\ UNCHANGED <<taken, prover, posts>>
  \/ /\ taken # NONE
     /\ processHeadChange(taken)
     /\ taken' = NONE
     /\ UNCHANGED <<sched, prover, posts>>

(* Mutant: a proof that arrives is taken note of, the window is not looked at. *)
processPostReadyIgnored ==
  /\ added # <<>> /\ taken = NONE
  /\ added' = Tail(added)
  /\ UNCHANGED <<sched, prover, cache, submitter>>

(* Receiving lets a prover that waits in add go on, so the lock is free when *)
(* the cache is read.                                                        *)
processPostReady ==
  /\ added # <<>> /\ taken = NONE
  /\ added' = Tail(added)
  /\ LET d == Head(added)
         now == submitIfReady(d, pw[d], currentTS)
     IN IF pw[d] = NONE
        THEN UNCHANGED <<pw, missed, sent>>
        ELSE /\ pw' = [pw EXCEPT ![d] = now]
             /\ missed' = [missed EXCEPT ![d] = FALSE]
             /\ sent' = [sent EXCEPT ![d] =
                           @ \/ (now = "Complete" /\ pw[d] = "Start")]
  /\ UNCHANGED <<sched, prover, cache, taken, currentTS, orphans>>

(* The sending goroutine of the window reports. *)
processSubmitResult(d) ==
  /\ taken = NONE
  /\ pw[d] = "Submitting"
  /\ \E ok \in BOOLEAN :
       /\ pw' = [pw EXCEPT ![d] = IF ok THEN "Complete" ELSE "Start"]
       /\ missed' = [missed EXCEPT ![d] = ~ok]
       /\ sent' = [sent EXCEPT ![d] = ok]
  /\ UNCHANGED <<sched, prover, posts, taken, currentTS, orphans>>

(* Mutant: the result of an aborted send reaches the window's new object. *)
OrphanResultClobbers(d) ==
  /\ taken = NONE /\ d \in orphans
  /\ orphans' = orphans \ {d}
  /\ pw' = [pw EXCEPT ![d] = "Complete"]
  /\ UNCHANGED <<sched, prover, posts, taken, currentTS, missed, sent>>

(* The result of an aborted send changes an object nobody refers to. *)
OrphanResult(d) ==
  /\ taken = NONE /\ d \in orphans
  /\ orphans' = orphans \ {d}
  /\ UNCHANGED <<sched, prover, posts, taken, currentTS, pw, missed, sent>>

----------------------------------------------------------------------------

Scheduler == \E rev \in Reverted \cup {NONE}, adv \in Epoch : update(rev, adv)
Prover    == ProverHeadChange \/ add \/ \E g \in Gen : processPostResult(g)
Submitter ==
  \/ HeadChangeTaken \/ SubmitterHeadChange \/ processPostReady
  \/ \E d \in Deadline : processSubmitResult(d) \/ OrphanResult(d)

Next == Scheduler \/ Prover \/ Submitter

Spec == Init /\ [][Next]_vars

(* The two loops run, and Go's select does not starve the channel of proofs. *)
FairSpec ==
  /\ Spec
  /\ WF_vars(add) /\ WF_vars(SubmitterHeadChange) /\ SF_vars(processPostReady)

----------------------------------------------------------------------------
(* Properties. *)

(* The types of all variables; a goroutine that reports belongs to a window. *)
TypeOK ==
  /\ to \in {"prover", "submitter"}
  /\ \A c \in {hc, taken} :
       \/ c = NONE
       \/ c \in [revert : Epoch \cup {NONE}, advance : Epoch, di : Deadline]
  /\ current \in Gen \cup {NONE} /\ late \in BOOLEAN
  /\ gen \in [Gen -> {Idle} \cup [di : Deadline, aborted : BOOLEAN]]
  /\ adding \in Deadline \cup {NONE}
  /\ cache \in [Deadline -> {"none", "empty", "posts"}]
  /\ added \in Seq(Deadline) /\ Len(added) <= AddedCap
  /\ currentTS \in Epoch \cup {NONE}
  /\ pw \in [Deadline -> {NONE, "Start", "Submitting", "Complete"}]
  /\ orphans \subseteq Deadline
  /\ missed \in [Deadline -> BOOLEAN] /\ sent \in [Deadline -> BOOLEAN]

Waiting(d) == pw[d] # NONE /\ Ready(d, pw[d], currentTS)

Queued == {added[i] : i \in DOMAIN added}

(* A window whose proofs are in the cache, that is open at the submitter's   *)
(* head and waits to be sent, has its wakeup under way, unless a send failed *)
(* and is to be repeated at the next head: the cache and the channel of      *)
(* postsCache.add never leave a proof behind.                                *)
NoLostProof ==
  \A d \in Deadline :
    Waiting(d) => d \in Queued \/ adding = d \/ missed[d]

(* Proofs that are being generated and were not aborted. *)
Live == {g \in Gen : gen[g] # Idle /\ ~gen[g].aborted}

(* "Only generate one proof at a time": at most one generation is neither  *)
(* finished nor aborted, and it is the handler's current one, as long as   *)
(* no aborted generation reported success.                                 *)
OneProofUnlessLate == ~late => Live = {current} \ {NONE}

(* A window is taken for submitted only if its proofs were sent, or there  *)
(* was nothing to send, since the last revert or abort: the result of an   *)
(* aborted send does not count for the window that replaced it.            *)
CompleteMeansSent == \A d \in Deadline : pw[d] = "Complete" => sent[d]

(* A send that was not aborted is for a window that is open at the head the *)
(* submitter works with: expiry and reverts abort it in the same step.      *)
SendingIsOpen ==
  \A d \in Deadline :
    pw[d] = "Submitting" =>
      /\ currentTS < Close(d)
      /\ cache[d] # "none"


=============================================================================
