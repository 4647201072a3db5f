-------------------------- MODULE WdPostHandlerProofs --------------------------
(***************************************************************************)
(* The safety of the change handler, for any number of windows, goroutines *)
(* and places in the channel, and any confidence and lookback.             *)
(***************************************************************************)
EXTENDS WdPostHandler, TLAPS

Change == [revert : Epoch \cup {NONE}, advance : Epoch, di : Deadline]

(* The current proof is one that is being generated. *)
CurrentRuns == current # NONE => gen[current] # Idle

IInv ==
  /\ TypeOK /\ CurrentRuns
  /\ NoLostProof /\ OneProofUnlessLate /\ CompleteMeansSent /\ SendingIsOpen

(* A window opens when the one before it closes: the loop of the prover,   *)
(* which follows nextDeadline, meets the windows in the order they open.   *)
THEOREM WindowsAdjoin ==
  ASSUME NEW di \in [periodStart : Int, index : Nat]
  PROVE  Open(nextDeadline(di)) = Close(di)
<1>1. CASE di.index + 1 = WPoStPeriodDeadlines
  <2>1. nextDeadline(di).periodStart = di.periodStart + WPoStProvingPeriod
        /\ nextDeadline(di).index = 0
    BY <1>1 DEF nextDeadline
  <2>2. WPoStProvingPeriod = (di.index + 1) * WPoStChallengeWindow
    BY <1>1 DEF WPoStProvingPeriod
  <2>3. (di.index + 1) * WPoStChallengeWindow
          = di.index * WPoStChallengeWindow + WPoStChallengeWindow
    BY WdPostAssumption
  <2>4. QED
    BY <2>1, <2>2, <2>3, WdPostAssumption DEF Open, Close
<1>2. CASE di.index + 1 # WPoStPeriodDeadlines
  <2>1. nextDeadline(di).periodStart = di.periodStart
        /\ nextDeadline(di).index = di.index + 1
    BY <1>2 DEF nextDeadline
  <2>2. (di.index + 1) * WPoStChallengeWindow
          = di.index * WPoStChallengeWindow + WPoStChallengeWindow
    BY WdPostAssumption
  <2>3. QED
    BY <2>1, <2>2, WdPostAssumption DEF Open, Close
<1>3. QED
  BY <1>1, <1>2

(* When a window closes is a number. *)
LEMMA CloseType ==
  ASSUME NEW d \in Deadline
  PROVE  Close(d) \in Int
<1>1. Starts \subseteq Int
  BY WdPostAssumption DEF Starts, WPoStProvingPeriod
<1>2. d.periodStart \in Int /\ d.index \in Int
  <2>1. d.periodStart \in Starts /\ d.index \in 0 .. WPoStPeriodDeadlines - 1
    BY DEF Deadline
  <2>2. d.periodStart \in Int
    BY <2>1, <1>1, Zenon
  <2>3. WPoStPeriodDeadlines \in Int
    BY WdPostAssumption
  <2>4. d.index \in Int
    BY <2>1, <2>3
  <2>5. QED
    BY <2>2, <2>4
<1>3. d.index * WPoStChallengeWindow \in Int
  BY <1>2, WdPostAssumption
<1>4. QED
  BY <1>2, <1>3, WdPostAssumption DEF Close, Open

LEMMA InitIInv == Init => IInv
<1> SUFFICES ASSUME Init PROVE IInv
  OBVIOUS
<1> USE DEF Init
<1>1. TypeOK
  <2>1. added \in Seq(Deadline) /\ Len(added) <= AddedCap
    BY WdPostAssumption
  <2>2. QED
    BY <2>1, Zenon DEF TypeOK
<1>2. CurrentRuns /\ OneProofUnlessLate
  BY DEF CurrentRuns, OneProofUnlessLate, Live
<1>3. NoLostProof /\ CompleteMeansSent /\ SendingIsOpen
  <2>1. \A d \in Deadline : pw[d] = NONE
    OBVIOUS
  <2>2. NONE # "Complete" /\ NONE # "Submitting"
    BY WdPostAssumption
  <2>3. QED
    BY <2>1, <2>2 DEF NoLostProof, Waiting, CompleteMeansSent, SendingIsOpen
<1>4. QED
  BY <1>1, <1>2, <1>3 DEF IInv

--------------------------------------------------------------------------------
(* The scheduler and the prover. *)

(* A head change the scheduler hands over disturbs the types only. *)
LEMMA UpdateStep ==
  ASSUME IInv, NEW rev \in Reverted \cup {NONE}, NEW adv \in Epoch, update(rev, adv)
  PROVE  IInv'
<1> USE DEF update, prover, posts, submitter
<1>1. hc' \in Change
  BY WdPostAssumption DEF HeadChange, Change
<1>2. TypeOK'
  BY <1>1 DEF IInv, TypeOK, Change
<1>3. CurrentRuns' /\ OneProofUnlessLate'
  BY DEF IInv, CurrentRuns, OneProofUnlessLate, Live
<1>4. NoLostProof' /\ CompleteMeansSent' /\ SendingIsOpen'
  BY DEF IInv, NoLostProof, Waiting, Ready, Queued, CompleteMeansSent, SendingIsOpen
<1>5. QED
  BY <1>2, <1>3, <1>4 DEF IInv

(* After Expire the current proof still runs, and it alone is live. *)
LEMMA ExpireFact ==
  ASSUME IInv
  PROVE  /\ Expire.current \in Gen \cup {NONE}
         /\ Expire.gen \in [Gen -> {Idle} \cup [di : Deadline, aborted : BOOLEAN]]
         /\ Expire.current # NONE => Expire.gen[Expire.current] # Idle
         /\ ~late => {g \in Gen : Expire.gen[g] # Idle /\ ~Expire.gen[g].aborted}
                       = {Expire.current} \ {NONE}
<1>1. CASE current # NONE /\ hc.advance >= Close(gen[current].di)
  <2>1. current \in Gen /\ gen[current] \in [di : Deadline, aborted : BOOLEAN]
    BY <1>1 DEF IInv, TypeOK, CurrentRuns
  <2>2. /\ Expire.current = NONE
        /\ Expire.gen = [gen EXCEPT ![current].aborted = TRUE]
    BY <1>1 DEF Expire
  <2>3. Expire.gen \in [Gen -> {Idle} \cup [di : Deadline, aborted : BOOLEAN]]
    BY <2>1, <2>2, ZenonT(120) DEF IInv, TypeOK
  <2>4. /\ Expire.gen[current].aborted = TRUE
        /\ \A g \in Gen \ {current} : Expire.gen[g] = gen[g]
    BY <2>1, <2>2 DEF IInv, TypeOK
  <2>5. ~late => {g \in Gen : Expire.gen[g] # Idle /\ ~Expire.gen[g].aborted} = {}
    BY <2>4, <2>1 DEF IInv, OneProofUnlessLate, Live
  <2>6. QED
    BY <2>2, <2>3, <2>5
<1>2. CASE ~(current # NONE /\ hc.advance >= Close(gen[current].di))
  <2>1. Expire.current = current /\ Expire.gen = gen
    BY <1>2 DEF Expire
  <2>2. QED
    BY <2>1 DEF IInv, TypeOK, CurrentRuns, OneProofUnlessLate, Live
<1>3. QED
  BY <1>1, <1>2

LEMMA ProverHeadChangeStep ==
  ASSUME IInv, ProverHeadChange
  PROVE  IInv'
<1> USE DEF posts, submitter
<1>1. /\ to' = "submitter"
      /\ UNCHANGED <<hc, adding, late, posts, submitter>>
  BY DEF ProverHeadChange
<1>2. /\ current' \in Gen \cup {NONE}
      /\ gen' \in [Gen -> {Idle} \cup [di : Deadline, aborted : BOOLEAN]]
      /\ CurrentRuns' /\ OneProofUnlessLate'
  <2>1. CASE current' = Expire.current /\ gen' = Expire.gen
    BY <2>1, <1>1, ExpireFact DEF CurrentRuns, OneProofUnlessLate, Live
  <2>2. ASSUME Expire.current = NONE,
               NEW g \in Gen, NEW d \in Deadline, startGeneratePoST(g, d)
        PROVE  <1>2
    <3>1. /\ Expire.gen[g] = Idle /\ current' = g
          /\ gen' = [Expire.gen EXCEPT ![g] = [di |-> d, aborted |-> FALSE]]
      BY <2>2 DEF startGeneratePoST
    <3>2. /\ gen' \in [Gen -> {Idle} \cup [di : Deadline, aborted : BOOLEAN]]
          /\ gen'[g] = [di |-> d, aborted |-> FALSE]
          /\ \A h \in Gen \ {g} : gen'[h] = Expire.gen[h]
      BY <3>1, ExpireFact
    <3>3. gen'[g] # Idle /\ ~gen'[g].aborted /\ g # NONE
      BY <3>2, WdPostAssumption DEF Idle
    <3>4. ~late => \A h \in Gen : Expire.gen[h] = Idle \/ Expire.gen[h].aborted
      BY <2>2, ExpireFact
    <3>5. ~late' => Live' = {g}
      BY <3>2, <3>3, <3>4, <1>1 DEF Live
    <3>6. QED
      BY <3>1, <3>2, <3>3, <3>5 DEF CurrentRuns, OneProofUnlessLate
  <2>3. QED
    BY <2>1, <2>2 DEF ProverHeadChange
<1>3. TypeOK'
  BY <1>1, <1>2 DEF IInv, TypeOK
<1>4. NoLostProof' /\ CompleteMeansSent' /\ SendingIsOpen'
  BY <1>1 DEF IInv, NoLostProof, Waiting, Ready, Queued, CompleteMeansSent, SendingIsOpen
<1>5. QED
  BY <1>2, <1>3, <1>4 DEF IInv
(* A goroutine reports: the others stay as they are. *)
LEMMA ResultGen ==
  ASSUME IInv, NEW g \in Gen, processPostResult(g)
  PROVE  /\ gen' \in [Gen -> {Idle} \cup [di : Deadline, aborted : BOOLEAN]]
         /\ current' \in Gen \cup {NONE} /\ late' \in BOOLEAN
         /\ CurrentRuns' /\ OneProofUnlessLate'
<1>1. /\ gen' \in [Gen -> {Idle} \cup [di : Deadline, aborted : BOOLEAN]]
      /\ gen'[g] = Idle
      /\ \A h \in Gen \ {g} : gen'[h] = gen[h]
  BY DEF processPostResult, IInv, TypeOK
<1>2. gen[g] # Idle /\ gen[g] \in [di : Deadline, aborted : BOOLEAN]
  BY DEF processPostResult, IInv, TypeOK
<1>3. CASE /\ current' = IF current = g THEN NONE ELSE current
           /\ UNCHANGED late
  <2>1. current' \in Gen \cup {NONE} /\ late' \in BOOLEAN /\ current' # g
    BY <1>3, WdPostAssumption DEF IInv, TypeOK
  <2>2. CurrentRuns'
    BY <2>1, <1>1, <1>3 DEF IInv, TypeOK, CurrentRuns
  <2>3. Live' = Live \ {g}
    BY <1>1 DEF Live
  <2>4. OneProofUnlessLate'
    BY <2>3, <1>3 DEF IInv, OneProofUnlessLate
  <2>5. QED
    BY <1>1, <2>1, <2>2, <2>4
<1>4. CASE /\ current' = NONE
           /\ late' = (late \/ gen[g].aborted)
  <2>1. late' \in BOOLEAN
    BY <1>4, <1>2 DEF IInv, TypeOK
  <2>2. Live' = Live \ {g}
    BY <1>1 DEF Live
  <2>3. ~late' => g \in Live
    BY <1>4, <1>2 DEF Live
  <2>4. OneProofUnlessLate'
    BY <2>2, <2>3, <1>4, Zenon DEF IInv, OneProofUnlessLate
  <2>5. QED
    BY <1>1, <1>4, <2>1, <2>4 DEF CurrentRuns
<1>5. QED
  BY <1>3, <1>4 DEF processPostResult

LEMMA ResultStep ==
  ASSUME IInv, NEW g \in Gen, processPostResult(g)
  PROVE  IInv'
<1>1. UNCHANGED <<sched, added, submitter>>
  BY DEF processPostResult
<1>2. CASE UNCHANGED <<adding, late, cache>>
  <2>1. TypeOK'
    BY <1>1, <1>2, ResultGen DEF IInv, TypeOK, sched, submitter
  <2>2. NoLostProof' /\ CompleteMeansSent' /\ SendingIsOpen'
    BY <1>1, <1>2 DEF IInv, NoLostProof, Waiting, Ready, Queued,
                      CompleteMeansSent, SendingIsOpen, submitter
  <2>3. QED
    BY <2>1, <2>2, ResultGen DEF IInv
<1>3. ASSUME NEW res \in {"posts", "empty"}, adding = NONE,
             cache' = [cache EXCEPT ![gen[g].di] = res], adding' = gen[g].di
      PROVE  IInv'
  <2> DEFINE w == gen[g].di
  <2>1. w \in Deadline
    BY DEF processPostResult, IInv, TypeOK
  <2>2. /\ cache' \in [Deadline -> {"none", "empty", "posts"}]
        /\ cache'[w] # "none"
        /\ \A d \in Deadline \ {w} : cache'[d] = cache[d]
    BY <2>1, <1>3 DEF IInv, TypeOK
  <2>3. TypeOK'
    BY <1>1, <1>3, <2>1, <2>2, ResultGen DEF IInv, TypeOK, sched, submitter
  <2>4. NoLostProof'
    <3>1. SUFFICES ASSUME NEW d \in Deadline, Waiting(d)', d # w
                   PROVE  d \in Queued' \/ missed'[d]
      BY <1>3 DEF NoLostProof
    <3>2. Waiting(d)
      BY <3>1, <2>2, <1>1 DEF Waiting, Ready, submitter
    <3>3. adding # d
      BY <1>3, WdPostAssumption
    <3>4. d \in Queued \/ missed[d]
      BY <3>2, <3>3 DEF IInv, NoLostProof
    <3>5. QED
      BY <3>4, <1>1 DEF Queued, submitter
  <2>5. CompleteMeansSent'
    BY <1>1 DEF IInv, CompleteMeansSent, submitter
  <2>6. SendingIsOpen'
    BY <1>1, <2>2 DEF IInv, SendingIsOpen, submitter
  <2>7. QED
    BY <2>3, <2>4, <2>5, <2>6, ResultGen DEF IInv
<1>4. QED
  BY <1>2, <1>3 DEF processPostResult

(* The window the prover was adding is then in the channel. *)
LEMMA AddStep ==
  ASSUME IInv, add
  PROVE  IInv'
<1>1. /\ adding \in Deadline /\ adding' = NONE
      /\ added \in Seq(Deadline) /\ added' = Append(added, adding)
      /\ Len(added) < AddedCap
      /\ UNCHANGED <<sched, current, gen, late, cache, submitter>>
  BY DEF add, IInv, TypeOK
<1>2. added' \in Seq(Deadline) /\ Len(added') = Len(added) + 1
  BY <1>1
<1>3. Len(added') <= AddedCap
  BY <1>1, <1>2, WdPostAssumption
<1>4. TypeOK'
  BY <1>1, <1>2, <1>3 DEF IInv, TypeOK, sched, submitter
<1>5. CurrentRuns' /\ OneProofUnlessLate'
  BY <1>1 DEF IInv, CurrentRuns, OneProofUnlessLate, Live
<1>6. Queued' = Queued \cup {adding}
  <2>1. DOMAIN added' = DOMAIN added \cup {Len(added) + 1}
    BY <1>1
  <2>2. \A i \in DOMAIN added : added'[i] = added[i] /\ i # Len(added) + 1
    BY <1>1
  <2>3. added'[Len(added) + 1] = adding
    BY <1>1
  <2>4. QED
    BY <2>1, <2>2, <2>3 DEF Queued
<1>7. NoLostProof'
  BY <1>1, <1>6 DEF IInv, NoLostProof, Waiting, Ready, submitter
<1>8. CompleteMeansSent' /\ SendingIsOpen'
  BY <1>1 DEF IInv, CompleteMeansSent, SendingIsOpen, submitter
<1>9. QED
  BY <1>4, <1>5, <1>7, <1>8 DEF IInv

--------------------------------------------------------------------------------
(* The submitter. *)

(* Steps of the submitter that leave the windows alone. *)
LEMMA TakenStep ==
  ASSUME IInv, HeadChangeTaken
  PROVE  IInv'
<1>1. /\ taken' = hc /\ hc' = NONE /\ to' = "prover"
      /\ UNCHANGED <<prover, posts, currentTS, pw, orphans, missed, sent>>
  BY DEF HeadChangeTaken
<1>2. TypeOK'
  BY <1>1 DEF IInv, TypeOK, prover, posts
<1>3. CurrentRuns' /\ OneProofUnlessLate'
  BY <1>1 DEF IInv, CurrentRuns, OneProofUnlessLate, Live, prover
<1>4. NoLostProof' /\ CompleteMeansSent' /\ SendingIsOpen'
  BY <1>1 DEF IInv, NoLostProof, Waiting, Ready, Queued, CompleteMeansSent,
              SendingIsOpen, prover, posts
<1>5. QED
  BY <1>2, <1>3, <1>4 DEF IInv

LEMMA OrphanStep ==
  ASSUME IInv, NEW d \in Deadline, OrphanResult(d)
  PROVE  IInv'
<1>1. /\ orphans' = orphans \ {d}
      /\ UNCHANGED <<sched, prover, posts, taken, currentTS, pw, missed, sent>>
  BY DEF OrphanResult
<1>2. TypeOK'
  BY <1>1 DEF IInv, TypeOK, sched, prover, posts
<1>3. CurrentRuns' /\ OneProofUnlessLate'
  BY <1>1 DEF IInv, CurrentRuns, OneProofUnlessLate, Live, prover
<1>4. NoLostProof' /\ CompleteMeansSent' /\ SendingIsOpen'
  BY <1>1 DEF IInv, NoLostProof, Waiting, Ready, Queued, CompleteMeansSent,
              SendingIsOpen, prover, posts
<1>5. QED
  BY <1>2, <1>3, <1>4 DEF IInv

(* What submitIfReady makes of a window: one that still waits was not ready. *)
LEMMA SubmitFact ==
  ASSUME NEW d, NEW st, NEW h
  PROVE  /\ submitIfReady(d, st, h) \in {st, "Complete", "Submitting"}
         /\ ~Ready(d, submitIfReady(d, st, h), h)
         /\ submitIfReady(d, st, h) # st =>
              st = "Start" /\ h < Close(d) /\ cache[d] # "none"
BY DEF submitIfReady, Ready

(* A head change: each window is aborted, reset or tracked, and then looked at. *)
LEMMA ChangeFacts ==
  ASSUME IInv, NEW c \in Change, processHeadChange(c), UNCHANGED cache
  PROVE  /\ pw' \in [Deadline -> {NONE, "Start", "Submitting", "Complete"}]
         /\ \A d \in Deadline : ~Waiting(d)'
         /\ CompleteMeansSent' /\ SendingIsOpen'
<1> DEFINE After(d) == AfterChange(c, d)
           Now(d) == submitIfReady(d, After(d), c.advance)
<1>1. /\ currentTS' = c.advance
      /\ pw' = [d \in Deadline |-> Now(d)]
      /\ sent' = [d \in Deadline |->
                   \/ After(d) = "Start" /\ Now(d) # "Start" /\ Now(d) = "Complete"
                   \/ sent[d] /\ ~Aborts(c, d) /\ ~Resets(c, d)]
  BY DEF processHeadChange
<1>2. \A d \in Deadline : After(d) \in {"Start", pw[d]}
  BY DEF AfterChange
<1>3. \A d \in Deadline : Now(d) \in {After(d), "Complete", "Submitting"}
  BY SubmitFact
<1>4. pw' \in [Deadline -> {NONE, "Start", "Submitting", "Complete"}]
  BY <1>1, <1>2, <1>3 DEF IInv, TypeOK
<1>5. \A d \in Deadline : ~Waiting(d)'
  <2> TAKE d \in Deadline
  <2>1. ~Ready(d, Now(d), c.advance)
    BY SubmitFact
  <2>2. pw'[d] = Now(d)
    BY <1>1
  <2>3. QED
    BY <2>1, <2>2, <1>1 DEF Waiting, Ready
<1>6. CompleteMeansSent'
  <2> SUFFICES ASSUME NEW d \in Deadline, pw'[d] = "Complete"
               PROVE  sent'[d]
    BY DEF CompleteMeansSent
  <2>1. Now(d) = "Complete"
    BY <1>1
  <2>2. CASE Now(d) # After(d)
    <3>1. After(d) = "Start"
      BY <2>2, SubmitFact
    <3>2. QED
      BY <3>1, <2>1, <1>1
  <2>3. CASE Now(d) = After(d)
    <3>1. pw[d] = "Complete" /\ ~Aborts(c, d) /\ ~Resets(c, d)
      BY <2>1, <2>3 DEF AfterChange
    <3>2. sent[d]
      BY <3>1 DEF IInv, CompleteMeansSent
    <3>3. QED
      BY <3>1, <3>2, <1>1
  <2>4. QED
    BY <2>2, <2>3
<1>7. SendingIsOpen'
  <2> SUFFICES ASSUME NEW d \in Deadline, pw'[d] = "Submitting"
               PROVE  c.advance < Close(d) /\ cache[d] # "none"
    BY <1>1 DEF SendingIsOpen, Close, Open
  <2>1. Now(d) = "Submitting"
    BY <1>1
  <2>2. CASE Now(d) # After(d)
    BY <2>2, SubmitFact
  <2>3. CASE Now(d) = After(d)
    <3>1. pw[d] = "Submitting" /\ ~Aborts(c, d)
      BY <2>1, <2>3 DEF AfterChange
    <3>2. ~(c.advance >= Close(d))
      BY <3>1 DEF Aborts, Expired
    <3>3. c.advance \in Int /\ Close(d) \in Int
      BY CloseType DEF Change, Epoch
    <3>4. c.advance < Close(d)
      BY <3>2, <3>3
    <3>5. QED
      BY <3>1, <3>4 DEF IInv, SendingIsOpen
  <2>4. QED
    BY <2>2, <2>3
<1>8. QED
  BY <1>4, <1>5, <1>6, <1>7

LEMMA ChangeStep ==
  ASSUME IInv, SubmitterHeadChange
  PROVE  IInv'
<1>1. PICK c \in Change : processHeadChange(c)
  BY DEF SubmitterHeadChange, IInv, TypeOK, Change
<1>2. /\ UNCHANGED <<prover, posts>>
      /\ to' \in {"prover", "submitter"}
      /\ hc' \in {hc, NONE} /\ taken' \in {taken, NONE}
  BY DEF SubmitterHeadChange, sched, IInv, TypeOK
<1>3. /\ pw' \in [Deadline -> {NONE, "Start", "Submitting", "Complete"}]
      /\ \A d \in Deadline : ~Waiting(d)'
      /\ CompleteMeansSent' /\ SendingIsOpen'
  BY <1>1, <1>2, ChangeFacts DEF posts
<1>4. /\ currentTS' \in Epoch /\ orphans' \subseteq Deadline
      /\ missed' \in [Deadline -> BOOLEAN]
  BY <1>1 DEF processHeadChange, Change, IInv, TypeOK
<1>5. sent' \in [Deadline -> BOOLEAN]
  BY <1>1 DEF processHeadChange
<1>6. TypeOK'
  BY <1>2, <1>3, <1>4, <1>5 DEF IInv, TypeOK, prover, posts
<1>7. CurrentRuns' /\ OneProofUnlessLate'
  BY <1>2 DEF IInv, CurrentRuns, OneProofUnlessLate, Live, prover
<1>8. NoLostProof'
  BY <1>3 DEF NoLostProof
<1>9. QED
  BY <1>3, <1>6, <1>7, <1>8 DEF IInv

(* The other windows keep their place in the channel. *)
LEMMA TailQueued ==
  ASSUME NEW s \in Seq(Deadline), s # <<>>
  PROVE  /\ Head(s) \in Deadline /\ Tail(s) \in Seq(Deadline)
         /\ Len(Tail(s)) = Len(s) - 1
         /\ \A i \in DOMAIN s : s[i] # Head(s) =>
              i - 1 \in DOMAIN Tail(s) /\ Tail(s)[i - 1] = s[i]
<1>1. /\ Head(s) \in Deadline /\ Tail(s) \in Seq(Deadline)
      /\ Len(Tail(s)) = Len(s) - 1 /\ Len(s) \in Nat
  OBVIOUS
<1>2. ASSUME NEW i \in DOMAIN s, s[i] # Head(s)
      PROVE  i - 1 \in DOMAIN Tail(s) /\ Tail(s)[i - 1] = s[i]
  <2>1. i \in 1 .. Len(s) /\ i # 1
    BY <1>2
  <2>2. i - 1 \in 1 .. Len(Tail(s)) /\ i - 1 + 1 = i
    BY <2>1, <1>1
  <2>3. QED
    BY <2>2, <1>1
<1>3. QED
  BY <1>1, <1>2

LEMMA PostReadyStep ==
  ASSUME IInv, processPostReady
  PROVE  IInv'
<1>0. PICK d \in Deadline : d = Head(added)
  BY TailQueued DEF processPostReady, IInv, TypeOK
<1> DEFINE now == submitIfReady(d, pw[d], currentTS)
<1>1. /\ added \in Seq(Deadline) /\ added # <<>> /\ added' = Tail(added)
      /\ UNCHANGED <<sched, prover, cache, taken, currentTS, orphans>>
  BY DEF processPostReady, IInv, TypeOK
<1>2. /\ d \in Deadline /\ added' \in Seq(Deadline)
      /\ Len(added') = Len(added) - 1 /\ Len(added) \in Nat
  BY <1>1, TailQueued
<1>3. Len(added') <= AddedCap
  BY <1>2, WdPostAssumption DEF IInv, TypeOK
<1>4. \A w \in Queued : w # d => w \in Queued'
  <2> SUFFICES ASSUME NEW i \in DOMAIN added, added[i] # d
               PROVE  added[i] \in Queued'
    BY DEF Queued
  <2>1. i - 1 \in DOMAIN added' /\ added'[i - 1] = added[i]
    BY <1>0, <1>1, TailQueued
  <2>2. QED
    BY <2>1 DEF Queued
<1>5. CurrentRuns' /\ OneProofUnlessLate'
  BY <1>1 DEF IInv, CurrentRuns, OneProofUnlessLate, Live, prover
<1>6. CASE pw[d] = NONE
  <2>1. UNCHANGED <<pw, missed, sent>>
    BY <1>0, <1>6 DEF processPostReady
  <2>2. TypeOK'
    BY <2>1, <1>1, <1>2, <1>3 DEF IInv, TypeOK, sched, prover
  <2>3. NoLostProof'
    BY <2>1, <1>1, <1>4, <1>6 DEF IInv, NoLostProof, Waiting, Ready, prover
  <2>4. CompleteMeansSent' /\ SendingIsOpen'
    BY <2>1, <1>1 DEF IInv, CompleteMeansSent, SendingIsOpen
  <2>5. QED
    BY <2>2, <2>3, <2>4, <1>5 DEF IInv
<1>7. CASE pw[d] # NONE
  <2>1. /\ pw' = [pw EXCEPT ![d] = now]
        /\ missed' = [missed EXCEPT ![d] = FALSE]
        /\ sent' = [sent EXCEPT ![d] = @ \/ (now = "Complete" /\ pw[d] = "Start")]
    BY <1>0, <1>7 DEF processPostReady
  <2>2. now \in {NONE, "Start", "Submitting", "Complete"}
    BY <1>2, SubmitFact DEF IInv, TypeOK
  <2>3. /\ pw' \in [Deadline -> {NONE, "Start", "Submitting", "Complete"}]
        /\ pw'[d] = now
        /\ missed' \in [Deadline -> BOOLEAN]
        /\ \A w \in Deadline \ {d} :
             pw'[w] = pw[w] /\ missed'[w] = missed[w] /\ sent'[w] = sent[w]
    BY <2>1, <2>2, <1>2 DEF IInv, TypeOK
  <2>4. /\ sent' \in [Deadline -> BOOLEAN]
        /\ sent'[d] = (sent[d] \/ (now = "Complete" /\ pw[d] = "Start"))
    BY <2>1, <1>2 DEF IInv, TypeOK
  <2>5. TypeOK'
    BY <2>3, <2>4, <1>1, <1>2, <1>3 DEF IInv, TypeOK, sched, prover
  <2>6. NoLostProof'
    <3>1. ~Waiting(d)'
      <4>1. ~Ready(d, now, currentTS)
        BY SubmitFact
      <4>2. QED
        BY <4>1, <2>3, <1>1 DEF Waiting, Ready
    <3>2. ASSUME NEW w \in Deadline, w # d, Waiting(w)'
          PROVE  w \in Queued' \/ adding' = w \/ missed'[w]
      <4>1. Waiting(w)
        BY <3>2, <2>3, <1>1 DEF Waiting, Ready
      <4>2. w \in Queued \/ adding = w \/ missed[w]
        BY <4>1 DEF IInv, NoLostProof
      <4>3. adding' = adding /\ missed'[w] = missed[w]
        BY <3>2, <2>3, <1>1 DEF prover
      <4>4. w \in Queued => w \in Queued'
        BY <3>2, <1>4
      <4>5. QED
        BY <4>2, <4>3, <4>4
    <3>3. QED
      BY <3>1, <3>2 DEF NoLostProof
  <2>7. CompleteMeansSent'
    <3>1. now = "Complete" => sent[d] \/ pw[d] = "Start"
      BY <1>2, SubmitFact DEF IInv, CompleteMeansSent
    <3>2. pw'[d] = "Complete" => sent'[d]
      BY <3>1, <2>3, <2>4
    <3>3. QED
      BY <3>2, <2>3 DEF IInv, CompleteMeansSent
  <2>8. SendingIsOpen'
    <3>1. now = "Submitting" => currentTS < Close(d) /\ cache[d] # "none"
      BY <1>2, SubmitFact DEF IInv, SendingIsOpen
    <3>2. QED
      BY <3>1, <2>3, <1>1 DEF IInv, SendingIsOpen, Close, Open
  <2>9. QED
    BY <2>5, <2>6, <2>7, <2>8, <1>5 DEF IInv
<1>8. QED
  BY <1>6, <1>7

LEMMA SubmitResultStep ==
  ASSUME IInv, NEW d \in Deadline, processSubmitResult(d)
  PROVE  IInv'
<1>1. PICK ok \in BOOLEAN :
        /\ pw' = [pw EXCEPT ![d] = IF ok THEN "Complete" ELSE "Start"]
        /\ missed' = [missed EXCEPT ![d] = ~ok]
        /\ sent' = [sent EXCEPT ![d] = ok]
  BY Zenon DEF processSubmitResult
<1>2. UNCHANGED <<sched, prover, posts, taken, currentTS, orphans>>
  BY DEF processSubmitResult
<1>3. /\ pw' \in [Deadline -> {NONE, "Start", "Submitting", "Complete"}]
      /\ pw'[d] = IF ok THEN "Complete" ELSE "Start"
      /\ \A w \in Deadline \ {d} : pw'[w] = pw[w]
  BY <1>1 DEF IInv, TypeOK
<1>4. /\ missed' \in [Deadline -> BOOLEAN] /\ missed'[d] = ~ok
      /\ sent' \in [Deadline -> BOOLEAN] /\ sent'[d] = ok
      /\ \A w \in Deadline \ {d} : missed'[w] = missed[w] /\ sent'[w] = sent[w]
  BY <1>1 DEF IInv, TypeOK
<1>5. TypeOK'
  BY <1>2, <1>3, <1>4 DEF IInv, TypeOK, sched, prover, posts
<1>6. CurrentRuns' /\ OneProofUnlessLate'
  BY <1>2 DEF IInv, CurrentRuns, OneProofUnlessLate, Live, prover
<1>7. NoLostProof'
  <2>1. Waiting(d)' => missed'[d]
    BY <1>3, <1>4 DEF Waiting, Ready
  <2>2. ASSUME NEW w \in Deadline, w # d, Waiting(w)'
        PROVE  w \in Queued' \/ adding' = w \/ missed'[w]
    <3>1. Waiting(w)
      BY <2>2, <1>2, <1>3 DEF Waiting, Ready, posts
    <3>2. w \in Queued \/ adding = w \/ missed[w]
      BY <3>1 DEF IInv, NoLostProof
    <3>3. QED
      BY <3>2, <2>2, <1>2, <1>4 DEF Queued, prover, posts
  <2>3. QED
    BY <2>1, <2>2 DEF NoLostProof
<1>8. CompleteMeansSent'
  BY <1>3, <1>4 DEF IInv, CompleteMeansSent
<1>9. SendingIsOpen'
  BY <1>2, <1>3 DEF IInv, SendingIsOpen, posts, Close, Open
<1>10. QED
  BY <1>5, <1>6, <1>7, <1>8, <1>9 DEF IInv

--------------------------------------------------------------------------------
LEMMA StepIInv ==
  ASSUME IInv, [Next]_vars
  PROVE  IInv'
<1>1. CASE UNCHANGED vars
  <2> USE <1>1 DEF vars, sched, prover, posts, submitter
  <2>1. TypeOK' /\ CurrentRuns' /\ OneProofUnlessLate'
    BY SMTT(120) DEF IInv, TypeOK, CurrentRuns, OneProofUnlessLate, Live
  <2>2. NoLostProof' /\ CompleteMeansSent' /\ SendingIsOpen'
    BY DEF IInv, NoLostProof, Waiting, Ready, Queued, CompleteMeansSent, SendingIsOpen
  <2>3. QED
    BY <2>1, <2>2 DEF IInv
<1>2. CASE Scheduler
  BY <1>2, UpdateStep DEF Scheduler
<1>3. CASE Prover
  BY <1>3, ProverHeadChangeStep, AddStep, ResultStep DEF Prover
<1>4. CASE Submitter
  BY <1>4, TakenStep, ChangeStep, PostReadyStep, SubmitResultStep, OrphanStep
     DEF Submitter
<1>5. QED
  BY <1>1, <1>2, <1>3, <1>4 DEF Next

LEMMA Inductive == Spec => []IInv
<1>1. Init => IInv
  BY InitIInv
<1>2. IInv /\ [Next]_vars => IInv'
  BY StepIInv
<1>3. QED
  BY <1>1, <1>2, PTL DEF Spec

(* The variables keep their types and the channel its capacity. *)
THEOREM TypeCorrect == Spec => []TypeOK
<1>1. IInv => TypeOK
  BY DEF IInv
<1>2. QED
  BY <1>1, Inductive, PTL

(* A window that is ready to be sent has a wakeup under way, or its send   *)
(* failed: between postsCache.add, its channel and the submitter no proof  *)
(* is left behind.                                                         *)
THEOREM NoProofIsLost == Spec => []NoLostProof
<1>1. IInv => NoLostProof
  BY DEF IInv
<1>2. QED
  BY <1>1, Inductive, PTL

(* The prover works on one proof that is not aborted, its current one, as  *)
(* long as no aborted generation reported success.                         *)
THEOREM OneProof == Spec => []OneProofUnlessLate
<1>1. IInv => OneProofUnlessLate
  BY DEF IInv
<1>2. QED
  BY <1>1, Inductive, PTL

(* A window taken for submitted was submitted since it was last reset. *)
THEOREM CompletedWasSent == Spec => []CompleteMeansSent
<1>1. IInv => CompleteMeansSent
  BY DEF IInv
<1>2. QED
  BY <1>1, Inductive, PTL

(* A send under way is for a window open at the submitter's head. *)
THEOREM SendsAreOpen == Spec => []SendingIsOpen
<1>1. IInv => SendingIsOpen
  BY DEF IInv
<1>2. QED
  BY <1>1, Inductive, PTL

===============================================================================
