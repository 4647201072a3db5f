------------------------------ MODULE Sealing ------------------------------
(***************************************************************************)
(* The life of one sector in storage/pipeline: the state machine of module *)
(* SealingFsm, the handler of every state, the process that runs them (one *)
(* handler at a time, events queued in memory, everything in memory lost   *)
(* by a restart), the callbacks and batchers that answer later, the        *)
(* requests of a user, and the chain the handlers read and send to.        *)
(*                                                                         *)
(* A ticket is the epoch it was drawn at (0: none).  What is sealed with a *)
(* ticket is identified with that ticket (CommR, the output of the first   *)
(* phase), a seed with its epoch.  A message is an index in `msgs`, which  *)
(* holds what was sent and how it fared.                                   *)
(***************************************************************************)
EXTENDS SealingFsm

CONSTANTS
  SealRandomnessLookback,     \* chain/actors/policy
  MaxTicketAge,               \* policy.MaxPreCommitRandomnessLookback
  PreCommitChallengeDelay,
  MaxProveCommitDuration,
  Confidence,                 \* build.MessageConfidence and InteractivePoRepConfidence
  StartHeight, MaxHeight,     \* bound: the epochs the model looks at
  MaxFaults,                  \* bound: failures, restarts, reorganisations, requests
  MaxMsgs,                    \* bound: messages sent
  QueueCap,                   \* bound: from here on an event is not queued twice in a row
  Starts,                     \* how the sector comes to be: "SectorStart", "SectorStartCC", "CC"
  Requests                    \* what the user may ask for, each once

ASSUME ChainConstants ==
  /\ {SealRandomnessLookback, MaxTicketAge, PreCommitChallengeDelay, Confidence} \subseteq Nat
  /\ PreCommitChallengeDelay < MaxProveCommitDuration
  /\ StartHeight - SealRandomnessLookback > 0
  /\ StartHeight > MaxTicketAge       \* the empty ticket counts as old

VARIABLES
  si,         \* SectorInfo, in the datastore
  run,        \* "handler": one runs (or waits for a message, a batcher); otherwise why none does
  queue,      \* pending events, in memory
  queued,     \* what the running handler has given to a batcher, or NONE
  timers,     \* callbacks registered with ChainAt: events and their epochs
  input,      \* openSectors, assignedPieces, available: this sector's part
  chain,      \* height, precommit, allocation, sector info at the head
  base,       \* the same below the head tipset
  market,     \* the state of the deals: "ok", "moved", "gone", "expired"
  msgs,       \* messages sent to the message pool
  faults,     \* failures left
  asked,      \* user requests made
  refused,    \* history: events a planner did not expect, with the state
  unrecorded  \* history: kinds of messages sent whose identifier was lost in a restart

vars == <<si, run, queue, queued, timers, input, chain, base, market, msgs, faults, asked,
          refused, unrecorded>>
ghosts == <<base, asked, refused, unrecorded>>

(***************************************************************************)
(* How a handler ends: it sends an event, or returns without one (the      *)
(* machine then rests until something else sends an event).                *)
(***************************************************************************)
Ev(t) == [type |-> t]

Enqueue(q, e) == IF Len(q) >= QueueCap /\ q[Len(q)] = e THEN q ELSE Append(q, e)

Fault == faults > 0 /\ faults' = faults - 1
NoFault == UNCHANGED faults

Running(states) == run = "handler" /\ queued = NONE /\ si.state \in states
Send(e) == run' = "idle" /\ queue' = Enqueue(queue, e)
Rest == run' = (IF faults' < faults THEN "gave up" ELSE "idle") /\ UNCHANGED queue

(* A step of the sealer: it works, or it fails.                            *)
Try(good, bad) == (NoFault /\ Send(good)) \/ (Fault /\ Send(bad))
(* An API error that a handler logs before it returns.                     *)
GiveUp == Fault /\ Rest

quiet == <<si, queued, timers, input, chain, market, msgs, ghosts>>

(***************************************************************************)
(* Messages.  sendMsg adds one to the message pool and the handler sends   *)
(* the event that records it.                                              *)
(***************************************************************************)
message(kind, t, r, sd, ok) ==
  [kind |-> kind, ticket |-> t, commR |-> r, seed |-> sd, good |-> ok,
   status |-> "pending", epoch |-> 0]

sendMsg(m, eventType) ==
  /\ Len(msgs) < MaxMsgs
  /\ msgs' = Append(msgs, m)
  /\ Send([type |-> eventType, msg |-> Len(msgs) + 1])

(* StateWaitMsg answers once the message has Confidence epochs on top;     *)
(* StateSearchMsg answers for a message executed at the head.              *)
Waited(id) == msgs[id].status # "pending" /\ chain.height >= msgs[id].epoch + Confidence
SearchMsg(id) == msgs[id].status

(***************************************************************************)
(* checks.go.  Each operator relates the result to what the chain says, or *)
(* to an API error (which checkPieces takes for invalid deals when it asks *)
(* for a deal).                                                            *)
(***************************************************************************)
pieces ==
  CASE ~si.deals -> "ok"
    [] market = "gone" \/ (market = "moved" /\ si.dealIDs = "first") -> "ErrInvalidDeals"
    [] market = "expired" -> "ErrExpiredDeals"
    [] OTHER -> "ok"

pieceErrors == {"ErrApi"} \cup IF si.deals THEN {"ErrInvalidDeals"} ELSE {}

checkPieces(r) == (r = pieces /\ NoFault) \/ (r \in pieceErrors /\ Fault)

precommit ==
  IF pieces # "ok" THEN pieces
  ELSE IF chain.pci # NONE
       THEN IF chain.pci.ticket # si.ticket THEN "ErrBadTicket" ELSE "ErrPrecommitOnChain"
  ELSE IF chain.allocated THEN "ErrSectorNumberAllocated"
  ELSE IF si.ticket < chain.height - MaxTicketAge THEN "ErrExpiredTicket"
  ELSE "ok"

checkPrecommit(r) == (r = precommit /\ NoFault) \/ (r \in pieceErrors \cup {"error"} /\ Fault)

VerifySeal(proof) ==
  /\ proof # NONE
  /\ proof.good /\ proof.commR = chain.pci.commR
  /\ proof.ticket = si.ticket /\ proof.seed = si.seed

commit(proof) ==
  IF si.seed = 0 THEN "ErrBadSeed"
  ELSE IF chain.pci = NONE
       THEN IF ~chain.allocated THEN "ErrNoPrecommit"
            ELSE IF si.CommitMessage # 0 THEN "ErrCommitWaitFailed" ELSE "error"
  ELSE IF chain.pci.epoch + PreCommitChallengeDelay # si.seed THEN "ErrBadSeed"
  ELSE IF ~VerifySeal(proof) THEN "ErrInvalidProof"
  ELSE pieces

checkCommit(proof, r) ==
  (r = commit(proof) /\ NoFault) \/ (r \in pieceErrors \cup {"error"} /\ Fault)

replicaUpdate ==
  IF pieces # "ok" THEN pieces
  ELSE IF ~si.deals THEN "ErrNoDeals"
  ELSE IF ~si.CCUpdate THEN "error"
  ELSE IF ~si.UpdateSealed THEN "ErrBadRU"
  ELSE IF ~si.ReplicaUpdateProof THEN "ErrBadPR"
  ELSE "ok"

checkReplicaUpdate(r) == (r = replicaUpdate /\ NoFault) \/ (r \in pieceErrors /\ Fault)

Checks == {"ok", "error", "ErrApi", "ErrInvalidDeals", "ErrExpiredDeals", "ErrBadTicket",
           "ErrPrecommitOnChain", "ErrSectorNumberAllocated", "ErrExpiredTicket", "ErrBadSeed",
           "ErrNoPrecommit", "ErrCommitWaitFailed", "ErrInvalidProof", "ErrNoDeals", "ErrBadRU",
           "ErrBadPR"}

checkTicketExpired(ticket, head) == head - ticket > MaxTicketAge
checkProveCommitExpired(epoch, head) == head > epoch + MaxProveCommitDuration
(***************************************************************************)
(* input.go, as far as one sector sees it.  A piece is assigned to a       *)
(* sector that is open for deals; handleAddPiece takes what is assigned.   *)
(***************************************************************************)
handleWaitDeals ==
  /\ Running({"WaitDeals", "SnapDealsWaitDeals"}) /\ NoFault
  /\ \/ /\ input.assigned                        \* assigned in the AddPiece state
        /\ Send(Ev("SectorAddPiece")) /\ UNCHANGED input
     \/ /\ ~input.assigned                       \* maybeStartSealing: full, timed out, deal limit
        /\ Send(Ev("SectorStartPacking")) /\ input' = [input EXCEPT !.open = FALSE]
     \/ /\ ~input.assigned
        /\ Rest /\ input' = [input EXCEPT !.open = TRUE]
  /\ UNCHANGED <<si, queued, timers, chain, market, msgs, ghosts>>

handleAddPiece ==
  /\ Running({"AddPiece", "SnapDealsAddPiece"})
  /\ input' = [input EXCEPT !.assigned = FALSE]
  /\ \/ NoFault /\ Send([type |-> "SectorPieceAdded", deal |-> input.assigned])
     \/ input.assigned /\ Fault /\ Send(Ev("SectorAddPieceFailed"))
  /\ UNCHANGED <<si, queued, timers, chain, market, msgs, ghosts>>

handleAddPieceFailed ==
  /\ Running({"AddPieceFailed", "SnapDealsAddPieceFailed"})
  /\ Send(Ev("SectorRetryWaitDeals")) /\ NoFault /\ UNCHANGED quiet

(* updateInput finds a piece for the open sector; maybeUpgradeSector takes *)
(* the available one.                                                      *)
updateInput ==
  /\ input.open /\ ~input.assigned
  /\ input' = [input EXCEPT !.assigned = TRUE]
  /\ queue' = Enqueue(queue, Ev("SectorAddPiece"))
  /\ UNCHANGED <<si, run, queued, timers, chain, market, msgs, faults, ghosts>>

maybeUpgradeSector ==
  /\ input.available /\ chain.info # NONE /\ chain.info.active
  /\ input' = [input EXCEPT !.available = FALSE]
  /\ queue' = Enqueue(queue, Ev("SectorStartCCUpdate"))
  /\ UNCHANGED <<si, run, queued, timers, chain, market, msgs, faults, ghosts>>

(***************************************************************************)
(* states_sealing.go                                                       *)
(***************************************************************************)
handlePacking ==
  /\ Running({"Packing", "SnapDealsPacking"})
  /\ input' = [input EXCEPT !.open = FALSE, !.assigned = FALSE]
  /\ IF si.state = "SnapDealsPacking" /\ ~si.deals
     THEN Send(Ev("SectorAbortUpgrade")) /\ NoFault
     ELSE (Send(Ev("SectorPacked")) /\ NoFault) \/ GiveUp
  /\ UNCHANGED <<si, queued, timers, chain, market, msgs, ghosts>>

(* Mutant: a fresh ticket is drawn for a precommitted sector.              *)
handleGetTicketFresh ==
  /\ Running({"GetTicket"})
  /\ NoFault /\ Send([type |-> "SectorTicket", epoch |-> chain.height - SealRandomnessLookback])
  /\ UNCHANGED quiet

(* getTicket returns an empty ticket and no error when the head or the     *)
(* allocation cannot be read; an error with `allocated` set is taken for a *)
(* precommit that has expired.                                             *)
handleGetTicket ==
  LET pci     == chain.pci
      expired == IF pci # NONE THEN checkProveCommitExpired(pci.epoch, chain.height)
                 ELSE chain.allocated
      failed  == IF ~chain.allocated THEN "SectorSealPreCommit1Failed"
                 ELSE IF si.CommitMessage # 0 THEN "SectorCommitFailed" ELSE "SectorRemove"
      epoch   == IF pci # NONE THEN pci.ticket ELSE chain.height - SealRandomnessLookback
  IN  /\ Running({"GetTicket"})
      /\ \/ Fault /\ Send([type |-> "SectorTicket", epoch |-> 0])
         \/ Fault /\ Send(Ev(failed))
         \/ NoFault /\ expired /\ Send(Ev(failed))
         \/ NoFault /\ ~expired /\ Send([type |-> "SectorTicket", epoch |-> epoch])
      /\ UNCHANGED quiet

handlePreCommit1 ==
  LET old == /\ checkTicketExpired(si.ticket, chain.height)
             /\ \/ chain.pci = NONE
                \/ checkProveCommitExpired(chain.pci.epoch, chain.height)
      answer(r) ==
        CASE r = "ErrInvalidDeals" -> Send([type |-> "SectorInvalidDealIDs", ret |-> "PreCommit1"])
          [] r = "ErrExpiredDeals" -> Send(Ev("SectorDealsExpired"))
          [] r = "ErrApi" -> Rest
          [] r = "ok" /\ old -> Send(Ev("SectorOldTicket"))
          [] OTHER -> Send([type |-> "SectorPreCommit1", epoch |-> si.ticket])
  IN  /\ Running({"PreCommit1"})
      /\ \/ \E r \in Checks : checkPieces(r) /\ answer(r)
         \/ pieces = "ok" /\ ~old /\ Fault /\ Send(Ev("SectorSealPreCommit1Failed"))
      /\ UNCHANGED quiet

handlePreCommit2 ==
  /\ Running({"PreCommit2"})
  /\ Try([type |-> "SectorPreCommit2", epoch |-> si.pc1Out], Ev("SectorSealPreCommit2Failed"))
  /\ UNCHANGED quiet

(* The answer preCommitInfo sends when checkPrecommit does not pass.       *)
preCommitRefused(r) ==
  CASE r \in {"ErrExpiredTicket", "ErrBadTicket"} -> Send(Ev("SectorSealPreCommit1Failed"))
    [] r = "ErrInvalidDeals" -> Send([type |-> "SectorInvalidDealIDs", ret |-> "PreCommitting"])
    [] r = "ErrExpiredDeals" -> Send(Ev("SectorDealsExpired"))
    [] r = "ErrPrecommitOnChain" -> Send(Ev("SectorPreCommitLanded"))
    [] r = "error" -> Send(Ev("SectorChainPreCommitFailed"))
    [] r \in {"ErrApi", "ErrSectorNumberAllocated"} -> Rest

preCommitMsg == message("precommit", si.ticket, si.commR, 0, TRUE)

handlePreCommitting ==
  /\ Running({"PreCommitting"})
  /\ \/ Send(Ev("SectorPreCommitBatch")) /\ NoFault /\ UNCHANGED msgs     \* cfg.BatchPreCommits
     \/ \E r \in Checks \ {"ok"} : checkPrecommit(r) /\ preCommitRefused(r) /\ UNCHANGED msgs
     \/ precommit = "ok" /\ NoFault /\ sendMsg(preCommitMsg, "SectorPreCommitted")
     \/ precommit = "ok" /\ Fault /\ UNCHANGED msgs
        /\ (Send(Ev("SectorChainPreCommitFailed")) \/ Rest)
  /\ UNCHANGED <<si, queued, timers, input, chain, market, ghosts>>

(* The checks of one handler, and the message the batcher sends later.     *)
handleSubmitPreCommitBatch ==
  /\ Running({"SubmitPreCommitBatch"})
  /\ \/ /\ \E r \in Checks \ {"ok"} : checkPrecommit(r) /\ preCommitRefused(r)
        /\ UNCHANGED queued
     \/ /\ precommit = "ok" /\ NoFault
        /\ queued' = preCommitMsg /\ UNCHANGED <<run, queue>>
  /\ UNCHANGED <<si, timers, input, chain, market, msgs, ghosts>>

PreCommitBatcher ==
  /\ queued # NONE /\ queued.kind = "precommit"
  /\ queued' = NONE
  /\ \/ NoFault /\ sendMsg(queued, "SectorPreCommitBatchSent")
     \/ Fault /\ Send(Ev("SectorChainPreCommitFailed")) /\ UNCHANGED msgs
  /\ UNCHANGED <<si, timers, input, chain, market, ghosts>>

(* StateWaitMsg, then one event for each kind of exit code.                *)
WaitMsg(id, onOk, onGas, onFail) ==
  \/ Fault /\ Send(Ev(onFail))
  \/ /\ id # 0 => Waited(id)
     /\ NoFault
     /\ Send(Ev(CASE id = 0 -> onFail
                  [] msgs[id].status = "ok" -> onOk
                  [] msgs[id].status \in {"gas", "funds"} -> onGas
                  [] OTHER -> onFail))

handlePreCommitWait ==
  /\ Running({"PreCommitWait", "PreCommitBatchWait"})
  /\ WaitMsg(si.PreCommitMessage, "SectorPreCommitLanded", "SectorRetryPreCommit",
             "SectorChainPreCommitFailed")
  /\ UNCHANGED quiet

(* handleWaitSeed registers a callback and returns; the callback fires     *)
(* Confidence epochs after the seed's epoch, whatever became of the        *)
(* precommit meanwhile.                                                    *)
handleWaitSeed ==
  /\ Running({"WaitSeed"})
  /\ \/ GiveUp /\ UNCHANGED timers
     \/ chain.pci = NONE /\ NoFault /\ Send(Ev("SectorChainPreCommitFailed")) /\ UNCHANGED timers
     \/ /\ chain.pci # NONE /\ NoFault /\ Rest
        /\ timers' = timers \cup {[type |-> "SectorSeedReady",
                                   epoch |-> chain.pci.epoch + PreCommitChallengeDelay]}
  /\ UNCHANGED <<si, queued, input, chain, market, msgs, ghosts>>

ChainAt(t) ==
  /\ t \in timers /\ chain.height >= t.epoch + Confidence
  /\ timers' = timers \ {t}
  /\ \/ NoFault /\ queue' = Enqueue(queue, t) /\ UNCHANGED run
     \/ /\ Fault /\ t.type = "SectorSeedReady"
        /\ \/ queue' = Enqueue(queue, Ev("SectorChainPreCommitFailed")) /\ UNCHANGED run
           \/ UNCHANGED queue /\ run' = IF run = "handler" THEN run ELSE "gave up"
  /\ UNCHANGED <<si, queued, input, chain, market, msgs, ghosts>>

(* The proof; computing it may fail (locally or at a remote endpoint) or   *)
(* give a proof that does not verify.                                      *)
Proof(good) == [ticket |-> si.ticket, commR |-> si.commR, seed |-> si.seed, good |-> good]

handleCommitting ==
  /\ Running({"Committing"})
  /\ \/ /\ si.CommitMessage # 0 /\ SearchMsg(si.CommitMessage) # "pending"
        /\ NoFault /\ Send(Ev("SectorRetryCommitWait"))
     \/ /\ si.CommitMessage # 0 /\ Fault           \* the search fails, the handler goes on
        /\ IF commit(Proof(TRUE)) # "ok" THEN Send(Ev("SectorCommitFailed"))
           ELSE Send([type |-> "SectorCommitted", proof |-> Proof(TRUE)])
     \/ /\ si.CommitMessage # 0 => SearchMsg(si.CommitMessage) = "pending"
        /\ \/ /\ Fault
              /\ \/ \E t \in {"SectorComputeProofFailed", "SectorRemoteCommit1Failed",
                              "SectorRemoteCommit2Failed"} : Send(Ev(t))
                 \/ commit(Proof(FALSE)) # "ok" /\ Send(Ev("SectorCommitFailed"))
                 \/ Rest
           \/ \E r \in Checks \ {"ok"} :
                checkCommit(Proof(TRUE), r) /\ Send(Ev("SectorCommitFailed"))
           \/ /\ commit(Proof(TRUE)) = "ok" /\ NoFault
              /\ \E t \in {"SectorCommitted", "SectorProofReady"} :     \* cfg.FinalizeEarly
                   Send([type |-> t, proof |-> Proof(TRUE)])
  /\ UNCHANGED quiet

commitMsg == message("commit", si.proof.ticket, si.proof.commR, si.proof.seed, si.proof.good)

handleSubmitCommit ==
  /\ Running({"SubmitCommit"})
  /\ \/ Send(Ev("SectorSubmitCommitAggregate")) /\ NoFault /\ UNCHANGED msgs  \* cfg.AggregateCommits
     \/ /\ \E r \in Checks \ {"ok"} : checkCommit(si.proof, r) /\ Send(Ev("SectorCommitFailed"))
        /\ UNCHANGED msgs
     \/ commit(si.proof) = "ok" /\ NoFault /\ sendMsg(commitMsg, "SectorCommitSubmitted")
     \/ commit(si.proof) = "ok" /\ Fault /\ UNCHANGED msgs
        /\ (Send(Ev("SectorCommitFailed")) \/ Rest)
  /\ UNCHANGED <<si, queued, timers, input, chain, market, ghosts>>

(* AddCommit, and the aggregate the commit batcher sends.                  *)
handleSubmitCommitAggregate ==
  /\ Running({"SubmitCommitAggregate"})
  /\ queued' = commitMsg
  /\ NoFault /\ UNCHANGED <<si, run, queue, timers, input, chain, market, msgs, ghosts>>

CommitBatcher ==
  /\ queued # NONE /\ queued.kind = "commit"
  /\ queued' = NONE
  /\ \/ NoFault /\ sendMsg(queued, "SectorCommitAggregateSent")
     \/ Fault /\ UNCHANGED msgs                   \* the sector is listed in FailedSectors
        /\ Send(Ev("SectorCommitFailed"))
     \/ /\ Fault /\ UNCHANGED msgs                \* the batch failed
        /\ Send(Ev(IF commit(si.proof) = "ok" THEN "SectorRetrySubmitCommit"
                   ELSE "SectorCommitFailed"))
  /\ UNCHANGED <<si, timers, input, chain, market, ghosts>>

handleCommitWait ==
  /\ Running({"CommitWait", "CommitAggregateWait"})
  /\ WaitMsg(si.CommitMessage, "SectorProving", "SectorRetrySubmitCommit", "SectorCommitFailed")
  /\ UNCHANGED quiet

handleFinalizeSector ==
  /\ Running({"CommitFinalize", "FinalizeSector"})
  /\ \/ NoFault /\ Send(Ev("SectorFinalized"))
     \/ NoFault /\ ~si.deals /\ Send(Ev("SectorFinalizedAvailable"))  \* cfg.MakeCCSectorsAvailable
     \/ Fault /\ Send(Ev("SectorFinalizeFailed"))
  /\ UNCHANGED quiet

(***************************************************************************)
(* states_failed.go.  The cooldown only delays.                            *)
(***************************************************************************)
handleSealPrecommit1Failed ==
  /\ Running({"SealPreCommit1Failed"})
  /\ Send(Ev("SectorRetrySealPreCommit1")) /\ NoFault /\ UNCHANGED quiet

handleSealPrecommit2Failed ==
  /\ Running({"SealPreCommit2Failed"})
  /\ Send(Ev(IF si.PreCommit2Fails > 3 THEN "SectorRetrySealPreCommit1"
             ELSE "SectorRetrySealPreCommit2"))
  /\ NoFault /\ UNCHANGED quiet

(* What a failed state does when its message is not known to have failed:  *)
(* StateSearchMsg has no answer or cannot be asked, or the message is good *)
(* or short of gas.                                                        *)
searchDecides(id, wait, resend) ==
  /\ id # 0
  /\ \/ Fault /\ Send(Ev(wait))
     \/ SearchMsg(id) \in {"pending", "ok"} /\ NoFault /\ Send(Ev(wait))
     \/ SearchMsg(id) = "gas" /\ NoFault /\ Send(Ev(resend))


searchPasses(id) == id # 0 => SearchMsg(id) \in {"funds", "failed"}

handlePreCommitFailed ==
  LET onChain == IF si.PreCommitMessage = 0 THEN Send(Ev("SectorPreCommitLanded"))
                 ELSE IF chain.pci.commR # si.commR THEN Rest
                 ELSE Send(Ev("SectorRetryWaitSeed"))
      answer(r) ==
        CASE r \in {"ErrApi", "ErrSectorNumberAllocated", "error"} -> Rest
          [] r \in {"ErrExpiredTicket", "ErrBadTicket"} -> Send(Ev("SectorSealPreCommit1Failed"))
          [] r = "ErrInvalidDeals" ->
               Send([type |-> "SectorInvalidDealIDs", ret |-> "PreCommitFailed"])
          [] r = "ErrExpiredDeals" -> Send(Ev("SectorDealsExpired"))
          [] r = "ErrPrecommitOnChain" -> onChain
          [] r = "ok" -> Send(Ev("SectorRetryPreCommit"))
  IN  /\ Running({"PreCommitFailed"})
      /\ \/ GiveUp
         \/ searchDecides(si.PreCommitMessage, "SectorRetryPreCommitWait", "SectorRetryPreCommit")
         \/ /\ searchPasses(si.PreCommitMessage)
            /\ \E r \in Checks : checkPrecommit(r) /\ answer(r)
      /\ UNCHANGED quiet

handleComputeProofFailed ==
  /\ Running({"ComputeProofFailed"})
  /\ Send(Ev(IF si.InvalidProofs > 1 THEN "SectorSealPreCommit1Failed"
             ELSE "SectorRetryComputeProof"))
  /\ NoFault /\ UNCHANGED quiet

handleRemoteCommitFailed ==
  /\ Running({"RemoteCommitFailed"})
  /\ Send(Ev("SectorRetryComputeProof")) /\ NoFault /\ UNCHANGED quiet

(* What handleCommitFailed sends after checkCommit.                        *)
commitFailed(r) ==
  CASE r \in {"ErrApi", "error"} -> Rest
    [] r = "ErrBadSeed" -> Send(Ev("SectorRetryWaitSeed"))
    [] r = "ErrInvalidProof" ->
         Send(Ev(IF si.InvalidProofs > 0 THEN "SectorSealPreCommit1Failed"
                 ELSE "SectorRetryInvalidProof"))
    [] r = "ErrNoPrecommit" -> Send(Ev("SectorRetryPreCommit"))
    [] r = "ErrInvalidDeals" -> Send([type |-> "SectorInvalidDealIDs", ret |-> "CommitFailed"])
    [] r = "ErrExpiredDeals" -> Send(Ev("SectorDealsExpired"))
    [] r = "ErrCommitWaitFailed" -> Send(Ev("SectorRetryCommitWait"))
    [] r = "ok" -> Send(Ev("SectorRetryComputeProof"))

(* Mutant: the deals are looked at before the commit message.              *)
handleCommitFailedDealsFirst ==
  /\ Running({"CommitFailed"})
  /\ IF pieces = "ErrInvalidDeals" THEN NoFault /\ commitFailed(pieces)
     ELSE \/ searchDecides(si.CommitMessage, "SectorRetryCommitWait", "SectorRetrySubmitCommit")
          \/ /\ searchPasses(si.CommitMessage)
             /\ \E r \in Checks : checkCommit(si.proof, r) /\ commitFailed(r)
  /\ UNCHANGED quiet

handleCommitFailed ==
  /\ Running({"CommitFailed"})
  /\ \/ GiveUp
     \/ searchDecides(si.CommitMessage, "SectorRetryCommitWait", "SectorRetrySubmitCommit")
     \/ /\ searchPasses(si.CommitMessage)
        /\ \E r \in Checks : checkCommit(si.proof, r) /\ commitFailed(r)
  /\ UNCHANGED quiet

handleFinalizeFailed ==
  /\ Running({"FinalizeFailed", "CommitFinalizeFailed", "FinalizeReplicaUpdateFailed"})
  /\ Send(Ev("SectorRetryFinalize")) /\ NoFault /\ UNCHANGED quiet

handleDealsExpired ==
  /\ Running({"DealsExpired"})
  /\ \/ GiveUp
     \/ NoFault /\ IF chain.info # NONE THEN Rest ELSE Send(Ev("SectorRemove"))
  /\ UNCHANGED quiet

(* handleRecoverDealIDsOrFailWith: the deals that are wrong are looked up  *)
(* again by their publish message; one that cannot be found fails all.     *)
recoveryPiecesToFix ==
  CASE pieces = "ErrExpiredDeals" -> "error"
    [] pieces = "ErrInvalidDeals" -> "fix"
    [] OTHER -> "none"

recoverDealIDsOrFailWith(failWith) ==
  \/ GiveUp
  \/ Fault /\ Send(Ev(failWith))
  \/ /\ NoFault
     /\ CASE recoveryPiecesToFix = "error" -> Rest
          [] recoveryPiecesToFix = "fix" /\ market = "gone" -> Send(Ev(failWith))
          [] OTHER -> Send([type |-> "SectorUpdateDealIDs",
                            ids |-> IF recoveryPiecesToFix = "fix" THEN "second" ELSE si.dealIDs])

HandleRecoverDealIDs ==
  /\ Running({"RecoverDealIDs"})
  /\ recoverDealIDsOrFailWith("SectorRemove") /\ UNCHANGED quiet

handleSnapDealsRecoverDealIDs ==
  /\ Running({"SnapDealsRecoverDealIDs"})
  /\ recoverDealIDsOrFailWith("SectorAbortUpgrade") /\ UNCHANGED quiet

handleDealsExpiredSnapDeals ==
  /\ Running({"SnapDealsDealsExpired"}) /\ NoFault
  /\ IF si.CCUpdate THEN Send(Ev("SectorAbortUpgrade")) ELSE Rest
  /\ UNCHANGED quiet

handleAbortUpgrade ==
  /\ Running({"AbortUpgrade"})
  /\ \/ NoFault /\ IF ~si.CCUpdate THEN Rest ELSE Send(Ev("SectorRevertUpgradeToProving"))
     \/ GiveUp
  /\ UNCHANGED quiet

(***************************************************************************)
(* states_replica_update.go                                                *)
(***************************************************************************)
handleErrors(r) ==
  CASE r = "ErrInvalidDeals" -> Send([type |-> "SectorInvalidDealIDs", ret |-> NONE])
    [] r = "ErrExpiredDeals" -> Send(Ev("SectorDealsExpired"))
    [] OTHER -> Rest

handleReplicaUpdate ==
  /\ Running({"UpdateReplica"})
  /\ \/ \E r \in Checks \ {"ok"} : checkPieces(r) /\ handleErrors(r)
     \/ /\ pieces = "ok"
        /\ Try(Ev(IF si.deals THEN "SectorReplicaUpdate" ELSE "SectorAbortUpgrade"),
               Ev("SectorUpdateReplicaFailed"))
  /\ UNCHANGED quiet

sectorActive == chain.info # NONE /\ chain.info.active

handleProveReplicaUpdate ==
  /\ Running({"ProveReplicaUpdate"})
  /\ \/ GiveUp
     \/ si.UpdateSealed /\ ~sectorActive /\ NoFault /\ Send(Ev("SectorAbortUpgrade"))
     \/ /\ si.UpdateSealed /\ sectorActive
        /\ \E r \in Checks \ {"ok"} : checkPieces(r) /\ handleErrors(r)
     \/ /\ si.UpdateSealed /\ sectorActive /\ pieces = "ok"
        /\ Try(Ev("SectorProveReplicaUpdate"), Ev("SectorProveReplicaUpdateFailed"))
  /\ UNCHANGED quiet

handleFinalizeReplicaUpdate ==
  /\ Running({"FinalizeReplicaUpdate"})
  /\ Try(Ev("SectorFinalized"), Ev("SectorFinalizeFailed")) /\ UNCHANGED quiet

updateMsg == message("update", 0, 0, 0, TRUE)

handleSubmitReplicaUpdate ==
  /\ Running({"SubmitReplicaUpdate"})
  /\ \/ /\ \E r \in Checks \ {"ok"} :
             checkReplicaUpdate(r) /\ Send(Ev("SectorSubmitReplicaUpdateFailed"))
        /\ UNCHANGED msgs
     \/ /\ replicaUpdate = "ok" /\ NoFault
        /\ sendMsg(updateMsg, "SectorReplicaUpdateSubmitted")
     \/ replicaUpdate = "ok" /\ Fault /\ UNCHANGED msgs
        /\ (Send(Ev("SectorSubmitReplicaUpdateFailed")) \/ Rest)
  /\ UNCHANGED <<si, queued, timers, input, chain, market, ghosts>>

handleReplicaUpdateWait ==
  LET landed == /\ chain.info # NONE
                /\ chain.info.updated = si.UpdateSealed
  IN  /\ Running({"ReplicaUpdateWait"})
      /\ WaitMsg(si.ReplicaUpdateMessage,
                 IF chain.info = NONE THEN "SectorSubmitReplicaUpdateFailed"
                 ELSE IF landed THEN "SectorReplicaUpdateLanded" ELSE "SectorAbortUpgrade",
                 "SectorSubmitReplicaUpdateFailed", "SectorSubmitReplicaUpdateFailed")
      /\ UNCHANGED quiet

(* Retries until the message is found, then waits for the sector to be old *)
(* enough for block production.                                            *)
handleUpdateActivating ==
  /\ Running({"UpdateActivating"}) /\ NoFault
  /\ Waited(si.ReplicaUpdateMessage)
  /\ Rest
  /\ timers' = timers \cup {[type |-> "SectorUpdateActive",
                             epoch |-> msgs[si.ReplicaUpdateMessage].epoch]}
  /\ UNCHANGED <<si, queued, input, chain, market, msgs, ghosts>>

handleReleaseSectorKey ==
  /\ Running({"ReleaseSectorKey"})
  /\ Try(Ev("SectorKeyReleased"), Ev("SectorReleaseKeyFailed")) /\ UNCHANGED quiet

handleReleaseSectorKeyFailed ==
  /\ Running({"ReleaseSectorKeyFailed"})
  /\ Send(Ev("SectorUpdateActive")) /\ NoFault /\ UNCHANGED quiet

handleSubmitReplicaUpdateFailed ==
  LET answer(r) ==
        CASE r = "ErrBadRU" -> Send(Ev("SectorRetryReplicaUpdate"))
          [] r = "ErrBadPR" -> Send(Ev("SectorRetryProveReplicaUpdate"))
          [] r = "ok" /\ sectorActive -> Send(Ev("SectorRetrySubmitReplicaUpdate"))
          [] r = "ok" /\ ~sectorActive -> Send(Ev("SectorAbortUpgrade"))
          [] OTHER -> handleErrors(r)
  IN  /\ Running({"ReplicaUpdateFailed"})
      /\ \/ GiveUp
         \/ searchDecides(si.ReplicaUpdateMessage, "SectorRetrySubmitReplicaUpdateWait",
                          "SectorRetrySubmitReplicaUpdate")
         \/ /\ searchPasses(si.ReplicaUpdateMessage)
            /\ \E r \in Checks : checkReplicaUpdate(r) /\ answer(r)
      /\ UNCHANGED quiet

(***************************************************************************)
(* states_proving.go                                                       *)
(***************************************************************************)
handleProvingSector ==
  /\ Running({"Proving"})
  /\ input' = [input EXCEPT !.available = FALSE]
  /\ NoFault /\ Rest /\ UNCHANGED <<si, queued, timers, chain, market, msgs, ghosts>>

handleAvailableSector ==
  /\ Running({"Available"})
  /\ input' = [input EXCEPT !.available = TRUE]
  /\ NoFault /\ Rest /\ UNCHANGED <<si, queued, timers, chain, market, msgs, ghosts>>

terminateMsg == message("terminate", 0, 0, 0, TRUE)

handleTerminating ==
  /\ Running({"Terminating"})
  /\ \/ Fault /\ Send(Ev("SectorTerminateFailed")) /\ UNCHANGED queued
     \/ /\ chain.info = NONE /\ NoFault /\ UNCHANGED queued
        /\ Send(Ev(IF chain.pci # NONE THEN "SectorTerminateFailed" ELSE "SectorRemove"))
     \/ /\ chain.info # NONE /\ ~chain.info.live /\ NoFault /\ UNCHANGED queued
        /\ Send([type |-> "SectorTerminating", msg |-> 0])
     \/ /\ chain.info # NONE /\ chain.info.live /\ NoFault
        /\ queued' = terminateMsg /\ UNCHANGED <<run, queue>>
  /\ UNCHANGED <<si, timers, input, chain, market, msgs, ghosts>>

TerminateBatcher ==
  /\ queued # NONE /\ queued.kind = "terminate"
  /\ queued' = NONE
  /\ sendMsg(queued, "SectorTerminating")
  /\ NoFault /\ UNCHANGED <<si, timers, input, chain, market, ghosts>>

handleTerminateWait ==
  /\ Running({"TerminateWait"})
  /\ \/ si.TerminateMessage = 0 /\ NoFault /\ Rest
     \/ /\ si.TerminateMessage # 0
        /\ WaitMsg(si.TerminateMessage, "SectorTerminated", "SectorTerminateFailed",
                   "SectorTerminateFailed")
  /\ UNCHANGED quiet

(* The loop waits for the winning lookback, here Confidence more epochs.   *)
handleTerminateFinality ==
  /\ Running({"TerminateFinality"})
  /\ \/ Fault /\ Send(Ev("SectorTerminateFailed"))
     \/ /\ chain.height >= msgs[si.TerminateMessage].epoch + Confidence
        /\ NoFault /\ Send(Ev("SectorRemove"))
  /\ UNCHANGED quiet

handleTerminateFailed ==
  /\ Running({"TerminateFailed"})
  /\ \/ chain.pci # NONE /\ NoFault /\ Rest
     \/ chain.pci = NONE /\ Send(Ev("SectorTerminate")) /\ NoFault
     \/ Fault /\ Send(Ev("SectorTerminate"))      \* the error is ignored
  /\ UNCHANGED quiet

handleRemoving ==
  /\ Running({"Removing"})
  /\ Try(Ev("SectorRemoved"), Ev("SectorRemoveFailed")) /\ UNCHANGED quiet

handleRemoveFailed ==
  /\ Running({"RemoveFailed"})
  /\ Send(Ev("SectorRemove")) /\ NoFault /\ UNCHANGED quiet

(***************************************************************************)
(* Requests of a user or of the market: Remove, Terminate,                 *)
(* SectorAbortUpgrade, StartPackingSector, MarkForUpgrade.                 *)
(***************************************************************************)
requestEvent == [Remove |-> "SectorRemove", Terminate |-> "SectorTerminate",
                 SectorAbortUpgrade |-> "SectorAbortUpgrade",
                 StartPackingSector |-> "SectorStartPacking",
                 MarkForUpgrade |-> "SectorMarkForUpdate"]

MarkForUpgrade == si.state = "Proving" /\ ~si.deals /\ sectorActive

Request(u) ==
  /\ u \in Requests \ asked /\ Fault
  /\ si.state \notin {"UndefinedSectorState", "Removed"}
  /\ u = "MarkForUpgrade" => MarkForUpgrade
  /\ asked' = asked \cup {u}
  /\ queue' = Enqueue(queue, Ev(requestEvent[u]))
  /\ input' = IF u = "SectorAbortUpgrade" THEN [input EXCEPT !.available = FALSE] ELSE input
  /\ UNCHANGED <<si, run, queued, timers, chain, base, market, msgs, refused, unrecorded>>

(***************************************************************************)
(* The process: Plan runs when no handler does.  After a restart the       *)
(* datastore is all there is, and every sector gets SectorRestart.         *)
(***************************************************************************)
PlanStep ==
  LET r == Plan(si, queue)
  IN  /\ run # "handler" /\ queue # <<>>
      /\ si' = r.si /\ queue' = r.rest
      /\ run' = IF r.err # NONE THEN "refused" ELSE IF r.run THEN "handler" ELSE "idle"
      /\ refused' = IF r.err = NONE THEN refused ELSE refused \cup {<<si.state, r.err>>}
      /\ UNCHANGED <<queued, timers, input, chain, base, market, msgs, faults, asked, unrecorded>>

(* Mutant: the sectors are tracked but not told.                           *)
restartSectorsSilent ==
  /\ si.state # "UndefinedSectorState" /\ Fault
  /\ run' = "idle" /\ queue' = <<>> /\ queued' = NONE /\ timers' = {}
  /\ input' = [open |-> FALSE, assigned |-> FALSE, available |-> FALSE]
  /\ UNCHANGED <<si, chain, base, market, msgs, asked, refused, unrecorded>>

restartSectors ==
  /\ si.state # "UndefinedSectorState" /\ Fault
  /\ run' = "idle" /\ queue' = <<Ev("SectorRestart")>> /\ queued' = NONE /\ timers' = {}
  /\ input' = [open |-> FALSE, assigned |-> FALSE, available |-> FALSE]
  /\ unrecorded' = unrecorded \cup {msgs[queue[i].msg].kind :
                      i \in {j \in DOMAIN queue : "msg" \in DOMAIN queue[j] /\ queue[j].msg # 0}}
  /\ UNCHANGED <<si, chain, base, market, msgs, asked, refused>>

(***************************************************************************)
(* The chain (external): what a message does when a tipset includes it,    *)
(* the expiry of a precommit, a new epoch, the replacement of the head.    *)
(***************************************************************************)
dealsGood == pieces = "ok"

lands(m) ==
  CASE m.kind = "precommit" -> /\ chain.pci = NONE /\ ~chain.allocated /\ dealsGood
                               /\ chain.height - m.ticket <= MaxTicketAge
    [] m.kind = "commit" -> /\ chain.pci # NONE /\ m.good /\ dealsGood
                            /\ m.ticket = chain.pci.ticket /\ m.commR = chain.pci.commR
                            /\ m.seed = chain.pci.epoch + PreCommitChallengeDelay
                            /\ chain.height > m.seed
                            /\ ~checkProveCommitExpired(chain.pci.epoch, chain.height)
    [] m.kind = "update" -> /\ chain.info # NONE /\ chain.info.live /\ chain.info.active
                            /\ ~chain.info.updated /\ dealsGood
    [] m.kind = "terminate" -> chain.info # NONE /\ chain.info.live

effect(m) ==
  CASE m.kind = "precommit" ->
         [chain EXCEPT !.allocated = TRUE,
                       !.pci = [ticket |-> m.ticket, commR |-> m.commR, epoch |-> chain.height]]
    [] m.kind = "commit" ->
         [chain EXCEPT !.pci = NONE, !.info = [active |-> TRUE, live |-> TRUE, updated |-> FALSE]]
    [] m.kind = "update" -> [chain EXCEPT !.info.updated = TRUE]
    [] m.kind = "terminate" -> [chain EXCEPT !.info.live = FALSE, !.info.active = FALSE]

ExecuteMsg(i) ==
  LET becomes(st) == msgs' = [msgs EXCEPT ![i].status = st, ![i].epoch = chain.height]
  IN  /\ i \in DOMAIN msgs /\ msgs[i].status = "pending"
      /\ \/ lands(msgs[i]) /\ becomes("ok") /\ chain' = effect(msgs[i]) /\ NoFault
         \/ ~lands(msgs[i]) /\ becomes("failed") /\ NoFault /\ UNCHANGED chain
         \/ Fault /\ UNCHANGED chain /\ \E st \in {"gas", "funds"} : becomes(st)
      /\ UNCHANGED <<si, run, queue, queued, timers, input, market, ghosts>>

ExpirePreCommit ==
  /\ chain.pci # NONE /\ checkProveCommitExpired(chain.pci.epoch, chain.height)
  /\ base = chain /\ chain' = [chain EXCEPT !.pci = NONE] /\ base' = chain'
  /\ UNCHANGED <<si, run, queue, queued, timers, input, market, msgs, faults, asked, refused,
                 unrecorded>>

NewEpoch ==
  /\ chain.height < MaxHeight
  /\ chain' = [chain EXCEPT !.height = @ + 1] /\ base' = chain'
  /\ UNCHANGED <<si, run, queue, queued, timers, input, market, msgs, faults, asked, refused,
                 unrecorded>>

(* The head tipset is replaced by one without its messages.                *)
Reorg ==
  /\ base # chain /\ Fault
  /\ chain' = base
  /\ msgs' = [i \in DOMAIN msgs |-> IF msgs[i].epoch = chain.height
                                     THEN [msgs[i] EXCEPT !.status = "pending", !.epoch = 0]
                                     ELSE msgs[i]]
  /\ UNCHANGED <<si, run, queue, queued, timers, input, market, ghosts>>

DealsChange ==
  /\ market = "ok" /\ Fault
  /\ market' \in {"moved", "gone", "expired"}
  /\ UNCHANGED <<si, run, queue, queued, timers, input, chain, msgs, ghosts>>

SectorFaults ==
  /\ sectorActive /\ base = chain /\ Fault
  /\ chain' = [chain EXCEPT !.info.active = FALSE] /\ base' = chain'
  /\ UNCHANGED <<si, run, queue, queued, timers, input, market, msgs, asked, refused, unrecorded>>

(***************************************************************************)
(* A sector starts empty, for deals or as committed capacity, or is a      *)
(* proven one without deals that is open to an upgrade.                    *)
(***************************************************************************)
EmptySector ==
  [ state |-> "UndefinedSectorState", Return |-> NONE, deals |-> FALSE, dealIDs |-> "first",
    ticket |-> 0, pc1Out |-> 0, commR |-> 0, PreCommit2Fails |-> 0, InvalidProofs |-> 0,
    PreCommitMessage |-> 0, seed |-> 0, proof |-> NONE, CommitMessage |-> 0,
    CCUpdate |-> FALSE, UpdateSealed |-> FALSE, ReplicaUpdateProof |-> FALSE,
    ReplicaUpdateMessage |-> 0, TerminateMessage |-> 0 ]

Init ==
  /\ \E start \in Starts :
       /\ si = IF start = "CC" THEN [EmptySector EXCEPT !.state = "Available"] ELSE EmptySector
       /\ queue = <<Ev(IF start = "CC" THEN "SectorRestart" ELSE start)>>
       /\ chain = [ height |-> StartHeight, pci |-> NONE, allocated |-> start = "CC",
                    info |-> IF start = "CC"
                             THEN [active |-> TRUE, live |-> TRUE, updated |-> FALSE] ELSE NONE ]
  /\ run = "idle" /\ queued = NONE /\ timers = {} /\ base = chain
  /\ input = [open |-> FALSE, assigned |-> FALSE, available |-> FALSE]
  /\ market = "ok" /\ msgs = <<>> /\ faults = MaxFaults
  /\ asked = {} /\ refused = {} /\ unrecorded = {}

Handlers ==
  \/ handleWaitDeals \/ handleAddPiece \/ handleAddPieceFailed \/ handlePacking
  \/ handleGetTicket \/ handlePreCommit1 \/ handlePreCommit2 \/ handlePreCommitting
  \/ handleSubmitPreCommitBatch \/ handlePreCommitWait \/ handleWaitSeed \/ handleCommitting
  \/ handleSubmitCommit \/ handleSubmitCommitAggregate \/ handleCommitWait
  \/ handleFinalizeSector \/ handleSealPrecommit1Failed \/ handleSealPrecommit2Failed
  \/ handlePreCommitFailed \/ handleComputeProofFailed \/ handleRemoteCommitFailed
  \/ handleCommitFailed \/ handleFinalizeFailed \/ handleDealsExpired \/ HandleRecoverDealIDs
  \/ handleSnapDealsRecoverDealIDs \/ handleDealsExpiredSnapDeals \/ handleAbortUpgrade
  \/ handleReplicaUpdate \/ handleProveReplicaUpdate \/ handleFinalizeReplicaUpdate
  \/ handleSubmitReplicaUpdate \/ handleReplicaUpdateWait \/ handleUpdateActivating
  \/ handleReleaseSectorKey \/ handleReleaseSectorKeyFailed \/ handleSubmitReplicaUpdateFailed
  \/ handleProvingSector \/ handleAvailableSector \/ handleTerminating \/ handleTerminateWait
  \/ handleTerminateFinality \/ handleTerminateFailed \/ handleRemoving \/ handleRemoveFailed

Machine ==
  \/ PlanStep \/ Handlers \/ PreCommitBatcher \/ CommitBatcher \/ TerminateBatcher
  \/ \E t \in timers : ChainAt(t)

Environment ==
  \/ updateInput \/ maybeUpgradeSector \/ restartSectors \/ \E u \in Requests : Request(u)
  \/ \E i \in DOMAIN msgs : ExecuteMsg(i)
  \/ ExpirePreCommit \/ NewEpoch \/ Reorg \/ DealsChange \/ SectorFaults

Next == Machine \/ Environment

Spec == Init /\ [][Next]_vars

(* The process keeps running, epochs follow each other, messages land.     *)
FairSpec ==
  /\ Spec /\ WF_vars(Machine) /\ WF_vars(NewEpoch)
  /\ WF_vars(\E i \in DOMAIN msgs : ExecuteMsg(i))

(***************************************************************************)
(* Properties                                                              *)
(***************************************************************************)
(* A precommitted sector is only ever resealed with the ticket the chain   *)
(* holds: whatever retries, restarts and reorganisations lie between, the  *)
(* ticket (and past PreCommit2 the CommR) of the sector is that of the     *)
(* precommit on chain.  Otherwise no proof could ever be accepted.  The    *)
(* empty ticket of a failed getTicket is the exception.                    *)
SealedAsPreCommitted ==
  chain.pci # NONE =>
    /\ si.ticket \in {0, chain.pci.ticket}
    /\ si.ticket # 0 /\ si.state \in {"PreCommitting", "SubmitPreCommitBatch", "PreCommitWait",
                     "PreCommitBatchWait", "WaitSeed", "Committing", "SubmitCommit",
                     "SubmitCommitAggregate", "CommitWait", "CommitAggregateWait"}
       => si.commR = chain.pci.commR

(* A sector that is on chain, or whose recorded commit message may still   *)
(* put it there, is neither removed nor sealed again on the machine's own  *)
(* account; only a commit message forgotten in a restart can be missed.    *)
MayBeOnChain ==
  \/ chain.info # NONE /\ chain.info.live
  \/ si.CommitMessage # 0 /\ msgs[si.CommitMessage].status \in {"pending", "ok"}

OnChainIsKept ==
  MayBeOnChain /\ asked \cap {"Remove", "Terminate"} = {} /\ "commit" \notin unrecorded
    => si.state \notin {"Removing", "RemoveFailed", "Removed", "Packing", "GetTicket",
                        "PreCommit1", "PreCommit2", "SealPreCommit1Failed", "SealPreCommit2Failed"}

(* An upgrade that the chain has accepted is not given up: the replica the *)
(* chain now expects stays, unless the user aborts or a restart lost the   *)
(* message.                                                                *)
AcceptedUpgradeIsKept ==
  chain.info # NONE /\ chain.info.updated /\ "SectorAbortUpgrade" \notin asked
  /\ "update" \notin unrecorded
    => si.CCUpdate /\ si.state # "AbortUpgrade"

(* What the chain has taken, the sector keeps: the sector itself, and an   *)
(* upgrade of it, whatever fails, expires or is asked for meanwhile.       *)
AcceptedIsKept == OnChainIsKept /\ AcceptedUpgradeIsKept


(* Without a user's request every event meets a planner that expects it,   *)
(* with two exceptions: handleGetTicket can send an event GetTicket does   *)
(* not list, and the event that led to ReleaseSectorKeyFailed stays in the *)
(* list of pending events.                                                 *)
KnownRefusals == {<<"GetTicket", "SectorSealPreCommit1Failed">>,
                  <<"ReleaseSectorKeyFailed", "SectorReleaseKeyFailed">>}


(* The machine rests only where it is meant to: a failure of the sealer,   *)
(* of a message, of the deals, a restart or a reorganisation is followed   *)
(* up.  What strands a sector is an API error that a handler gives up on,  *)
(* an event that is refused, a precommit that has expired, a commit        *)
(* message lost in a restart, or deals that expire while their identifiers *)
(* are looked up.                                                          *)
Stranded ==
  \/ /\ si.state \in {"PreCommitting", "SubmitPreCommitBatch", "PreCommitFailed", "CommitFailed"}
     /\ "commit" \in unrecorded \/ (chain.allocated /\ chain.pci = NONE /\ chain.info = NONE)
  \/ si.state \in {"RecoverDealIDs", "SnapDealsRecoverDealIDs"} /\ market = "expired"

RestsWhereItMay ==
  run = "idle" /\ queue = <<>> /\ timers = {} /\ asked = {}
    => \/ si.state \in {"WaitDeals", "SnapDealsWaitDeals", "Proving", "Available", "Removed"}
       \/ Stranded

(* states_failed.go:268, of a sector key that could not be released: "not  *)
(* much we can do, wait for a bit and try again".  Releasing it is tried   *)
(* again, whatever happened before.                                        *)
ReleaseRetried ==
  si.state = "ReleaseSectorKeyFailed" ~> si.state # "ReleaseSectorKeyFailed"
=============================================================================
