---------------------------- MODULE SealingFsm ----------------------------
(***************************************************************************)
(* The planner of the sealing state machine, storage/pipeline/fsm.go: what *)
(* a list of pending events makes of the state of a sector.  It is pure:   *)
(* module Sealing adds the handlers, the chain and the process that runs   *)
(* them.                                                                   *)
(*                                                                         *)
(* A sector is a record of the fields of SectorInfo that steer the         *)
(* machine; an event is a record with its Go type name and what it carries.*)
(* Message identifiers and chain epochs are integers; 0 and NONE stand for *)
(* an absent message and an absent value.                                  *)
(***************************************************************************)
EXTENDS Integers, Sequences, FiniteSets, TLC

CONSTANT NONE       \* a pointer that is nil

(***************************************************************************)
(* fsmPlanners.  A planner maps an event to the next state, to "apply" (the *)
(* event is taken and the state stays) or to "return" (the state kept in   *)
(* Return).  Committing has a planner of its own, planCommitting below.     *)
(***************************************************************************)
sealingPlanners ==
  [ UndefinedSectorState |-> [SectorStart |-> "WaitDeals", SectorStartCC |-> "Packing"],
    WaitDeals |-> [SectorAddPiece |-> "AddPiece", SectorStartPacking |-> "Packing"],
    AddPiece |-> [SectorPieceAdded |-> "WaitDeals", SectorStartPacking |-> "apply",
                  SectorAddPiece |-> "apply", SectorAddPieceFailed |-> "AddPieceFailed"],
    Packing |-> [SectorPacked |-> "GetTicket"],
    GetTicket |-> [SectorTicket |-> "PreCommit1", SectorCommitFailed |-> "CommitFailed"],
    PreCommit1 |-> [SectorPreCommit1 |-> "PreCommit2",
                    SectorSealPreCommit1Failed |-> "SealPreCommit1Failed",
                    SectorDealsExpired |-> "DealsExpired",
                    SectorInvalidDealIDs |-> "RecoverDealIDs",
                    SectorOldTicket |-> "GetTicket"],
    PreCommit2 |-> [SectorPreCommit2 |-> "PreCommitting",
                    SectorSealPreCommit2Failed |-> "SealPreCommit2Failed",
                    SectorSealPreCommit1Failed |-> "SealPreCommit1Failed"],
    PreCommitting |-> [SectorPreCommitBatch |-> "SubmitPreCommitBatch",
                       SectorPreCommitted |-> "PreCommitWait",
                       SectorSealPreCommit1Failed |-> "SealPreCommit1Failed",
                       SectorChainPreCommitFailed |-> "PreCommitFailed",
                       SectorPreCommitLanded |-> "WaitSeed",
                       SectorDealsExpired |-> "DealsExpired",
                       SectorInvalidDealIDs |-> "RecoverDealIDs"],
    SubmitPreCommitBatch |-> [SectorPreCommitBatchSent |-> "PreCommitBatchWait",
                              SectorSealPreCommit1Failed |-> "SealPreCommit1Failed",
                              SectorChainPreCommitFailed |-> "PreCommitFailed",
                              SectorPreCommitLanded |-> "WaitSeed",
                              SectorDealsExpired |-> "DealsExpired",
                              SectorInvalidDealIDs |-> "RecoverDealIDs"],
    PreCommitBatchWait |-> [SectorChainPreCommitFailed |-> "PreCommitFailed",
                            SectorPreCommitLanded |-> "WaitSeed",
                            SectorRetryPreCommit |-> "PreCommitting"],
    PreCommitWait |-> [SectorChainPreCommitFailed |-> "PreCommitFailed",
                       SectorPreCommitLanded |-> "WaitSeed",
                       SectorRetryPreCommit |-> "PreCommitting"],
    WaitSeed |-> [SectorSeedReady |-> "Committing",
                  SectorChainPreCommitFailed |-> "PreCommitFailed"],
    CommitFinalize |-> [SectorFinalized |-> "SubmitCommit",
                        SectorFinalizedAvailable |-> "SubmitCommit",
                        SectorFinalizeFailed |-> "CommitFinalizeFailed"],
    SubmitCommit |-> [SectorCommitSubmitted |-> "CommitWait",
                      SectorSubmitCommitAggregate |-> "SubmitCommitAggregate",
                      SectorCommitFailed |-> "CommitFailed"],
    SubmitCommitAggregate |-> [SectorCommitAggregateSent |-> "CommitAggregateWait",
                               SectorCommitFailed |-> "CommitFailed",
                               SectorRetrySubmitCommit |-> "SubmitCommit"],
    CommitWait |-> [SectorProving |-> "FinalizeSector", SectorCommitFailed |-> "CommitFailed",
                    SectorRetrySubmitCommit |-> "SubmitCommit"],
    CommitAggregateWait |-> [SectorProving |-> "FinalizeSector",
                             SectorCommitFailed |-> "CommitFailed",
                             SectorRetrySubmitCommit |-> "SubmitCommit"],
    FinalizeSector |-> [SectorFinalized |-> "Proving", SectorFinalizedAvailable |-> "Available",
                        SectorFinalizeFailed |-> "FinalizeFailed"] ]

(* The states of an upgrade of a sector without deals ("snap deals").      *)
upgradePlanners ==
  [ SnapDealsWaitDeals |-> [SectorAddPiece |-> "SnapDealsAddPiece",
                            SectorStartPacking |-> "SnapDealsPacking",
                            SectorAbortUpgrade |-> "AbortUpgrade"],
    SnapDealsAddPiece |-> [SectorPieceAdded |-> "SnapDealsWaitDeals",
                           SectorStartPacking |-> "apply", SectorAddPiece |-> "apply",
                           SectorAddPieceFailed |-> "SnapDealsAddPieceFailed",
                           SectorAbortUpgrade |-> "AbortUpgrade"],
    SnapDealsPacking |-> [SectorPacked |-> "UpdateReplica", SectorAbortUpgrade |-> "AbortUpgrade"],
    UpdateReplica |-> [SectorReplicaUpdate |-> "ProveReplicaUpdate",
                       SectorUpdateReplicaFailed |-> "ReplicaUpdateFailed",
                       SectorDealsExpired |-> "SnapDealsDealsExpired",
                       SectorInvalidDealIDs |-> "SnapDealsRecoverDealIDs",
                       SectorAbortUpgrade |-> "AbortUpgrade"],
    ProveReplicaUpdate |-> [SectorProveReplicaUpdate |-> "FinalizeReplicaUpdate",
                            SectorProveReplicaUpdateFailed |-> "ReplicaUpdateFailed",
                            SectorDealsExpired |-> "SnapDealsDealsExpired",
                            SectorInvalidDealIDs |-> "SnapDealsRecoverDealIDs",
                            SectorAbortUpgrade |-> "AbortUpgrade"],
    FinalizeReplicaUpdate |-> [SectorFinalized |-> "SubmitReplicaUpdate",
                               SectorFinalizeFailed |-> "FinalizeReplicaUpdateFailed"],
    SubmitReplicaUpdate |-> [SectorReplicaUpdateSubmitted |-> "ReplicaUpdateWait",
                             SectorSubmitReplicaUpdateFailed |-> "ReplicaUpdateFailed"],
    ReplicaUpdateWait |-> [SectorReplicaUpdateLanded |-> "UpdateActivating",
                           SectorSubmitReplicaUpdateFailed |-> "ReplicaUpdateFailed",
                           SectorAbortUpgrade |-> "AbortUpgrade"],
    UpdateActivating |-> [SectorUpdateActive |-> "ReleaseSectorKey"],
    ReleaseSectorKey |-> [SectorKeyReleased |-> "Proving",
                          SectorReleaseKeyFailed |-> "ReleaseSectorKeyFailed"] ]

(* Their failure states.                                                   *)
upgradeFailurePlanners ==
  [ SnapDealsAddPieceFailed |-> [SectorRetryWaitDeals |-> "SnapDealsWaitDeals",
                                 SectorStartPacking |-> "apply", SectorAddPiece |-> "apply",
                                 SectorAbortUpgrade |-> "AbortUpgrade"],
    SnapDealsDealsExpired |-> [SectorAbortUpgrade |-> "AbortUpgrade"],
    SnapDealsRecoverDealIDs |-> [SectorUpdateDealIDs |-> "SubmitReplicaUpdate",
                                 SectorAbortUpgrade |-> "AbortUpgrade"],
    AbortUpgrade |-> [SectorRevertUpgradeToProving |-> "Proving"],
    ReplicaUpdateFailed |-> [SectorRetrySubmitReplicaUpdateWait |-> "ReplicaUpdateWait",
                             SectorRetrySubmitReplicaUpdate |-> "SubmitReplicaUpdate",
                             SectorRetryReplicaUpdate |-> "UpdateReplica",
                             SectorRetryProveReplicaUpdate |-> "ProveReplicaUpdate",
                             SectorInvalidDealIDs |-> "SnapDealsRecoverDealIDs",
                             SectorDealsExpired |-> "SnapDealsDealsExpired",
                             SectorAbortUpgrade |-> "AbortUpgrade"],
    ReleaseSectorKeyFailed |-> [SectorUpdateActive |-> "ReleaseSectorKey"],
    FinalizeReplicaUpdateFailed |-> [SectorRetryFinalize |-> "FinalizeReplicaUpdate"] ]

(* The failure states of the first sealing, and the states after it.  No   *)
(* code sends SectorFaulty or SectorFaultReported, so the states they lead *)
(* to are left out.                                                        *)
failurePlanners ==
  [ AddPieceFailed |-> [SectorRetryWaitDeals |-> "WaitDeals", SectorStartPacking |-> "apply",
                        SectorAddPiece |-> "apply"],
    SealPreCommit1Failed |-> [SectorRetrySealPreCommit1 |-> "PreCommit1"],
    SealPreCommit2Failed |-> [SectorRetrySealPreCommit1 |-> "PreCommit1",
                              SectorRetrySealPreCommit2 |-> "PreCommit2"],
    PreCommitFailed |-> [SectorRetryPreCommit |-> "PreCommitting",
                         SectorRetryPreCommitWait |-> "PreCommitWait",
                         SectorRetryWaitSeed |-> "WaitSeed",
                         SectorSealPreCommit1Failed |-> "SealPreCommit1Failed",
                         SectorPreCommitLanded |-> "WaitSeed",
                         SectorDealsExpired |-> "DealsExpired",
                         SectorInvalidDealIDs |-> "RecoverDealIDs"],
    ComputeProofFailed |-> [SectorRetryComputeProof |-> "Committing",
                            SectorSealPreCommit1Failed |-> "SealPreCommit1Failed"],
    RemoteCommitFailed |-> [SectorRetryComputeProof |-> "Committing"],
    CommitFinalizeFailed |-> [SectorRetryFinalize |-> "CommitFinalize"],
    CommitFailed |-> [SectorSealPreCommit1Failed |-> "SealPreCommit1Failed",
                      SectorRetryWaitSeed |-> "WaitSeed",
                      SectorRetryComputeProof |-> "Committing",
                      SectorRetryInvalidProof |-> "Committing",
                      SectorRetryPreCommitWait |-> "PreCommitWait",
                      SectorChainPreCommitFailed |-> "PreCommitFailed",
                      SectorRetryPreCommit |-> "PreCommitting",
                      SectorRetryCommitWait |-> "CommitWait",
                      SectorRetrySubmitCommit |-> "SubmitCommit",
                      SectorDealsExpired |-> "DealsExpired",
                      SectorInvalidDealIDs |-> "RecoverDealIDs",
                      SectorTicketExpired |-> "Removing"],
    FinalizeFailed |-> [SectorRetryFinalize |-> "FinalizeSector"],
    DealsExpired |-> <<>>,
    RecoverDealIDs |-> [SectorUpdateDealIDs |-> "return"] ]

provingPlanners ==
  [ Proving |-> [SectorMarkForUpdate |-> "Available"],
    Available |-> [SectorStartCCUpdate |-> "SnapDealsWaitDeals", SectorAbortUpgrade |-> "Proving"],
    Terminating |-> [SectorTerminating |-> "TerminateWait",
                     SectorTerminateFailed |-> "TerminateFailed"],
    TerminateWait |-> [SectorTerminated |-> "TerminateFinality",
                       SectorTerminateFailed |-> "TerminateFailed"],
    TerminateFinality |-> [SectorTerminateFailed |-> "TerminateFailed"],
    TerminateFailed |-> <<>>,
    Removing |-> [SectorRemoved |-> "Removed", SectorRemoveFailed |-> "RemoveFailed"],
    RemoveFailed |-> <<>> ]

fsmPlanners == 
  sealingPlanners @@ upgradePlanners @@ upgradeFailurePlanners @@ failurePlanners @@ provingPlanners

(* States whose planner is planOneOrIgnore: an unexpected event is dropped  *)
(* and the handler of the state runs again.                                *)
planOneOrIgnore == {"AbortUpgrade", "Removing"}

(* planOne passes over an event of an Ignorable type that its state does   *)
(* not list.                                                               *)
Ignorable == {"SectorStartPacking"}


globalMutators == {"SectorRestart", "SectorTerminate", "SectorRemove"}

applyGlobal(e, s) ==
  CASE e.type = "SectorTerminate" -> [s EXCEPT !.state = "Terminating"]
    [] e.type = "SectorRemove" -> [s EXCEPT !.state = "Removing"]
    [] OTHER -> s

(* Normal path *)
applyNormal(e, s) ==
  CASE e.type = "SectorPieceAdded" -> [s EXCEPT !.deals = @ \/ e.deal]
    [] e.type = "SectorTicket" -> [s EXCEPT !.ticket = e.epoch]
    [] e.type = "SectorPreCommit1" -> [s EXCEPT !.pc1Out = e.epoch, !.PreCommit2Fails = 0]
    [] e.type = "SectorPreCommit2" -> [s EXCEPT !.commR = e.epoch]
    [] e.type \in {"SectorPreCommitted", "SectorPreCommitBatchSent"} ->
         [s EXCEPT !.PreCommitMessage = e.msg]
    [] e.type = "SectorSealPreCommit1Failed" ->
         [s EXCEPT !.InvalidProofs = 0, !.PreCommit2Fails = 0]
    [] e.type = "SectorSealPreCommit2Failed" ->
         [s EXCEPT !.InvalidProofs = 0, !.PreCommit2Fails = @ + 1]
    [] e.type = "SectorSeedReady" -> [s EXCEPT !.seed = e.epoch]
    [] e.type \in {"SectorCommitted", "SectorProofReady"} -> [s EXCEPT !.proof = e.proof]
    [] e.type \in {"SectorCommitSubmitted", "SectorCommitAggregateSent"} ->
         [s EXCEPT !.CommitMessage = e.msg]
    [] OTHER -> s

(* Snap deals; a reverted upgrade leaves no trace. *)
applyUpgrade(e, s) ==
  CASE e.type = "SectorStartCCUpdate" -> [s EXCEPT !.CCUpdate = TRUE, !.deals = FALSE]
    [] e.type = "SectorReplicaUpdate" -> [s EXCEPT !.UpdateSealed = TRUE]
    [] e.type = "SectorProveReplicaUpdate" -> [s EXCEPT !.ReplicaUpdateProof = TRUE]
    [] e.type = "SectorReplicaUpdateSubmitted" -> [s EXCEPT !.ReplicaUpdateMessage = e.msg]
    [] e.type = "SectorRevertUpgradeToProving" ->
         [s EXCEPT !.CCUpdate = FALSE, !.deals = FALSE, !.UpdateSealed = FALSE,
                   !.ReplicaUpdateProof = FALSE, !.ReplicaUpdateMessage = 0]
    [] OTHER -> s

(* Failed state recovery; no test tells more than two invalid proofs apart. *)
applyRecovery(e, s) ==
  CASE e.type \in {"SectorRetryComputeProof", "SectorRetryInvalidProof"} ->
         [s EXCEPT !.InvalidProofs = IF @ = 2 THEN 2 ELSE @ + 1]
    [] e.type = "SectorInvalidDealIDs" -> [s EXCEPT !.Return = e.ret]
    [] e.type = "SectorUpdateDealIDs" -> [s EXCEPT !.dealIDs = e.ids]
    [] OTHER -> s

(* Terminating *)
applyTerminating(e, s) ==
  IF e.type = "SectorTerminating" THEN [s EXCEPT !.TerminateMessage = e.msg] ELSE s

(* The types are told apart, so the order is of no account.                *)
apply(e, s) == applyNormal(e, applyUpgrade(e, applyRecovery(e, applyTerminating(e, s))))

(***************************************************************************)
(* What a planner does with the pending events: the sector it leaves, how  *)
(* many events it took, and the event it refused (NONE: none was); after a *)
(* refusal Plan runs no handler.                                           *)
(***************************************************************************)
Planned(s, n, refused) == [si |-> s, processed |-> n, err |-> refused]

takes(st, e) == e.type \in DOMAIN fsmPlanners[st]

(* planOne stops at the first event that is neither applied in place nor   *)
(* ignorable; it takes that event and the ones before it.                  *)
planOne(s, q) ==
  LET more(i) == /\ q[i].type \notin globalMutators
                 /\ \/ takes(s.state, q[i]) /\ fsmPlanners[s.state][q[i].type] = "apply"
                    \/ ~takes(s.state, q[i]) /\ q[i].type \in Ignorable
      stops == {i \in 1..Len(q) : ~more(i)}
      k     == CHOOSE i \in stops : \A j \in stops : i <= j
      to    == fsmPlanners[s.state][q[k].type]
      a     == apply(q[k], s)
  IN  IF stops = {} THEN Planned(s, Len(q), NONE)
      ELSE IF q[k].type \in globalMutators THEN Planned(applyGlobal(q[k], s), k, NONE)
      ELSE IF ~takes(s.state, q[k]) THEN Planned(s, k, IF s.state \in planOneOrIgnore THEN NONE ELSE q[k].type)
      ELSE IF to # "return" THEN Planned([a EXCEPT !.state = to], k, NONE)
      ELSE IF a.Return = NONE THEN Planned(a, k, q[k].type)
      ELSE Planned([a EXCEPT !.state = a.Return, !.Return = NONE], k, NONE)

(* planCommitting takes the whole list, and leaves an event it does not    *)
(* know in the list.                                                       *)
committingStates ==
  [ SectorCommitted |-> "SubmitCommit", SectorProofReady |-> "CommitFinalize",
    SectorComputeProofFailed |-> "ComputeProofFailed",
    SectorRemoteCommit1Failed |-> "RemoteCommitFailed",
    SectorRemoteCommit2Failed |-> "RemoteCommitFailed",
    SectorSealPreCommit1Failed |-> "SealPreCommit1Failed",
    SectorCommitFailed |-> "CommitFailed", SectorRetryCommitWait |-> "CommitWait" ]

planCommitting(s, q) ==
  LET p[i \in 0..Len(q)] ==       \* the result after the first i events; ended: the loop returned
        IF i = 0 THEN [r |-> Planned(s, 0, NONE), ended |-> FALSE]
        ELSE IF p[i-1].ended THEN p[i-1]
        ELSE LET e == q[i]
                 c == p[i-1].r.si
             IN  CASE e.type = "SectorRestart" -> [r |-> Planned(c, i, NONE), ended |-> FALSE]
                   [] e.type \in globalMutators ->
                        [r |-> Planned(applyGlobal(e, c), i, NONE), ended |-> TRUE]
                   [] e.type = "SectorSeedReady" /\ e.epoch = c.seed ->
                        [r |-> Planned(c, i, NONE), ended |-> FALSE]
                   [] e.type = "SectorSeedReady" /\ e.epoch # c.seed ->
                        [r |-> Planned([apply(e, c) EXCEPT !.state = "Committing"], i, NONE),
                         ended |-> TRUE]
                   [] e.type \in {"SectorCommitted", "SectorProofReady"} ->
                        [r |-> Planned([apply(e, c) EXCEPT !.state = committingStates[e.type]],
                                       i, NONE),
                         ended |-> FALSE]
                   [] e.type \in DOMAIN committingStates
                        \ {"SectorCommitted", "SectorProofReady"} ->
                        [r |-> Planned([c EXCEPT !.state = committingStates[e.type]], i, NONE),
                         ended |-> FALSE]
                   [] OTHER -> [r |-> Planned(c, i - 1, e.type), ended |-> TRUE]
  IN  p[Len(q)].r

(***************************************************************************)
(* Plan: the planner of the state, then the handler of the new state.  The *)
(* case for ReleaseSectorKeyFailed reports that no event was taken; Removed *)
(* has no handler.                                                         *)
(***************************************************************************)
Plan(s, q) ==
  LET r == CASE s.state = "Committing" -> planCommitting(s, q)
             [] s.state = "Removed" -> Planned(s, Len(q), NONE)
             [] OTHER -> planOne(s, q)
  IN  [ si |-> r.si,
        rest |-> IF r.si.state = "ReleaseSectorKeyFailed" /\ r.err = NONE THEN q
                 ELSE SubSeq(q, r.processed + 1, Len(q)),
        err |-> r.err,
        run |-> r.err = NONE /\ r.si.state # "Removed" ]

=============================================================================
