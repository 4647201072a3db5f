CONSTANTS
  NONE = NONE
  SealRandomnessLookback = 1
  MaxTicketAge = 2
  PreCommitChallengeDelay = 1
  MaxProveCommitDuration = 3
  Confidence = 1
  StartHeight = 4
  MaxHeight = 8
  MaxFaults = 2
  MaxMsgs = 4
  QueueCap = 3
  Starts = {"SectorStart", "SectorStartCC", "CC"}
  Requests = {"Remove", "Terminate", "MarkForUpgrade"}
SPECIFICATION Spec
INVARIANTS SealedAsPreCommitted AcceptedIsKept  RestsWhereItMay
 
CHECK_DEADLOCK FALSE
