CONSTANTS
  NONE = NONE
  SealRandomnessLookback = 1
  MaxTicketAge = 2
  PreCommitChallengeDelay = 1
  MaxProveCommitDuration = 3
  Confidence = 1
  StartHeight = 4
  MaxHeight = 6
  MaxFaults = 2
  MaxMsgs = 2
  QueueCap = 3
  Starts = {"CC"}
  Requests = {}
SPECIFICATION FairSpec
PROPERTY ReleaseRetried
CHECK_DEADLOCK FALSE
