CONSTANTS
  WPoStChallengeWindow = 2
  WPoStChallengeLookback = 1
  WPoStPeriodDeadlines = 2
  ChallengeConfidence = 1
  SubmitConfidence = 1
  FirstPeriod = 2
  Periods = 2
  MaxHeight = 4
  Reverted = {1, 3}
  Gen = {g1, g2}
  AddedCap = 1
  PassesOver = FALSE
  NONE = NONE
SPECIFICATION FairSpec
INVARIANTS NoLostProof OneProofUnlessLate CompleteMeansSent
 
