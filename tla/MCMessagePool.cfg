CONSTANTS
  b = b
  s = s
  Addr = {b, s}
  Bls = {b}
  Message <- Messages
  Balance = 8
  BlockMessageLimit = 4
  MaxNonceGap = 1
  MaxActorPendingMessages = 2
  MaxUntrustedActorPendingMessages = 1
  SizeLimitHigh = 1
  SizeLimitLow = 1
  MaxNonce = 2
  MaxHeight = 2
  MaxEvents = 3
SPECIFICATION Spec
INVARIANTS BooksAgree LocalKept ChainsAreBest
 
CHECK_DEADLOCK FALSE
