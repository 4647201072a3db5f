CONSTANTS
  a = a
  b = b
  c = c
  NULL = NULL
  Invocation = {p1, p2, p3}
  Cid = {a, b, c}
  Request <- AnyRequests
SPECIFICATION FairSpec
INVARIANTS ResolvedChainSound ListedChainSound BrokenOnlyByAWriter QuietLinksAgree
PROPERTIES InvocationsEnd
CHECK_DEADLOCK FALSE
