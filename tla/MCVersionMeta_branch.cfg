CONSTANTS
  a = a
  b = b
  c = c
  NULL = NULL
  Invocation = {p1, p2, p3}
  Cid = {a, b, c}
  Request <- BranchRequests
SYMMETRY Symmetry
SPECIFICATION Spec
INVARIANTS EveryVersionListed
CHECK_DEADLOCK FALSE
