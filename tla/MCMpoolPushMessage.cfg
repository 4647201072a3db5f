CONSTANTS
  c1 = c1
  c2 = c2
  a1 = a1
  Call = {c1, c2}
  Tagged = {c1}
  Addr = {a1}
  From <- OneSender
  MaxTries = 2
  MaxForeign = 2
  NONE = NONE
SPECIFICATION FairSpec
INVARIANTS NonceOnce NoGap OnceWhenSure
PROPERTIES CallsEnd
CHECK_DEADLOCK FALSE
