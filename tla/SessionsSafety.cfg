SPECIFICATION Spec
CONSTANTS
  Requests = {r1, r2}
  Tokens = {k1, k2, k3}
  Links = {l1, l2}
  MaxAttempts = 3
  StatusTtl = 1
  MaxWait = 1
  MaxTries = 10
  Loads <- LoadsDef
  None = None
SYMMETRY Interchangeable
INVARIANTS
  OneHolderUnlessOverlap
  GuessesAreBounded
  LinksWorkOnce
PROPERTIES
  EndedSessionsStayEnded
  SuspensionIsTimely
