SPECIFICATION FairSpec
CONSTANTS
  None = None
  Enterprises = {e1}
  Payments = {p1, p2}
  Plans = {silver, gold}
  Webhooks = {w1}
  Sweeps = {s1}
  Expirers = {x1}
  Admins = {a1}
  TrialLength = 0
  GracePeriod = 0
  PendingTtl = 0
  MaxTime = 1
  MaxFaults = 0
  MaxEvents = 1
PROPERTIES PendingIsSettled TrialEnds GraceEnds
