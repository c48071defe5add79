SPECIFICATION Spec
CONSTANTS
  None = None
  Enterprises = {e1}
  Payments = {p1, p2}
  Plans = {silver, gold}
  Webhooks = {w1}
  Sweeps = {s1}
  Expirers = {}
  Admins = {a1}
  TrialLength = 0
  GracePeriod = 0
  PendingTtl = 0
  MaxTime = 1
  MaxFaults = 1
  MaxEvents = 3
INVARIANT EveryTransitionIsRecorded
SYMMETRY Interchangeable
