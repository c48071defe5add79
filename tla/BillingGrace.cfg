SPECIFICATION Spec
CONSTANTS
  None = None
  Enterprises = {e1}
  Payments = {p1, p2, p3}
  Plans = {silver}
  Webhooks = {w1}
  Sweeps = {s1}
  Expirers = {}
  Admins = {}
  TrialLength = 0
  GracePeriod = 0
  PendingTtl = 1
  MaxTime = 2
  MaxFaults = 0
  MaxEvents = 4
PROPERTY SuspendedAfterGrace
SYMMETRY Interchangeable
