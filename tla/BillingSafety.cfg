SPECIFICATION Spec
CONSTANTS
  None = None
  Enterprises = {e1}
  Payments = {p1, p2}
  Plans = {silver}
  Webhooks = {w1, w2}
  Sweeps = {s1}
  Expirers = {x1}
  Admins = {}
  TrialLength = 0
  GracePeriod = 0
  PendingTtl = 0
  MaxTime = 1
  MaxFaults = 1
  MaxEvents = 4
SYMMETRY Interchangeable
INVARIANTS InvoicedExactlyOnce NumbersWithoutGap PaidAccessIsInvoiced RestrictionHasACause
  RecordedUnlessFault
PROPERTIES ResolvedInTime ImplementsSettlement
