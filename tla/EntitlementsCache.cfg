SPECIFICATION Spec
CONSTANTS
  t1 = t1  t2 = t2  r1 = r1  r2 = r2  p1 = p1
  Tenants = {t1, t2}
  Processes = {p1}
  Requests = {r1, r2}
  Offers <- OffersDef
  Ttl = 2
  MaxEntries = 1
  MaxWait = 1
  MaxUsers = 3
  Unlimited = Unlimited
  None = None
SYMMETRY Interchangeable
INVARIANTS
  StalenessIsBounded
  QuotaIsNearlyKept
