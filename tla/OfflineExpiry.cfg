SPECIFICATION FairSpec
CONSTANTS
  ann = ann  bob = bob
  Accounts = {ann}
  NoAccount = NoAccount
  Offered = {"document"}
  MaxMutations = 1
  MaxTransientRetries = 2
  MaxSessions = 1
  MaxExpiries = 1
  MaxKills = 0
  MaxDelayed = 0
  MaxDue = 1
PROPERTIES RetriedAfterExpiry
