SPECIFICATION Spec
CONSTANTS
  ann = ann  bob = bob
  Accounts = {ann}
  NoAccount = NoAccount
  Offered = {"update"}
  MaxMutations = 2
  MaxTransientRetries = 3
  MaxSessions = 1
  MaxExpiries = 0
  MaxKills = 0
  MaxDelayed = 1
  MaxDue = 1
PROPERTIES AppliedInOrder
