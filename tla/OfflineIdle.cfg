SPECIFICATION Spec
CONSTANTS
  ann = ann  bob = bob
  Accounts = {ann}
  NoAccount = NoAccount
  Offered = {"document"}
  MaxMutations = 2
  MaxTransientRetries = 3
  MaxSessions = 2
  MaxExpiries = 0
  MaxKills = 0
  MaxDelayed = 0
  MaxDue = 2
INVARIANTS PendingIsReplayed
