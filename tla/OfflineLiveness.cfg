SPECIFICATION FairSpec
CONSTANTS
  ann = ann  bob = bob
  Accounts = {ann}
  NoAccount = NoAccount
  Offered = {"document"}
  MaxMutations = 2
  MaxTransientRetries = 2
  MaxSessions = 1
  MaxExpiries = 0
  MaxKills = 0
  MaxDelayed = 1
  MaxDue = 1
PROPERTIES EveryMutationSettles
