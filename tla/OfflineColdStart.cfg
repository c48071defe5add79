SPECIFICATION Spec
CONSTANTS
  ann = ann  bob = bob
  Accounts = {ann}
  NoAccount = NoAccount
  Offered = {"document"}
  MaxMutations = 1
  MaxTransientRetries = 3
  MaxSessions = 2
  MaxExpiries = 0
  MaxKills = 1
  MaxDelayed = 0
  MaxDue = 1
PROPERTIES SurvivesKill
