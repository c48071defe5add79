SPECIFICATION Spec
CONSTANTS
  ann = ann  bob = bob
  Accounts = {ann, bob}
  NoAccount = NoAccount
  Offered = {"record"}
  MaxMutations = 2
  MaxTransientRetries = 3
  MaxSessions = 2
  MaxExpiries = 0
  MaxKills = 0
  MaxDelayed = 0
  MaxDue = 1
INVARIANTS EffectsStayHome
