SPECIFICATION Spec
CONSTANTS
  ann = ann  bob = bob
  Accounts = {ann, bob}
  NoAccount = NoAccount
  Offered = {"document"}
  MaxMutations = 2
  MaxTransientRetries = 2
  MaxSessions = 2
  MaxExpiries = 1
  MaxKills = 1
  MaxDelayed = 0
  MaxDue = 1
INVARIANTS SnapshotIsCurrent
PROPERTIES DoneIsApplied ImplementsOutbox
