SPECIFICATION Spec
CONSTANTS
  Offered <- AllForms
  Options = {o1}
  Typed <- TypedDef
  MaxLines = 3
  MaxMutations <- MutationsDef
  MaxOpenings <- OpeningsDef
  MaxKeys <- KeysDef
  MaxChanges = 1
INVARIANTS
  SignIsShown
  OneMutationPerOpening
PROPERTIES
  PatchesChangeWhatWasTyped
CHECK_DEADLOCK FALSE
