SPECIFICATION Spec
CONSTANTS
  a1 = a1  a2 = a2  a3 = a3  r1 = r1  r2 = r2  r3 = r3
  Enterprises = {e1, e2}
  Accounts = {a1, a2, a3}
  Keys = {k1}
  Inputs <- MCInputs
  Requests = {r1, r2, r3}
  Prefixes = {p1, p2}
  None = None
SYMMETRY Interchangeable
INVARIANTS TrialBalances
