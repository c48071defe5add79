SPECIFICATION Spec
CONSTANTS
  s1 = s1  s2 = s2  p1 = p1  a = a  b = b  i1 = i1  i2 = i2  k1 = k1  k2 = k2
  r1 = r1  r2 = r2  r3 = r3
  Sales = {s1, s2}
  Purchases = {p1}
  Products = {a, b}
  Quantity <- MCQuantity
  Invoices = {i1, i2}
  Keys = {k1, k2}
  Calls <- InvoiceCalls
  Requests = {r1, r2}
  MaxAttempts = 1
  MaxOnHand = 3
  None = None
SYMMETRY Interchangeable
INVARIANTS LoserGetsTheRow
