----------------------------- MODULE MCTrading -----------------------------
(***************************************************************************)
(* Small workloads for Trading: documents, lines and the calls clients     *)
(* make, one workload per run.                                             *)
(***************************************************************************)
EXTENDS Trading, TLC

CONSTANTS s1, s2, p1, a, b, i1, i2, k1, k2, r1, r2, r3

\* s1 takes a and b, s2 takes a, p1 brings both.
MCQuantity ==
  [d \in Documents |-> [q \in Products |->
     CASE d = s1 -> 1
       [] d = s2 -> IF q = a THEN 2 ELSE 0
       [] OTHER  -> IF q = a THEN 2 ELSE 1]]

Create(table, key) == [op |-> "create", table |-> table, key |-> key]
On(op, d) == [op |-> op, doc |-> d]
Bill(s, key) == [op |-> "invoice", sale |-> s, key |-> key]
Set(op, i) == [op |-> op, invoice |-> i]
Hand(q, type, quantity, key) ==
  [op |-> "move", product |-> q, type |-> type, quantity |-> quantity, key |-> key]

\* Stock is received, adjusted, sold and counted, by hand and by documents.
StockCalls ==
  {Create("sales", None), Create("purchases", None),
   On("confirm", s1), On("confirm", s2), On("confirm", p1), On("cancel", s1),
   Hand(a, "IN", 2, k1), Hand(a, "OUT", 1, None), Hand(b, "ADJUSTMENT", 1, None),
   Hand(b, "ADJUSTMENT", -1, k2)}

\* Sales are drafted under a key, confirmed, cancelled and invoiced.
InvoiceCalls ==
  {Create("sales", k1), Create("sales", k2), Hand(a, "IN", 2, k1), Hand(b, "IN", 1, None),
   On("confirm", s1), On("cancel", s1), On("confirm", s2),
   Bill(s1, k1), Bill(s1, None), Bill(s2, k2),
   Set("PAID", i1), Set("VOID", i1)}

\* Confirmations and movements that keep failing one another.
RetryCalls ==
  {Create("sales", k1), Create("purchases", k1), On("confirm", s1), On("confirm", p1),
   On("cancel", p1), Hand(a, "IN", 1, k1), Hand(b, "IN", 1, k2), Bill(s1, k1), Set("PAID", i1)}

Interchangeable == Permutations(Requests)
=============================================================================
