----------------------------- MODULE Inventory -----------------------------
(***************************************************************************)
(* What the stock of a tenant promises: a movement, or all the movements   *)
(* of a sale or a purchase, is posted in one step, a document and an       *)
(* idempotency key at most once, and no product is ever sold that is not   *)
(* there.                                                                  *)
(***************************************************************************)
EXTENDS Integers

CONSTANTS
  Products,
  Documents,   \* sales and purchases
  Effect,      \* what posting a document adds to each product
  Deltas,      \* what a movement made by hand may add
  Keys,        \* idempotency keys
  None

VARIABLES
  stock,       \* quantity on hand of each product
  posted,      \* documents whose movements were posted
  used         \* how many movements were posted under each key

inventory == <<stock, posted, used>>

Init ==
  /\ stock = [p \in Products |-> 0]
  /\ posted = {}
  /\ used = [k \in Keys |-> 0]

Post(d) ==
  /\ d \notin posted
  /\ stock' = [p \in Products |-> stock[p] + Effect[d][p]]
  /\ \A p \in Products : stock'[p] >= 0
  /\ posted' = posted \cup {d}
  /\ UNCHANGED used

Move(p, delta, key) ==
  /\ key # None => used[key] = 0
  /\ stock[p] + delta >= 0
  /\ stock' = [stock EXCEPT ![p] = @ + delta]
  /\ used' = IF key = None THEN used ELSE [used EXCEPT ![key] = 1]
  /\ UNCHANGED posted

Next ==
  \/ \E d \in Documents : Post(d)
  \/ \E p \in Products, delta \in Deltas, key \in Keys \cup {None} : Move(p, delta, key)

Spec == Init /\ [][Next]_inventory
=============================================================================
