--------------------------- MODULE MCEntitlements ---------------------------
(***************************************************************************)
(* Subscriptions for model checking Entitlements.                          *)
(***************************************************************************)
EXTENDS Entitlements, TLC

CONSTANTS t1, t2, r1, r2, p1

Plan(open, max) == [open |-> open, max |-> max]

\* The first tenant pays for one user or two, or does not pay; the second has no limit.
OffersDef ==
  (t1 :> {Plan(TRUE, 1), Plan(TRUE, 2), Plan(FALSE, 2)}) @@ (t2 :> {Plan(TRUE, Unlimited)})

Interchangeable == Permutations(Requests)
=============================================================================
