----------------------------- MODULE MCBilling -----------------------------
(* Small instances of Billing for TLC. *)
EXTENDS Billing, TLC

\* Payments, webhook requests and enterprises are interchangeable: no definition
\* singles one of them out, and no liveness is checked under this symmetry.
Interchangeable ==
  Permutations(Payments) \cup Permutations(Webhooks) \cup Permutations(Enterprises)
=============================================================================
