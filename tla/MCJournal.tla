----------------------------- MODULE MCJournal -----------------------------
(***************************************************************************)
(* Entries for model checking Journal: two that keep double entry, on      *)
(* accounts of their own so that both enterprises can post, and one that   *)
(* does not keep it.                                                       *)
(***************************************************************************)
EXTENDS Journal, TLC

CONSTANTS a1, a2, a3, r1, r2, r3

D(a, amount) == [account |-> a, debit |-> amount, credit |-> 0]
C(a, amount) == [account |-> a, debit |-> 0, credit |-> amount]

MCInputs == {<<D(a1, 1), C(a2, 1)>>, <<D(a3, 1), C(a3, 1)>>, <<D(a1, 1), C(a2, 2)>>}

Interchangeable ==
  Permutations(Requests) \cup Permutations(Enterprises) \cup Permutations(Prefixes)
=============================================================================
