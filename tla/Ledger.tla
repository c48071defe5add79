------------------------------- MODULE Ledger -------------------------------
(***************************************************************************)
(* What the accounting journal promises: each enterprise has a list of     *)
(* entries that only grows at its end, the number of an entry is its place *)
(* in the list, and an idempotency key names at most one entry.            *)
(***************************************************************************)
EXTENDS Sequences

CONSTANTS
  Enterprises,
  Keys,        \* idempotency keys
  Entries,     \* sequences of lines that keep double entry
  None

VARIABLE ledger

Init == ledger = [e \in Enterprises |-> <<>>]

Used(e) == {ledger[e][i].key : i \in DOMAIN ledger[e]}

Post(e, lines, key) ==
  /\ key # None => key \notin Used(e)
  /\ ledger' = [ledger EXCEPT ![e] = Append(@, [lines |-> lines, key |-> key])]

Next == \E e \in Enterprises, lines \in Entries, key \in Keys \cup {None} : Post(e, lines, key)

Spec == Init /\ [][Next]_ledger
=============================================================================
