------------------------- MODULE PaymentSettlement -------------------------
(***************************************************************************)
(* What the billing of the platform promises about money, whatever the     *)
(* number of webhook deliveries, jobs and restarts: a payment is opened    *)
(* once, settled at most once, in one step, and the step that makes it     *)
(* SUCCEEDED is the one that issues its invoice, under the next number of  *)
(* its enterprise.                                                         *)
(***************************************************************************)
EXTENDS Integers, FiniteSets

CONSTANTS Enterprises, Payments, None

VARIABLES
  status,  \* of each payment
  owner,   \* enterprise of each opened payment
  ledger   \* invoices issued so far

settlement == <<status, owner, ledger>>

LedgerOf(e) == {i \in ledger : i.enterprise = e}

Init ==
  /\ status = [p \in Payments |-> "NONE"]
  /\ owner = [p \in Payments |-> None]
  /\ ledger = {}

Open(p, e) ==
  /\ status[p] = "NONE"
  /\ status' = [status EXCEPT ![p] = "PENDING"]
  /\ owner' = [owner EXCEPT ![p] = e]
  /\ UNCHANGED ledger

\* The provider reports a failure, or nobody paid in time.
Close(p) ==
  /\ status[p] = "PENDING"
  /\ \E final \in {"FAILED", "EXPIRED"} : status' = [status EXCEPT ![p] = final]
  /\ UNCHANGED <<owner, ledger>>

Pay(p) ==
  /\ status[p] = "PENDING"
  /\ status' = [status EXCEPT ![p] = "SUCCEEDED"]
  /\ ledger' = ledger \cup
       {[payment |-> p, enterprise |-> owner[p],
         number |-> Cardinality(LedgerOf(owner[p])) + 1]}
  /\ UNCHANGED owner

Next ==
  \E p \in Payments : Close(p) \/ Pay(p) \/ \E e \in Enterprises : Open(p, e)

Spec == Init /\ [][Next]_settlement
=============================================================================
