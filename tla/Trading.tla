------------------------------ MODULE Trading ------------------------------
(***************************************************************************)
(* Sales, purchases, stock and sales invoices of one tenant                *)
(* (apps/api/src/{sales,purchases,stock,invoicing}).  Requests run         *)
(* concurrently, each in a PostgreSQL transaction: SERIALIZABLE, with      *)
(* retries, for what reads the stock and then writes it; READ COMMITTED    *)
(* for the rest.  Tenants share no row, so that one tenant is enough.      *)
(*                                                                         *)
(* A serializable transaction reads its snapshot in one step and commits   *)
(* in another.  PostgreSQL does not let it commit once a transaction that  *)
(* ran meanwhile has changed what it read: it is then doomed.              *)
(***************************************************************************)
EXTENDS Integers, FiniteSets

CONSTANTS
  Sales, Purchases,
  Products,      \* products whose trackStock is set
  Quantity,      \* quantity of each product on the lines of each document
  Invoices,      \* rows that sales_invoices may come to hold
  Keys,          \* values of the Idempotency-Key header
  Calls,         \* API calls clients make
  Requests,      \* requests the API can be serving at once
  MaxAttempts,   \* DEFAULT_MAX_ATTEMPTS
  MaxOnHand,     \* bound on the stock that is received
  None           \* SQL NULL, and the absence of a value

Documents == Sales \cup Purchases

MovementTypes == {"IN", "OUT", "ADJUSTMENT"}

MoveCall == [op: {"move"}, product: Products, type: MovementTypes, quantity: Int,
             key: Keys \cup {None}]
CreateCall == [op: {"create"}, table: {"sales", "purchases"}, key: Keys \cup {None}]
ConfirmCall == [op: {"confirm"}, doc: Documents]
CancelCall == [op: {"cancel"}, doc: Documents]
InvoiceCall == [op: {"invoice"}, sale: Sales, key: Keys \cup {None}]
StatusCall == [op: {"PAID", "VOID"}, invoice: Invoices]

ASSUME TradingAssumption ==
  /\ Quantity \in [Documents -> [Products -> Nat]]
  /\ MaxAttempts \in Nat \ {0} /\ MaxOnHand \in Nat
  /\ Sales \cap Purchases = {}
  /\ None \notin Keys
  /\ \A call \in Calls :
       \/ call \in CreateCall \/ call \in ConfirmCall \/ call \in CancelCall
       \/ call \in InvoiceCall \/ call \in StatusCall
       \/ /\ call \in MoveCall
          /\ IF call.type = "ADJUSTMENT" THEN call.quantity # 0 ELSE call.quantity > 0

VARIABLES
  doc,            \* tables sales and purchases
  onHand,         \* sums of stock_movements by product, as aggregateQuantities makes them
  posted,         \* how many times the movements of each document were inserted
  keyed,          \* how many rows of stock_movements carry each idempotency key
  invoice,        \* table sales_invoices
  counter,        \* sales_invoice_counters.last_number
  request         \* requests in flight

tables == <<doc, onHand, posted, keyed, invoice, counter>>
vars == <<doc, onHand, posted, keyed, invoice, counter, request>>

-----------------------------------------------------------------------------
(* Rows and requests.                                                      *)

DocumentRow == [status: {"NONE", "DRAFT", "CONFIRMED", "CANCELLED"}, key: Keys \cup {None}]

InvoiceRow == [status: {"NONE", "ISSUED", "PAID", "VOID"}, sale: Sales \cup {None},
               number: Nat, key: Keys \cup {None}]

\* How a request is answered: 2xx with a new row or state, 2xx with the row an earlier
\* delivery created, 4xx, or 500.
Replies == {"done", "existing", "refused", "error"}

RequestState == [pc: {"idle", "begin", "commit", "cancel", "insert", "sale", "invoiced",
                      "status", "recover", "recover_sale", "answer"},
                 call: Calls \cup {None}, attempt: 1..MaxAttempts, doomed: BOOLEAN,
                 reply: Replies \cup {None}]

IdleRequest == [pc |-> "idle", call |-> None, attempt |-> 1, doomed |-> FALSE, reply |-> None]

\* One invariant says that tables and requests keep their shapes.
TypeOK ==
  /\ doc \in [Documents -> DocumentRow]
  /\ onHand \in [Products -> Int]
  /\ posted \in [Documents -> Nat]
  /\ keyed \in [Keys -> Nat]
  /\ invoice \in [Invoices -> InvoiceRow]
  /\ counter \in Nat
  /\ request \in [Requests -> RequestState]

Init ==
  /\ doc = [d \in Documents |-> [status |-> "NONE", key |-> None]]
  /\ onHand = [p \in Products |-> 0]
  /\ posted = [d \in Documents |-> 0]
  /\ keyed = [k \in Keys |-> 0]
  /\ invoice = [i \in Invoices |-> [status |-> "NONE", sale |-> None, number |-> 0, key |-> None]]
  /\ counter = 0
  /\ request = [r \in Requests |-> IdleRequest]

TableOf(d) == IF d \in Sales THEN "sales" ELSE "purchases"

\* A request goes on to another of its statements.
Goto(r, label) == request' = [request EXCEPT ![r].pc = label]

Answer(r, reply) ==
  request' = [request EXCEPT ![r] = [@ EXCEPT !.pc = "answer", !.reply = reply]]

\* Clients name rows that exist (404 otherwise, without any effect).
Exists(call) ==
  /\ call.op \in {"confirm", "cancel"} => doc[call.doc].status # "NONE"
  /\ call.op = "invoice" => doc[call.sale].status # "NONE"
  /\ call.op \in {"PAID", "VOID"} => invoice[call.invoice].status # "NONE"

\* Bound: every request in flight finds an unused row, and stock is received up to
\* MaxOnHand.
RoomFor(call) ==
  /\ call.op = "move" => onHand[call.product] + call.quantity <= MaxOnHand
  /\ call.op = "create" =>
       Cardinality({d \in Documents : TableOf(d) = call.table /\ doc[d].status = "NONE"})
         > Cardinality({q \in Requests : /\ request[q].pc # "idle" /\ request[q].call.op = "create"
                                        /\ request[q].call.table = call.table})
  /\ call.op = "invoice" =>
       Cardinality({i \in Invoices : invoice[i].status = "NONE"})
         > Cardinality({q \in Requests : request[q].pc # "idle" /\ request[q].call.op = "invoice"})

Accept(r, call) ==
  /\ request[r].pc = "idle"
  /\ Exists(call) /\ RoomFor(call)
  /\ request' = [request EXCEPT ![r] = [IdleRequest EXCEPT !.pc = "begin", !.call = call]]
  /\ UNCHANGED tables

Respond(r) ==
  /\ request[r].pc = "answer"
  /\ request' = [request EXCEPT ![r] = IdleRequest]
  /\ UNCHANGED tables

-----------------------------------------------------------------------------
(* Creation of a draft, SalesRepository.create and                         *)
(* PurchasesRepository.create: look the key up, then insert.               *)

KeyTaken(table, key) ==
  key # None /\ \E d \in Documents : /\ TableOf(d) = table /\ doc[d].status # "NONE"
                                     /\ doc[d].key = key

LookUpDraft(r) ==
  LET call == request[r].call
  IN /\ request[r].pc = "begin" /\ call.op = "create"
     /\ IF KeyTaken(call.table, call.key) THEN Answer(r, "existing") ELSE Goto(r, "insert")
     /\ UNCHANGED tables

\* Faulty variant: the table has no unique index on the key (before ADR 0019).
InsertDraftTwice(r, d) ==
  LET call == request[r].call
  IN /\ request[r].pc = "insert" /\ call.op = "create"
     /\ TableOf(d) = call.table /\ doc[d].status = "NONE"
     /\ doc' = [doc EXCEPT ![d] = [status |-> "DRAFT", key |-> call.key]]
     /\ Answer(r, "done")
     /\ UNCHANGED <<onHand, posted, keyed, invoice, counter>>

\* The unique index refuses a key somebody inserted since; the statement that failed
\* has aborted the transaction, and with it the findFirst of the catch block.
InsertDraft(r, d) ==
  LET call == request[r].call
  IN /\ request[r].pc = "insert" /\ call.op = "create"
     /\ TableOf(d) = call.table /\ doc[d].status = "NONE"
     /\ IF KeyTaken(call.table, call.key)
        THEN Answer(r, "error") /\ UNCHANGED doc
        ELSE /\ doc' = [doc EXCEPT ![d] = [status |-> "DRAFT", key |-> call.key]]
             /\ Answer(r, "done")
     /\ UNCHANGED <<onHand, posted, keyed, invoice, counter>>

-----------------------------------------------------------------------------
(* Serializable transactions: StockRepository.createMovement and the       *)
(* confirm of sales and purchases, which inserts one movement per line and *)
(* marks the document in the same transaction.                             *)

Delta(type, quantity) == IF type = "OUT" THEN -quantity ELSE quantity

\* What committing a call adds to each product.
Effect ==
  [d \in Documents |-> [p \in Products |->
    Delta(IF d \in Sales THEN "OUT" ELSE "IN", Quantity[d][p])]]

CallEffect(call) ==
  IF call.op = "confirm" THEN Effect[call.doc]
  ELSE [p \in Products |-> IF p = call.product THEN Delta(call.type, call.quantity) ELSE 0]

\* Products whose movements the transaction reads and adds to.
Touched(call) ==
  IF call.op = "confirm" THEN {p \in Products : Quantity[call.doc][p] > 0} ELSE {call.product}

\* Faulty variant: the guard of applyMovement is off by one.
OneTooMany(call) == \A p \in Touched(call) : onHand[p] + CallEffect(call)[p] >= -1

\* The guard of applyMovement, line after line.
Sufficient(call) == \A p \in Touched(call) : onHand[p] + CallEffect(call)[p] >= 0

Used(key) == key # None /\ keyed[key] > 0

\* Faulty variant: the key is not looked up (ERP-AUDIT-001).
BeginWithoutKey(r) ==
  LET call == request[r].call
  IN /\ request[r].pc = "begin" /\ call.op = "move"
     /\ IF Sufficient(call) THEN Goto(r, "commit") ELSE Answer(r, "refused")
     /\ UNCHANGED tables

\* Snapshot of createMovement.
BeginMovement(r) ==
  LET call == request[r].call
  IN /\ request[r].pc = "begin" /\ call.op = "move"
     /\ CASE Used(call.key) -> Answer(r, "existing")
          [] ~Used(call.key) /\ ~Sufficient(call) -> Answer(r, "refused")
          [] OTHER -> Goto(r, "commit")
     /\ UNCHANGED tables

\* Snapshot of confirm.
BeginConfirm(r) ==
  LET call == request[r].call
  IN /\ request[r].pc = "begin" /\ call.op = "confirm"
     /\ IF doc[call.doc].status # "DRAFT" \/ ~Sufficient(call)
        THEN Answer(r, "refused") ELSE Goto(r, "commit")
     /\ UNCHANGED tables

\* Two serializable transactions that read and write movements of one product, or one
\* document, cannot both commit: whoever is still open when the other commits fails.
Conflicting(call, other) ==
  \/ Touched(call) \cap Touched(other) # {}
  \/ call.op = "confirm" /\ other.op = "confirm" /\ call.doc = other.doc
  \/ call.op = "move" /\ other.op = "move" /\ call.key = other.key /\ call.key # None

Committed(r) ==
  request' = [q \in Requests |->
    CASE q = r -> [request[q] EXCEPT !.pc = "answer", !.reply = "done"]
      [] q # r /\ request[q].pc = "commit" /\ Conflicting(request[r].call, request[q].call) ->
           [request[q] EXCEPT !.doomed = TRUE]
      [] OTHER -> request[q]]

CommitMovement(r) ==
  LET call == request[r].call
  IN /\ request[r].pc = "commit" /\ call.op = "move" /\ ~request[r].doomed
     /\ onHand' = [p \in Products |-> onHand[p] + CallEffect(call)[p]]
     /\ keyed' = [k \in Keys |-> IF k = call.key THEN keyed[k] + 1 ELSE keyed[k]]
     /\ Committed(r)
     /\ UNCHANGED <<doc, posted, invoice, counter>>

\* Faulty variant: the document is not marked in the transaction that inserts its movements.
CommitUnmarked(r) ==
  LET call == request[r].call
  IN /\ request[r].pc = "commit" /\ call.op = "confirm" /\ ~request[r].doomed
     /\ onHand' = [p \in Products |-> onHand[p] + CallEffect(call)[p]]
     /\ posted' = [posted EXCEPT ![call.doc] = @ + 1]
     /\ Committed(r)
     /\ UNCHANGED <<doc, keyed, invoice, counter>>

CommitConfirm(r) ==
  LET call == request[r].call
  IN /\ request[r].pc = "commit" /\ call.op = "confirm" /\ ~request[r].doomed
     /\ onHand' = [p \in Products |-> onHand[p] + CallEffect(call)[p]]
     /\ posted' = [posted EXCEPT ![call.doc] = @ + 1]
     /\ doc' = [doc EXCEPT ![call.doc].status = "CONFIRMED"]
     /\ Committed(r)
     /\ UNCHANGED <<keyed, invoice, counter>>

\* Faulty variant: attempts are not counted.
RetryForEver(r) ==
  /\ request[r].pc = "commit"
  /\ request' = [request EXCEPT ![r] = [@ EXCEPT !.pc = "begin", !.doomed = FALSE]]
  /\ UNCHANGED tables

\* runWithSerializableRetry: P2034, which PostgreSQL also raises without a real
\* conflict; everything is read again, MaxAttempts times in all, then 409.
SerializationFails(r) ==
  /\ request[r].pc = "commit"
  /\ IF request[r].attempt < MaxAttempts
     THEN request' = [request EXCEPT ![r] =
            [@ EXCEPT !.pc = "begin", !.doomed = FALSE, !.attempt = request[r].attempt + 1]]
     ELSE Answer(r, "refused")
  /\ UNCHANGED tables

-----------------------------------------------------------------------------
(* SalesRepository.cancel and PurchasesRepository.cancel: the status is    *)
(* read, then written by id alone.                                         *)

ReadForCancel(r) ==
  LET d == request[r].call.doc
  IN /\ request[r].pc = "begin" /\ request[r].call.op = "cancel"
     /\ IF doc[d].status # "DRAFT" THEN Answer(r, "refused") ELSE Goto(r, "cancel")
     /\ UNCHANGED tables

\* A serializable transaction that is to write the same row fails.
Cancel(r) ==
  LET d == request[r].call.doc
  IN /\ request[r].pc = "cancel"
     /\ doc' = [doc EXCEPT ![d].status = "CANCELLED"]
     /\ request' = [q \in Requests |->
          CASE q = r -> [request[q] EXCEPT !.pc = "answer", !.reply = "done"]
            [] q # r /\ request[q].pc = "commit" /\ request[q].call.op = "confirm"
               /\ request[q].call.doc = d -> [request[q] EXCEPT !.doomed = TRUE]
            [] OTHER -> request[q]]
     /\ UNCHANGED <<onHand, posted, keyed, invoice, counter>>

-----------------------------------------------------------------------------
(* InvoicingRepository.                                                    *)

InvoiceByKey(key) ==
  {i \in Invoices : key # None /\ invoice[i].status # "NONE" /\ invoice[i].key = key}
InvoiceBySale(s) == {i \in Invoices : invoice[i].status # "NONE" /\ invoice[i].sale = s}

LookUpInvoice(r) ==
  /\ request[r].pc = "begin" /\ request[r].call.op = "invoice"
  /\ IF InvoiceByKey(request[r].call.key) # {} THEN Answer(r, "existing") ELSE Goto(r, "sale")
  /\ UNCHANGED tables

\* Faulty variant: the status of the sale is not checked.
ReadAnySale(r) ==
  /\ request[r].pc = "sale"
  /\ Goto(r, "invoiced")
  /\ UNCHANGED tables

ReadSale(r) ==
  /\ request[r].pc = "sale"
  /\ IF doc[request[r].call.sale].status # "CONFIRMED"
     THEN Answer(r, "refused") ELSE Goto(r, "invoiced")
  /\ UNCHANGED tables

CheckNotInvoiced(r) ==
  /\ request[r].pc = "invoiced"
  /\ IF InvoiceBySale(request[r].call.sale) # {}
     THEN Answer(r, "refused") ELSE Goto(r, "insert")
  /\ UNCHANGED tables

\* Faulty variant: the number is taken in a transaction of its own.
InsertInvoiceAfterNumber(r, i) ==
  LET call == request[r].call
  IN /\ request[r].pc = "insert" /\ call.op = "invoice" /\ invoice[i].status = "NONE"
     /\ counter' = counter + 1
     /\ IF InvoiceByKey(call.key) # {} \/ InvoiceBySale(call.sale) # {}
        THEN Goto(r, "recover") /\ UNCHANGED invoice
        ELSE /\ invoice' = [invoice EXCEPT ![i] = [status |-> "ISSUED", sale |-> call.sale,
                                                   number |-> counter', key |-> call.key]]
             /\ Answer(r, "done")
     /\ UNCHANGED <<doc, onHand, posted, keyed>>

\* The counter, whose row stays locked to the end of the transaction, and the row: two
\* unique indexes may refuse it, and everything is rolled back.
InsertInvoice(r, i) ==
  LET call == request[r].call
  IN /\ request[r].pc = "insert" /\ call.op = "invoice" /\ invoice[i].status = "NONE"
     /\ IF InvoiceByKey(call.key) # {} \/ InvoiceBySale(call.sale) # {}
        THEN Goto(r, "recover") /\ UNCHANGED <<invoice, counter>>
        ELSE /\ counter' = counter + 1
             /\ invoice' = [invoice EXCEPT ![i] = [status |-> "ISSUED", sale |-> call.sale,
                                                   number |-> counter', key |-> call.key]]
             /\ Answer(r, "done")
     /\ UNCHANGED <<doc, onHand, posted, keyed>>

\* P2028 and the like: the transaction times out, nothing is written.
InsertInvoiceFails(r) ==
  /\ request[r].pc = "insert" /\ request[r].call.op = "invoice"
  /\ Goto(r, "recover")
  /\ UNCHANGED tables

\* BIL-23: in a fresh transaction, look for the row that made the insertion fail.
Recover(r) ==
  /\ request[r].pc = "recover"
  /\ IF InvoiceByKey(request[r].call.key) # {}
     THEN Answer(r, "existing") ELSE Goto(r, "recover_sale")
  /\ UNCHANGED tables

RecoverBySale(r) ==
  /\ request[r].pc = "recover_sale"
  /\ Answer(r, IF InvoiceBySale(request[r].call.sale) # {} THEN "refused" ELSE "error")
  /\ UNCHANGED tables

\* markPaid and void: the status is read, then written by id alone.
ReadForStatus(r) ==
  LET i == request[r].call.invoice
  IN /\ request[r].pc = "begin" /\ request[r].call.op \in {"PAID", "VOID"}
     /\ IF invoice[i].status # "ISSUED" THEN Answer(r, "refused") ELSE Goto(r, "status")
     /\ UNCHANGED tables

SetStatus(r) ==
  LET call == request[r].call
  IN /\ request[r].pc = "status"
     /\ invoice' = [invoice EXCEPT ![call.invoice].status = call.op]
     /\ Answer(r, "done")
     /\ UNCHANGED <<doc, onHand, posted, keyed, counter>>

-----------------------------------------------------------------------------

Step(r) ==
  \/ LookUpDraft(r) \/ (\E d \in Documents : InsertDraft(r, d))
  \/ BeginMovement(r) \/ BeginConfirm(r) \/ CommitMovement(r) \/ CommitConfirm(r)
  \/ SerializationFails(r)
  \/ ReadForCancel(r) \/ Cancel(r)
  \/ LookUpInvoice(r) \/ ReadSale(r) \/ CheckNotInvoiced(r)
  \/ (\E i \in Invoices : InsertInvoice(r, i)) \/ InsertInvoiceFails(r)
  \/ Recover(r) \/ RecoverBySale(r)
  \/ ReadForStatus(r) \/ SetStatus(r)
  \/ Respond(r)

Next == \E r \in Requests : Step(r) \/ \E call \in Calls : Accept(r, call)

Spec == Init /\ [][Next]_vars

FairSpec == Spec /\ \A r \in Requests : WF_vars(Step(r))

-----------------------------------------------------------------------------
(* Safety.                                                                 *)

\* Whatever confirmations and movements race, no product is sold that is not there
\* (stock.repository.ts:127-141).
NeverOversold == \A p \in Products : onHand[p] >= 0

\* The movements of a document are inserted at most once; a draft has none, and a
\* confirmed document has them (sales.repository.ts:219-225).
PostedWithItsDocument ==
  \A d \in Documents :
    CASE doc[d].status \in {"NONE", "DRAFT"} -> posted[d] = 0
      [] doc[d].status = "CONFIRMED"         -> posted[d] = 1
      [] doc[d].status = "CANCELLED"         -> posted[d] \in {0, 1}

\* What is invoiced has left the stock, exactly once, even when a cancellation races
\* with the confirmation.
InvoicedSalesHaveLeft ==
  \A i \in Invoices : invoice[i].status # "NONE" => posted[invoice[i].sale] = 1

\* The invoices of the tenant are numbered 1, 2, ... without a gap, and a sale, like an
\* idempotency key, has at most one.
InvoicesAreRegular ==
  LET issued == {i \in Invoices : invoice[i].status # "NONE"}
  IN /\ {invoice[i].number : i \in issued} = 1..counter
     /\ \A i, j \in issued :
          \/ invoice[i].number = invoice[j].number
          \/ invoice[i].sale = invoice[j].sale
          \/ invoice[i].key = invoice[j].key /\ invoice[i].key # None
          => i = j

\* ADR 0019: however often a client sends a creation again, its key names one row.
OneDraftPerKey ==
  \A d, e \in Documents :
    /\ doc[d].status # "NONE" /\ doc[e].status # "NONE"
    /\ TableOf(d) = TableOf(e) /\ doc[d].key = doc[e].key /\ doc[d].key # None
    => d = e

\* A transaction that can still commit was right to pass its checks: nothing it read
\* has changed.
SnapshotsHold ==
  \A r \in Requests :
    request[r].pc = "commit" /\ ~request[r].doomed =>
      LET call == request[r].call
      IN /\ Sufficient(call)
         /\ call.op = "confirm" => doc[call.doc].status = "DRAFT"
         /\ call.op = "move" => ~Used(call.key)

-----------------------------------------------------------------------------
(* Refinement and liveness.                                                *)

Stock == INSTANCE Inventory WITH
  Deltas <- {Delta(call.type, call.quantity) : call \in {c \in Calls : c.op = "move"}},
  stock <- onHand,
  posted <- {d \in Documents : posted[d] > 0},
  used <- keyed

\* Retries, races and failed transactions notwithstanding, the stock only moves as
\* Inventory says.
ImplementsInventory == Stock!Spec

\* Under FairSpec every request is answered: retries end.
EveryRequestEnds ==
  \A r \in Requests : request[r].pc # "idle" ~> request[r].pc = "idle"

-----------------------------------------------------------------------------
(* What comments and messages of the code promise and interleavings break. *)

\* sales.repository.ts:269-271: only a draft can be cancelled.
ConfirmedIsNotCancelled ==
  [][\A d \in Documents : doc[d].status = "CONFIRMED" => doc'[d].status = "CONFIRMED"]_vars

\* invoicing.repository.ts:307-309 and 323-325: only an issued invoice is paid or voided.
PaidOrVoidIsFinal ==
  [][\A i \in Invoices : invoice[i].status \in {"PAID", "VOID"} =>
       invoice'[i].status = invoice[i].status]_vars

\* sales.repository.ts:146-150 and ADR 0019: who loses the race for a key gets the row
\* of the winner, never an error.
LoserGetsTheRow ==
  \A r \in Requests :
    request[r].pc = "answer" /\ request[r].call.op = "create" => request[r].reply # "error"

\* invoicing.repository.ts:118-122: a replay of the key is never told that the sale is
\* already invoiced.
ReplayIsNotRefused ==
  [][\A r \in Requests :
       request[r].pc = "invoiced" /\ request'[r].reply = "refused" =>
         InvoiceByKey(request[r].call.key) = {}]_vars
=============================================================================
