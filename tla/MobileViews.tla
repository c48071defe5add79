----------------------------- MODULE MobileViews -----------------------------
(***************************************************************************)
(* What the screens of the mobile application show: the stack of screens,  *)
(* the query cache behind them, the hooks of lib/queries that write        *)
(* through the offline queue and then refresh what they may have changed,  *)
(* and the sync engine that refreshes everything (apps/mobile/App.tsx,     *)
(* src/screens, src/lib/queries, src/lib/offline).                         *)
(*                                                                         *)
(* The cache has one entry per key: a query with its filter and its page.  *)
(* Data is seen by what it misses: the user's own writes that the server   *)
(* has applied since it was read.                                          *)
(***************************************************************************)
EXTENDS Naturals, Sequences, FiniteSets

CONSTANTS
  Roots,      \* the screens of Home that are visited
  Items,      \* rows of the list visited
  Followed,   \* the row whose detail is opened
  MaxWrites,  \* bound on the mutations queued
  MaxFaults,  \* bound on disconnections and failed fetches
  MaxGestures \* bound on what the user does, for each root

\* The buttons of Home.
HomeScreen ==
  {"ClientsList", "SuppliersList", "ProductsList", "StockLevels", "SalesList", "PurchasesList",
   "InvoicesList", "AccountsList", "Reports"}

ASSUME ViewsAssumption ==
  /\ Roots \subseteq HomeScreen
  /\ Followed \in Items /\ IsFiniteSet(Items)
  /\ {MaxWrites, MaxFaults} \subseteq Nat /\ MaxGestures \in [Roots -> Nat]

VARIABLES
  root,     \* the screen of Home a behaviour is about
  stack,    \* the screens, with their local state
  cache,    \* for each key observed so far, its data and its fetch
  open,     \* the rows that are active, in draft or issued
  writes,   \* mutations queued, each with the hook that waits for it
  batch,    \* what is left of the batch of the pass under way
  owner,    \* the write whose hook awaits that pass, or 0
  sync,     \* whether the sync engine awaits the pass
  isOnline, \* onlineManager.isOnline()
  faults,   \* disconnections and failed fetches so far
  gestures  \* gestures of the user so far

queue == <<writes, batch, owner>>
world == <<isOnline, faults, gestures>>
views == <<root, stack, cache, open, queue, sync, world>>

None == "none"

-----------------------------------------------------------------------------
(* The queries: the key they are invalidated by, and what the API reads to *)
(* answer them: in the singular, documents there are; in the plural, those *)
(* that are added.                                                         *)

UseCustomers == [key |-> "customers", reads |-> {"customer"}]
UseCustomer == [key |-> "customers", reads |-> {"customer"}]
UseSuppliers == [key |-> "suppliers", reads |-> {"supplier"}]
UseSupplier == [key |-> "suppliers", reads |-> {"supplier"}]
UseProducts == [key |-> "products", reads |-> {"product"}]
UseProduct == [key |-> "products", reads |-> {"product"}]
UseStockLevels == [key |-> "stock", reads |-> {"product", "movements"}]
UseStockMovements == [key |-> "stock-movements", reads |-> {"movements"}]
UseSales == [key |-> "sales", reads |-> {"sales", "sale", "customer"}]
UseSale == [key |-> "sale", reads |-> {"sale", "customer"}]
UsePurchases == [key |-> "purchases", reads |-> {"purchases", "purchase", "supplier"}]
UsePurchase == [key |-> "purchase", reads |-> {"purchase", "supplier"}]
UseInvoices == [key |-> "invoices", reads |-> {"invoices", "invoice", "customer"}]
UseInvoice == [key |-> "invoice", reads |-> {"invoice", "customer"}]
UseAccounts == [key |-> "accounting-accounts", reads |-> {"accounts", "entries"}]
UseTrialBalance == [key |-> "accounting-trial-balance", reads |-> {"accounts", "entries"}]
UseJournalEntries == [key |-> "journal-entries", reads |-> {"entries"}]
UseJournalEntry == [key |-> "journal-entry", reads |-> {"entry"}]
UseSalesReport == [key |-> "reports-sales", reads |-> {"sales", "sale"}]
UsePurchasesReport == [key |-> "reports-purchases", reads |-> {"purchases", "purchase"}]
UseIncomeStatement == [key |-> "reports-income-statement", reads |-> {"accounts", "entries"}]

Query ==
  [customers |-> UseCustomers, customer |-> UseCustomer, suppliers |-> UseSuppliers,
   supplier |-> UseSupplier, products |-> UseProducts, product |-> UseProduct,
   levels |-> UseStockLevels, movements |-> UseStockMovements, sales |-> UseSales,
   sale |-> UseSale, purchases |-> UsePurchases, purchase |-> UsePurchase,
   invoices |-> UseInvoices, invoice |-> UseInvoice, accounts |-> UseAccounts,
   balance |-> UseTrialBalance, entries |-> UseJournalEntries, entry |-> UseJournalEntry,
   salesReport |-> UseSalesReport, purchasesReport |-> UsePurchasesReport,
   income |-> UseIncomeStatement]

Queries == DOMAIN Query

-----------------------------------------------------------------------------
(* The hooks that write: what the API changes, the keys that are           *)
(* invalidated, one after the other, once the write has not failed.        *)

UseSaveCustomer == [changes |-> {"customer"}, refreshes |-> <<"customers">>]
UseDeactivateCustomer == [changes |-> {"customer"}, refreshes |-> <<"customers">>]
UseSaveSupplier == [changes |-> {"supplier"}, refreshes |-> <<"suppliers">>]
UseDeactivateSupplier == [changes |-> {"supplier"}, refreshes |-> <<"suppliers">>]
UseSaveProduct == [changes |-> {"product"}, refreshes |-> <<"products">>]
UseDeactivateProduct == [changes |-> {"product"}, refreshes |-> <<"products">>]
UseCreateStockMovement ==
  [changes |-> {"movements"}, refreshes |-> <<"stock", "stock-movements">>]
UseCreateSale == [changes |-> {"sales"}, refreshes |-> <<"sales">>]
UseConfirmSale ==
  [changes |-> {"sale", "movements"},
   refreshes |-> <<"sales", "sale", "stock", "stock-movements">>]
UseCancelSale == [changes |-> {"sale"}, refreshes |-> <<"sales", "sale">>]
UseCreatePurchase == [changes |-> {"purchases"}, refreshes |-> <<"purchases">>]
UseConfirmPurchase ==
  [changes |-> {"purchase", "movements"},
   refreshes |-> <<"purchases", "purchase", "stock", "stock-movements">>]
UseCancelPurchase == [changes |-> {"purchase"}, refreshes |-> <<"purchases", "purchase">>]
UseCreateInvoice == [changes |-> {"invoices"}, refreshes |-> <<"invoices">>]
UseMarkInvoicePaid == [changes |-> {"invoice"}, refreshes |-> <<"invoices", "invoice">>]
UseVoidInvoice == [changes |-> {"invoice"}, refreshes |-> <<"invoices", "invoice">>]
UseCreateAccount ==
  [changes |-> {"accounts"}, refreshes |-> <<"accounting-accounts", "accounting-trial-balance">>]
UseCreateJournalEntry ==
  [changes |-> {"entries"},
   refreshes |-> <<"journal-entries", "accounting-accounts", "accounting-trial-balance">>]

Hook ==
  [saveCustomer |-> UseSaveCustomer, deactivateCustomer |-> UseDeactivateCustomer,
   saveSupplier |-> UseSaveSupplier, deactivateSupplier |-> UseDeactivateSupplier,
   saveProduct |-> UseSaveProduct, deactivateProduct |-> UseDeactivateProduct,
   createMovement |-> UseCreateStockMovement, createSale |-> UseCreateSale,
   confirmSale |-> UseConfirmSale, cancelSale |-> UseCancelSale,
   createPurchase |-> UseCreatePurchase, confirmPurchase |-> UseConfirmPurchase,
   cancelPurchase |-> UseCancelPurchase, createInvoice |-> UseCreateInvoice,
   markPaid |-> UseMarkInvoicePaid, voidInvoice |-> UseVoidInvoice,
   createAccount |-> UseCreateAccount, createEntry |-> UseCreateJournalEntry]

-----------------------------------------------------------------------------
(* The screens: what they show, open and do.  A list starts on a filter    *)
(* and has others when its rows may be settled: archived, or no longer in  *)
(* draft or issued; of three filters the model has the first and another.  *)
(* A form shows the fiche it edits: the lists of its pickers are left to   *)
(* MobileForms.                                                            *)

Statuses == {"open", "settled", "all"}

ClientsList ==
  [kind |-> "list", shows |-> {"customers"}, opens |-> {"ClientForm"},
   does |-> {"deactivateCustomer"}, filters |-> {"open", "settled"}, first |-> "open"]
SuppliersList ==
  [kind |-> "list", shows |-> {"suppliers"}, opens |-> {"SupplierForm"},
   does |-> {"deactivateSupplier"}, filters |-> {"open", "settled"}, first |-> "open"]
ProductsList ==
  [kind |-> "list", shows |-> {"products"}, opens |-> {"ProductForm"},
   does |-> {"deactivateProduct"}, filters |-> {"open", "settled"}, first |-> "open"]
StockLevels ==
  [kind |-> "list", shows |-> {"levels"}, does |-> {}, filters |-> {"all"}, first |-> "all",
   opens |-> {"StockMovementForm", "StockMovementHistory"}]
StockMovementHistory ==
  [kind |-> "list", shows |-> {"movements"}, does |-> {}, filters |-> {"all"}, first |-> "all",
   opens |-> {"StockMovementForm"}]
SalesList ==
  [kind |-> "list", shows |-> {"sales"}, does |-> {}, filters |-> {"all", "open"},
   first |-> "all", opens |-> {"SaleForm", "SaleDetail"}]
PurchasesList ==
  [kind |-> "list", shows |-> {"purchases"}, does |-> {}, filters |-> {"all", "open"},
   first |-> "all", opens |-> {"PurchaseForm", "PurchaseDetail"}]
InvoicesList ==
  [kind |-> "list", shows |-> {"invoices"}, does |-> {}, filters |-> {"all", "open"},
   first |-> "all", opens |-> {"InvoiceForm", "InvoiceDetail"}]
AccountsList ==
  [kind |-> "list", shows |-> {"accounts"}, does |-> {}, filters |-> {"all"}, first |-> "all",
   opens |-> {"AccountForm", "JournalEntriesList", "TrialBalance"}]
JournalEntriesList ==
  [kind |-> "list", shows |-> {"entries"}, does |-> {}, filters |-> {"all"}, first |-> "all",
   opens |-> {"JournalEntryForm", "JournalEntryDetail"}]

Leaf(kind, shows, does) ==
  [kind |-> kind, shows |-> shows, opens |-> {}, does |-> does, filters |-> {"all"},
   first |-> "all"]

SaleDetail == Leaf("detail", {"sale"}, {"confirmSale", "cancelSale"})
PurchaseDetail == Leaf("detail", {"purchase"}, {"confirmPurchase", "cancelPurchase"})
InvoiceDetail == Leaf("detail", {"invoice"}, {"markPaid", "voidInvoice"})
JournalEntryDetail == Leaf("detail", {"entry"}, {})
TrialBalance == Leaf("report", {"balance"}, {})
Reports == Leaf("report", {"salesReport", "purchasesReport", "income"}, {})

FormScreen(shows, does) == Leaf("form", shows, {does})

\* AppStack, with what each screen navigates to.
Screen ==
  [Home |-> [Leaf("menu", {}, {}) EXCEPT !.opens = Roots],
   ClientsList |-> ClientsList, SuppliersList |-> SuppliersList, ProductsList |-> ProductsList,
   StockLevels |-> StockLevels, StockMovementHistory |-> StockMovementHistory,
   SalesList |-> SalesList, PurchasesList |-> PurchasesList, InvoicesList |-> InvoicesList,
   AccountsList |-> AccountsList, JournalEntriesList |-> JournalEntriesList,
   SaleDetail |-> SaleDetail, PurchaseDetail |-> PurchaseDetail, InvoiceDetail |-> InvoiceDetail,
   JournalEntryDetail |-> JournalEntryDetail, TrialBalance |-> TrialBalance, Reports |-> Reports,
   ClientForm |-> FormScreen({"customer"}, "saveCustomer"),
   SupplierForm |-> FormScreen({"supplier"}, "saveSupplier"),
   ProductForm |-> FormScreen({"product"}, "saveProduct"),
   StockMovementForm |-> FormScreen({}, "createMovement"),
   SaleForm |-> FormScreen({}, "createSale"),
   PurchaseForm |-> FormScreen({}, "createPurchase"),
   InvoiceForm |-> FormScreen({}, "createInvoice"),
   AccountForm |-> FormScreen({}, "createAccount"),
   JournalEntryForm |-> FormScreen({}, "createEntry")]

-----------------------------------------------------------------------------
(* Screens.                                                                *)

Top == stack[Len(stack)]
On(kind) == Screen[Top.screen].kind = kind

Mount(s) ==
  [screen |-> s, page |-> 1, filter |-> Screen[s].first, last |-> {}, asking |-> {}, waits |-> 0,
   applied |-> FALSE]

\* The keys a screen observes, and those of all screens: those below the top stay mounted.
Keys(e) == {[query |-> q, filter |-> e.filter, page |-> e.page] : q \in Screen[e.screen].shows}
Mounted == UNION {Keys(stack[i]) : i \in DOMAIN stack}

\* A gesture of the user.
Gesture ==
  /\ gestures < MaxGestures[root]
  /\ gestures' = gestures + 1
  /\ UNCHANGED <<root, sync, isOnline, faults>>

Local(f) == stack' = [stack EXCEPT ![Len(stack)] = f]

\* The rows of the list visited that a filter keeps.
Matching(filter) ==
  CASE filter = "open" -> open
    [] filter = "settled" -> Items \ open
    [] filter = "all" -> Items

\* A page has one row, so that Items make pages of them.
Pages(total) == IF total = 0 THEN 1 ELSE total

\* What a query has read: how many rows the filter keeps, those among them that are open, whether
\* it misses a write that a hook, or the sync engine, has seen through, and whether it missed one
\* already when its key was invalidated.
Nothing == [total |-> 0, active |-> {}, misses |-> FALSE, late |-> FALSE]

NoData == [has |-> FALSE, data |-> Nothing, failed |-> FALSE, fetch |-> None, read |-> Nothing]

\* A fetch starts, or waits for the network; an error is forgotten unless there is data.
Fetching(c, online) ==
  [c EXCEPT !.fetch = IF online THEN "asked" ELSE "paused", !.failed = @ /\ c.has,
            !.read = Nothing]

\* A screen observes keys: what is not being fetched is, whatever the cache has; a fetch under
\* way is joined.
Observed(ks) ==
  [k \in DOMAIN cache \cup ks |->
     IF k \notin DOMAIN cache THEN Fetching(NoData, isOnline)
     ELSE IF k \in ks /\ cache[k].fetch = None THEN Fetching(cache[k], isOnline) ELSE cache[k]]

\* Faulty variant: what is being fetched is not fetched again.
InvalidatedUnlessFetching(c, ks, online) ==
  [k \in DOMAIN c |-> IF k \in ks \cap Mounted /\ c[k].fetch = None
                      THEN Fetching(c[k], online) ELSE c[k]]

\* invalidateQueries: what is mounted is fetched, a fetch under way being cancelled if the key has
\* data.  A first load is joined, and the fetch of a key that is not mounted goes on.
Invalidated(c, ks, online) ==
  [k \in DOMAIN c |->
     IF k \notin ks THEN c[k]
     ELSE IF k \in Mounted /\ (c[k].has \/ c[k].fetch = None) THEN Fetching(c[k], online)
     ELSE [c[k] EXCEPT !.read.late = c[k].read.misses]]

ViewsInit ==
  /\ root \in Roots
  /\ stack = <<Mount("Home")>>
  /\ cache = [k \in {} |-> NoData]
  /\ open = Items
  /\ writes = <<>> /\ batch = {} /\ owner = 0
  /\ sync = FALSE
  /\ isOnline = TRUE /\ faults = 0 /\ gestures = 0

\* navigation.navigate.
Navigate(s) ==
  /\ Gesture
  /\ s \in Screen[Top.screen].opens
  /\ On("menu") => s = root
  /\ stack' = Append(stack, Mount(s))
  /\ cache' = Observed(Keys(Mount(s)))
  /\ UNCHANGED <<open, queue>>

\* What is on its way to a screen that is left goes on.
Back ==
  /\ Gesture
  /\ Len(stack) > 1
  /\ stack' = SubSeq(stack, 1, Len(stack) - 1)
  /\ UNCHANGED <<cache, open, queue>>

Listed(e) == CHOOSE k \in Keys(e) : TRUE

\* The key whose rows a list shows: its own, or, until it is read or in error, the last one it
\* had rows of (placeholderData, which the movements of a product do without).
Shown(e) ==
  IF cache[Listed(e)].has THEN {Listed(e)}
  ELSE IF cache[Listed(e)].failed \/ Listed(e).query = "movements" THEN {} ELSE e.last

\* The key of the list changes.
Rekey(filter, page) ==
  LET last == IF cache[Listed(Top)].has THEN {Listed(Top)} ELSE Top.last
      entry == [Top EXCEPT !.filter = filter, !.page = page, !.last = last]
  IN  /\ Gesture
      /\ Local(entry)
      /\ cache' = Observed(Keys(entry))
      /\ UNCHANGED <<open, queue>>

Filter(f) ==
  /\ On("list") /\ f \in Screen[Top.screen].filters \ {Top.filter}
  /\ Rekey(f, 1)

\* Faulty variant: the next page is not bounded.
TurnPast(page) ==
  /\ On("list")
  /\ \E k \in Shown(Top) : k.page <= cache[k].data.total
  /\ page \in {Top.page - 1, Top.page + 1}
  /\ Rekey(Top.filter, page)

\* The pages are under the list when it has rows, and bounded by the total it shows.
Turn(page) ==
  /\ On("list")
  /\ \E k \in Shown(Top) : k.page <= cache[k].data.total /\ page \in 1 .. Pages(cache[k].data.total)
  /\ page \in {Top.page - 1, Top.page + 1}
  /\ Rekey(Top.filter, page)

-----------------------------------------------------------------------------
(* Writes.                                                                 *)

Queue(op, rows) ==
  writes' = Append(writes, [op |-> op, rows |-> rows, state |-> "pending", left |-> <<>>,
                            awaits |-> {}, step |-> IF isOnline THEN "queued" ELSE "ending"])

\* A form is sent (handleSubmit).
Save ==
  /\ Gesture
  /\ On("form") /\ Top.waits = 0 /\ Len(writes) < MaxWrites
  /\ \E op \in Screen[Top.screen].does : Queue(op, {})
  /\ Local([Top EXCEPT !.waits = Len(writes) + 1])
  /\ UNCHANGED <<cache, open, batch, owner>>

IsFetching(k) == cache[k].fetch \in {"asked", "read"}

\* A detail offers its actions while the document it shows is in draft, or issued.
ShowsOpen(k) == cache[k].has /\ ~cache[k].failed /\ Followed \in cache[k].data.active

\* Faulty variant: the refetch after the action is not waited for.
ActWhileFetching(op) ==
  /\ Gesture
  /\ On("detail") /\ op \in Screen[Top.screen].does /\ Len(writes) < MaxWrites
  /\ \A k \in Keys(Top) : ShowsOpen(k)
  /\ Queue(op, {Followed})
  /\ Local([Top EXCEPT !.waits = Len(writes) + 1])
  /\ UNCHANGED <<cache, open, batch, owner>>

\* runAction.
Act(op) ==
  /\ Gesture
  /\ On("detail") /\ op \in Screen[Top.screen].does /\ Len(writes) < MaxWrites
  /\ Top.waits = 0
  /\ \A k \in Keys(Top) : ShowsOpen(k) /\ ~IsFetching(k)
  /\ Queue(op, {Followed})
  /\ Local([Top EXCEPT !.waits = Len(writes) + 1])
  /\ UNCHANGED <<cache, open, batch, owner>>

\* A row of a list is asked for, then deactivated or not; the button may be pressed again.
Ask(i) ==
  /\ Gesture
  /\ On("list") /\ Screen[Top.screen].does # {} /\ Top.asking # {i}
  /\ \E k \in Shown(Top) : i \in cache[k].data.active
  /\ Local([Top EXCEPT !.asking = {i}])
  /\ UNCHANGED <<cache, open, queue>>

Renounce ==
  /\ Gesture
  /\ On("list") /\ Top.asking # {}
  /\ Local([Top EXCEPT !.asking = {}])
  /\ UNCHANGED <<cache, open, queue>>

Deactivate(op) ==
  /\ Gesture
  /\ On("list") /\ op \in Screen[Top.screen].does /\ Len(writes) < MaxWrites
  /\ \E i \in Top.asking : Queue(op, {i})
  /\ Local([Top EXCEPT !.waits = Len(writes) + 1])
  /\ UNCHANGED <<cache, open, batch, owner>>

\* What is left of a write that is settled and that no hook waits for any more.
Gone(write) ==
  IF write.step = "ended" /\ write.state # "pending"
  THEN [write EXCEPT !.op = None, !.rows = {}, !.state = None] ELSE write

PendingMutations == {w \in DOMAIN writes : writes[w].state = "pending"}

\* processQueue, called by a hook: a pass, unless one is under way.
ProcessQueue(w) ==
  /\ writes[w].step = "queued"
  /\ IF batch = {} /\ PendingMutations # {}
     THEN /\ batch' = PendingMutations /\ owner' = w
          /\ writes' = [writes EXCEPT ![w].step = "passing"]
     ELSE writes' = [writes EXCEPT ![w].step = "asserting"] /\ UNCHANGED <<batch, owner>>
  /\ UNCHANGED <<root, stack, cache, open, sync, world>>

\* A backoff timer's pass, which nobody awaits.
TimerFires ==
  /\ batch = {} /\ PendingMutations # {}
  /\ batch' = PendingMutations
  /\ UNCHANGED <<root, stack, cache, open, writes, owner, sync, world>>

\* Data read before a write that is seen through misses it.
Missing(op) ==
  [k \in DOMAIN cache |->
     IF Query[k.query].reads \cap Hook[op].changes = {} THEN cache[k]
     ELSE [cache[k] EXCEPT !.data.misses = cache[k].has,
                           !.read.misses = cache[k].fetch = "read"]]

\* The oldest write of the pass is answered: "applied" and known to be, "lost" when the answer
\* is, "failed" when it is refused, "kept" when nothing came of it; without an answer the pass
\* stops there.  A row that is deactivated is deactivated again, other rows are refused.
ProcessOne(answer) ==
  /\ batch # {}
  /\ answer # "kept" => isOnline
  /\ LET w == CHOOSE w \in batch : \A p \in batch : w <= p
         missed == IF answer = "applied" /\ (owner = w \/ sync) THEN Missing(writes[w].op)
                   ELSE cache
     IN  /\ \/ writes[w].rows \subseteq open \/ answer \in {"failed", "kept"}
           \/ writes[w].op \in {"deactivateCustomer", "deactivateSupplier", "deactivateProduct"}
         /\ batch' = IF answer \in {"applied", "failed"} THEN batch \ {w} ELSE {}
         /\ owner' = IF batch' = {} THEN 0 ELSE owner
         /\ writes' = [p \in DOMAIN writes |->
              Gone([writes[p] EXCEPT
                      !.state = IF p = w /\ answer \in {"applied", "failed"} THEN answer ELSE @,
                      !.step = IF @ = "passing" /\ batch' = {} THEN "asserting" ELSE @])]
         /\ sync' = (sync /\ batch' # {})
         /\ open' = IF answer \in {"applied", "lost"} THEN open \ writes[w].rows ELSE open
         /\ cache' = IF sync /\ batch' = {} THEN Invalidated(missed, DOMAIN cache, isOnline)
                   ELSE missed
         /\ stack' = IF answer = "applied" /\ owner = w
                     THEN [i \in DOMAIN stack |->
                             [stack[i] EXCEPT !.applied = @ \/ stack[i].waits = w]]
                     ELSE stack
  /\ UNCHANGED <<root, world>>

KeyedBy(key) == {k \in DOMAIN cache : Query[k.query].key = key}

\* The hook invalidates its next key and awaits the fetches of what is mounted under it, but those
\* that are paused for lack of network.
Refresh(w, left) ==
  /\ cache' = IF left = <<>> THEN cache ELSE Invalidated(cache, KeyedBy(Head(left)), isOnline)
  /\ writes' = [writes EXCEPT
       ![w].left = left, ![w].step = IF left = <<>> THEN "ending" ELSE "refetching",
       ![w].awaits = IF left = <<>> THEN {}
                     ELSE {k \in KeyedBy(Head(left)) \cap Mounted : cache'[k].fetch # "paused"}]
  /\ UNCHANGED <<root, stack, open, batch, owner, sync, world>>

\* assertMutationSucceeded.
AssertSucceeded(w) ==
  /\ writes[w].step = "asserting"
  /\ IF writes[w].state = "failed"
     THEN /\ writes' = [writes EXCEPT ![w].step = "refused"]
          /\ UNCHANGED <<root, stack, cache, open, batch, owner, sync, world>>
     ELSE Refresh(w, Hook[writes[w].op].refreshes)

Refreshed(w) ==
  /\ writes[w].step = "refetching"
  /\ writes[w].awaits = {}
  /\ Refresh(w, Tail(writes[w].left))

Sends(op) == \E s \in DOMAIN Screen : Screen[s].kind = "form" /\ op \in Screen[s].does

\* The hook is back in its screen: unless it was refused, a form goes back, to close whatever
\* screen is on top by then, and a list asks for nothing any more; a detail offers its actions
\* again.
Finish(w) ==
  /\ writes[w].step \in {"ending", "refused"}
  /\ LET refused == writes[w].step = "refused"
         Returned(e) == IF e.waits # w THEN e
                        ELSE [e EXCEPT !.waits = 0, !.asking = IF refused THEN @ ELSE {}]
     IN  stack' = IF Sends(writes[w].op) /\ ~refused /\ Len(stack) > 1
                  THEN SubSeq(stack, 1, Len(stack) - 1)
                  ELSE [i \in DOMAIN stack |-> Returned(stack[i])]
  /\ writes' = [writes EXCEPT ![w] = Gone([@ EXCEPT !.step = "ended"])]
  /\ UNCHANGED <<root, cache, open, batch, owner, sync, world>>

-----------------------------------------------------------------------------
(* The network, the sync engine, and the answers of the API to reads.      *)

Disconnect ==
  /\ isOnline /\ faults < MaxFaults
  /\ isOnline' = FALSE
  /\ faults' = faults + 1
  /\ UNCHANGED <<root, stack, cache, open, queue, sync, gestures>>

\* What is paused resumes, what is mounted and idle is read again, and useSyncEngine runs: once its
\* pass is over, or at once when it has none to make, everything is invalidated.
Reconnect ==
  /\ ~isOnline
  /\ isOnline' = TRUE
  /\ LET resumed == [k \in DOMAIN cache |->
           IF cache[k].fetch = "paused" \/ (k \in Mounted /\ cache[k].fetch = None)
           THEN Fetching(cache[k], TRUE) ELSE cache[k]]
     IN  IF batch = {} /\ PendingMutations # {}
         THEN batch' = PendingMutations /\ sync' = TRUE /\ cache' = resumed
         ELSE cache' = Invalidated(resumed, DOMAIN cache, TRUE) /\ UNCHANGED <<batch, sync>>
  /\ UNCHANGED <<root, stack, open, writes, owner, faults, gestures>>

Reads(k) ==
  [Nothing EXCEPT !.total = Cardinality(Matching(k.filter)),
                  !.active = Matching(k.filter) \cap open]

Answer(k) ==
  /\ isOnline /\ cache[k].fetch = "asked"
  /\ cache' = [cache EXCEPT ![k].fetch = "read", ![k].read = Reads(k)]
  /\ UNCHANGED <<root, stack, open, queue, sync, world>>

\* A fetch is over, and nothing awaits it any more.
Settles(k, entry) ==
  /\ cache' = [cache EXCEPT ![k] = entry]
  /\ writes' = [w \in DOMAIN writes |-> [writes[w] EXCEPT !.awaits = @ \ {k}]]
  /\ UNCHANGED <<root, stack, open, batch, owner, sync, isOnline, gestures>>

Receive(k) ==
  /\ cache[k].fetch = "read"
  /\ Settles(k, [NoData EXCEPT !.has = TRUE, !.data = cache[k].read])
  /\ UNCHANGED faults

\* After its retries a fetch is an error, which the screen says; the data stays.
FailToFetch(k) ==
  /\ IsFetching(k) /\ faults < MaxFaults
  /\ faults' = faults + 1
  /\ Settles(k, [cache[k] EXCEPT !.fetch = None, !.failed = TRUE, !.read = Nothing])

-----------------------------------------------------------------------------
ViewsNext ==
  \/ \E s \in DOMAIN Screen : Navigate(s)
  \/ Back
  \/ \E f \in Statuses : Filter(f)
  \/ \E page \in 1 .. Cardinality(Items) + 1 : Turn(page)
  \/ Save
  \/ \E op \in DOMAIN Hook : Act(op) \/ Deactivate(op)
  \/ \E i \in Items : Ask(i)
  \/ Renounce
  \/ \E w \in DOMAIN writes : ProcessQueue(w) \/ AssertSucceeded(w) \/ Refreshed(w) \/ Finish(w)
  \/ TimerFires
  \/ \E answer \in {"applied", "lost", "failed", "kept"} : ProcessOne(answer)
  \/ Disconnect \/ Reconnect
  \/ \E k \in DOMAIN cache : Answer(k) \/ Receive(k) \/ FailToFetch(k)

ViewsSpec == ViewsInit /\ [][ViewsNext]_views

-----------------------------------------------------------------------------
(* Properties.                                                             *)

AtRest ==
  /\ isOnline /\ batch = {} /\ ~sync
  /\ \A w \in DOMAIN writes : writes[w].step = "ended"
  /\ \A k \in DOMAIN cache : cache[k].fetch = None

\* Once hooks, passes and fetches have come to rest, a screen of the stack that shows data without
\* a write of this user that a hook, or the sync engine, has seen through, says that it could not
\* be read again, or shows an answer that the server had given before the hook invalidated its
\* key, where react-query cancels nothing: on the first load of a key, or while no screen observed
\* it.  The keys each of the 18 hooks invalidates cover what its write changes on every screen it
\* may be made from (the invalidateQueries of lib/queries, sync-engine.ts:24-31).
OwnWritesAreShown ==
  AtRest => \A k \in Mounted : cache[k].data.misses => cache[k].failed \/ cache[k].data.late

\* A detail whose action has been applied offers no action again, before or after its document is
\* read again, but while that read waits for the network: the hook does not (use-sales.ts:128-135,
\* SaleDetailScreen.tsx:102-107).
ActionsAreNotRepeated ==
  [][\A w \in DOMAIN writes' \ DOMAIN writes :
       On("detail") /\ Top.applied => \E k \in Keys(Top) : cache[k].fetch = "paused"]_views

\* A list is on a page of the total it shows, or has another filter to leave by.  A list whose
\* rows may leave it, or that is turned while it still shows the rows of the filter before, may
\* find itself past its last page, where the buttons of the pages are gone
\* (ClientsListScreen.tsx:149-172); a filter starts again at page 1.
NobodyIsStranded ==
  On("list") /\ cache[Listed(Top)].has /\ cache[Listed(Top)].fetch = None =>
    \/ Top.page <= Pages(cache[Listed(Top)].data.total)
    \/ Screen[Top.screen].filters # {Top.filter}

\* Data that has been read misses no more than what was written since, and hooks, passes and
\* screens refer to writes that exist.
ViewsOK ==
  /\ root \in Roots /\ open \subseteq Items
  /\ stack # <<>> /\ stack[1].screen = "Home"
  /\ \A i \in DOMAIN stack :
       /\ stack[i].waits \in 0 .. Len(writes) /\ stack[i].asking \subseteq Items
       /\ stack[i].filter \in Screen[stack[i].screen].filters
       /\ i > 1 => stack[i].screen \in Screen[stack[i - 1].screen].opens
  /\ Mounted \subseteq DOMAIN cache
  /\ \A i \in DOMAIN stack : stack[i].last \subseteq DOMAIN cache
  /\ \A k \in DOMAIN cache :
       /\ k.query \in Queries /\ k.filter \in Statuses /\ k.page \in Nat \ {0}
       /\ cache[k].fetch \in {None, "paused", "asked", "read"}
       /\ cache[k].data.active \cup cache[k].read.active \subseteq Items
       /\ ~cache[k].has => cache[k].data = Nothing
       /\ cache[k].fetch # "read" => cache[k].read = Nothing
  /\ batch \subseteq PendingMutations /\ (batch = {} => owner = 0 /\ ~sync)
  /\ \A w \in DOMAIN writes :
       writes[w].step \in {"queued", "passing", "asserting", "refetching", "ending",
                           "refused", "ended"}
       /\ \A k \in writes[w].awaits : k \in DOMAIN cache /\ cache[k].fetch # None

-----------------------------------------------------------------------------
(* What users may expect of the screens and the code does not give.        *)

\* At rest no screen shows data without a write of its user.
NothingIsMissed == AtRest => \A k \in Mounted : cache[k].data.misses => cache[k].failed

\* A detail whose action has been applied offers no action again.
AppliedActionsAreGone ==
  [][\A w \in DOMAIN writes' \ DOMAIN writes : On("detail") => ~Top.applied]_views

\* A screen that is not a form is closed by its user alone.
OnlyUsersGoBack == [][Len(stack') < Len(stack) /\ ~On("form") => gestures' # gestures]_views
=============================================================================
