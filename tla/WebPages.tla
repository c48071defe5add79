------------------------------- MODULE WebPages -------------------------------
(***************************************************************************)
(* One tab of the web application: the pages of an enterprise, their forms *)
(* and buttons, the query cache behind them, the session and its menu      *)
(* (apps/web/src), before the routes and guards of the API (Access).       *)
(* Unlike the mobile screens, writes go straight to the API, wait in the   *)
(* tab while it is offline, and are never retried.                         *)
(*                                                                         *)
(* The cache has one entry per key: a query with its filter, its row or    *)
(* the picker it fills.  Data is seen by what it misses: the writes of     *)
(* this tab that the API has applied since it was read.                    *)
(***************************************************************************)
EXTENDS Access, Naturals, Sequences, FiniteSets

CONSTANTS
  Starts,     \* how a behaviour starts: a role, a page, the features of the plan and whether it is
              \* restricted, the pages that are visited and the roles that sign in after
  Items,      \* rows of the lists
  MaxWrites,  \* bound on the writes of the tab
  MaxFaults,  \* bound on disconnections, lost answers and failed fetches
  MaxGestures \* bound on what the user does, for each start

ASSUME PagesAssumption == {MaxWrites, MaxFaults} \subseteq Nat /\ MaxGestures \in [Starts -> Nat]

VARIABLES
  start,    \* how the behaviour started
  session,  \* the role signed in, or None
  page,     \* the page shown
  tab,      \* its local state
  cache,    \* for each key observed so far, its data and its fetch
  open,     \* the rows that are active, in draft or issued
  content,  \* the row whose values each row holds
  writes,   \* the writes of the tab
  online,   \* onlineManager.isOnline()
  faults,   \* disconnections, lost answers and failed fetches so far
  gestures  \* gestures of the user so far

rows == <<open, content>>
world == <<start, online, faults, gestures>>
vars == <<session, page, tab, cache, rows, writes, world>>

None == "none"

-----------------------------------------------------------------------------
(* The queries: the route they read, the key they are invalidated by and   *)
(* what the API reads to answer them.                                      *)

UseCustomers == [route |-> "listCustomers", key |-> "customers", reads |-> {"customers"}]
UseSuppliers == [route |-> "listSuppliers", key |-> "suppliers", reads |-> {"suppliers"}]
UseProducts == [route |-> "listProducts", key |-> "products", reads |-> {"products"}]
UseSales == [route |-> "listSales", key |-> "sales", reads |-> {"sales", "customers"}]
UseSale == [route |-> "getSale", key |-> "sale", reads |-> {"customers"}]
UsePurchases == [route |-> "listPurchases", key |-> "purchases",
                 reads |-> {"purchases", "suppliers"}]
UsePurchase == [route |-> "getPurchase", key |-> "purchase", reads |-> {"suppliers"}]
UseInvoices == [route |-> "listInvoices", key |-> "invoices", reads |-> {"invoices", "customers"}]
UseInvoice == [route |-> "getInvoice", key |-> "invoice", reads |-> {"customers"}]
UseStock == [route |-> "listStock", key |-> "stock", reads |-> {"movements", "products"}]
UseStockMovements == [route |-> "listMovements", key |-> "stock-movements",
                      reads |-> {"movements"}]
UseAccounts == [route |-> "listAccounts", key |-> "accounting-accounts",
                reads |-> {"accounts", "entries"}]
UseTrialBalance == [route |-> "trialBalance", key |-> "accounting-trial-balance",
                    reads |-> {"accounts", "entries"}]
UseJournalEntries == [route |-> "listEntries", key |-> "journal-entries", reads |-> {"entries"}]
UseSalesReport == [route |-> "salesReport", key |-> "reports-sales", reads |-> {"sales"}]
UsePurchasesReport == [route |-> "purchasesReport", key |-> "reports-purchases",
                       reads |-> {"purchases"}]
UseIncomeStatement == [route |-> "incomeStatement", key |-> "reports-income-statement",
                       reads |-> {"entries"}]
UseEnterpriseUsers == [route |-> "listUsers", key |-> "users", reads |-> {"users"}]
UseRoles == [route |-> "listRoles", key |-> "roles", reads |-> {}]
\* Its key, ["users", "me", "context"], starts with that of the users.
UseMyContext == [route |-> "myContext", key |-> "users", reads |-> {}]

Query ==
  [customers |-> UseCustomers, suppliers |-> UseSuppliers, products |-> UseProducts,
   sales |-> UseSales, sale |-> UseSale, purchases |-> UsePurchases, purchase |-> UsePurchase,
   invoices |-> UseInvoices, invoice |-> UseInvoice, stock |-> UseStock,
   movements |-> UseStockMovements, accounts |-> UseAccounts, balance |-> UseTrialBalance,
   entries |-> UseJournalEntries, salesReport |-> UseSalesReport,
   purchasesReport |-> UsePurchasesReport, income |-> UseIncomeStatement,
   users |-> UseEnterpriseUsers, roles |-> UseRoles, context |-> UseMyContext]

Queries == DOMAIN Query

-----------------------------------------------------------------------------
(* The forms: the route they call to create and, in a catalogue, to edit;  *)
(* the queries of their pickers; what the API changes, and the keys that   *)
(* are invalidated when it has.                                            *)

CustomerForm == [creates |-> "createCustomer", edits |-> "updateCustomer", picks |-> {},
                 changes |-> {"customers"}, refreshes |-> {"customers"}]
SupplierForm == [creates |-> "createSupplier", edits |-> "updateSupplier", picks |-> {},
                 changes |-> {"suppliers"}, refreshes |-> {"suppliers"}]
ProductForm == [creates |-> "createProduct", edits |-> "updateProduct", picks |-> {},
                changes |-> {"products"}, refreshes |-> {"products"}]
SaleForm == [creates |-> "createSale", edits |-> None, picks |-> {"customers", "products"},
             changes |-> {"sales"}, refreshes |-> {"sales"}]
PurchaseForm == [creates |-> "createPurchase", edits |-> None, picks |-> {"suppliers", "products"},
                 changes |-> {"purchases"}, refreshes |-> {"purchases"}]
InvoiceForm == [creates |-> "createInvoice", edits |-> None, picks |-> {"sales"},
                changes |-> {"invoices"}, refreshes |-> {"invoices"}]
StockMovementForm == [creates |-> "createMovement", edits |-> None, picks |-> {"stock"},
                      changes |-> {"movements"}, refreshes |-> {"stock", "stock-movements"}]
AccountForm == [creates |-> "createAccount", edits |-> None, picks |-> {},
                changes |-> {"accounts"},
                refreshes |-> {"accounting-accounts", "accounting-trial-balance"}]
\* Faulty variant: the balance is forgotten.
EntryWithoutBalance ==
  [creates |-> "createEntry", edits |-> None, picks |-> {"accounts"}, changes |-> {"entries"},
   refreshes |-> {"journal-entries", "accounting-accounts"}]
JournalEntryForm ==
  [creates |-> "createEntry", edits |-> None, picks |-> {"accounts"}, changes |-> {"entries"},
   refreshes |-> {"journal-entries", "accounting-accounts", "accounting-trial-balance"}]
InviteUserForm == [creates |-> "inviteUser", edits |-> None, picks |-> {"roles"},
                   changes |-> {"users"}, refreshes |-> {"users"}]

Form ==
  [customer |-> CustomerForm, supplier |-> SupplierForm, product |-> ProductForm,
   sale |-> SaleForm, purchase |-> PurchaseForm, invoice |-> InvoiceForm,
   movement |-> StockMovementForm, account |-> AccountForm, entry |-> JournalEntryForm,
   user |-> InviteUserForm]

-----------------------------------------------------------------------------
(* The pages: the entry of the menu, the queries, the list whose rows have *)
(* buttons, the query of the row selected, the forms, the routes that the  *)
(* buttons of a row call, with what they change and invalidate.            *)

Page(module, shows, list, detail, forms, calls, refreshes, filters) ==
  [module |-> module, shows |-> shows, picks |-> UNION {Form[f].picks : f \in forms},
   list |-> list, detail |-> detail, forms |-> forms, calls |-> calls, changes |-> {list},
   refreshes |-> refreshes, filters |-> filters]

Catalogue(module, list, form, call) ==
  Page(module, {list}, list, {}, {form}, {call}, {list}, {"open", "settled"})

ClientsPage == Catalogue("clients", "customers", "customer", "deactivateCustomer")
SuppliersPage == Catalogue("suppliers", "suppliers", "supplier", "deactivateSupplier")
ProductsPage == Catalogue("products", "products", "product", "deactivateProduct")

Documents(module, list, detail, calls) ==
  Page(module, {list}, list, {detail}, {detail}, calls, {list, detail}, {"all", "open"})

SalesPage == Documents("sales", "sales", "sale", {"confirmSale", "cancelSale"})
PurchasesPage ==
  Documents("purchases", "purchases", "purchase", {"confirmPurchase", "cancelPurchase"})
InvoicingPage == Documents("invoicing", "invoices", "invoice", {"markPaid", "voidInvoice"})

StockPage ==
  Page("stock", {"stock"}, "stock", {"movements"}, {"movement"}, {}, {}, {"all"})
AccountingPage ==
  Page("accounting", {"accounts", "entries", "balance"}, "entries", {}, {"account", "entry"},
       {}, {}, {"all"})
\* Of its period, the model has two values.
ReportsPage ==
  Page("reports", {"salesReport", "purchasesReport", "income"}, None, {}, {}, {}, {},
       {"all", "open"})
UsersPage == Page("users", {"users"}, "users", {}, {"user"}, {}, {}, {"all"})
HomePage == Page(None, {}, None, {}, {}, {}, {}, {"all"})

Pages ==
  [home |-> HomePage, clients |-> ClientsPage, suppliers |-> SuppliersPage,
   products |-> ProductsPage, sales |-> SalesPage, purchases |-> PurchasesPage,
   invoicing |-> InvoicingPage, stock |-> StockPage, accounting |-> AccountingPage,
   reports |-> ReportsPage, users |-> UsersPage]

Calls == UNION {Pages[p].calls : p \in DOMAIN Pages}
Editable == Pages[page].module \in {"clients", "suppliers", "products"}

\* The permission each entry of the menu asks for.
NAV_ITEMS ==
  [p \in DOMAIN Pages |->
     CASE p = "home" -> Open
       [] p = "users" -> <<"users", "manage">>
       [] OTHER -> <<Pages[p].module, "read">>]

\* Accounts have one of the default roles, pages are those of the menu, and the identifier of a
\* row is never null.
ASSUME StartsAssumption ==
  /\ None \notin Items
  /\ \A s \in Starts :
       /\ s.role \in DOMAIN DEFAULT_ROLE_PERMISSIONS
       /\ {s.page} \cup s.visits \subseteq DOMAIN Pages

-----------------------------------------------------------------------------
(* The tab.                                                                *)

First(p) == IF "all" \in Pages[p].filters THEN "all" ELSE "open"

Blank(p) ==
  [filter |-> First(p), last |-> {}, selected |-> None, asking |-> None, editing |-> None,
   holds |-> None, typed |-> {}]

\* The keys that a page observes: its queries, with its filter; those of its pickers, whose
\* filters are their own; the detail of the row selected.
Keys(p, t) ==
  {[query |-> q, of |-> t.filter] : q \in Pages[p].shows}
    \cup {[query |-> q, of |-> "picker"] : q \in Pages[p].picks}
    \cup {[query |-> q, of |-> t.selected] :
            q \in IF t.selected = None THEN {} ELSE Pages[p].detail}

Context == [query |-> "context", of |-> "all"]

Mounted == IF session = None THEN {} ELSE {Context} \cup Keys(page, tab)

\* What a query has read: its rows, those among them that are open, the writes it misses, those
\* of them it missed already when they invalidated its key, and the account it was read for.
Nothing == [rows |-> {}, active |-> {}, misses |-> {}, late |-> {}, by |-> None]

NoData == [has |-> FALSE, data |-> Nothing, failed |-> FALSE, fetch |-> None, read |-> Nothing]

\* A fetch starts, or waits for the network; an error is forgotten unless there is data.
Fetching(c, who) ==
  [c EXCEPT !.fetch = IF online THEN "asked" ELSE "paused", !.failed = @ /\ c.has,
            !.read = [Nothing EXCEPT !.by = who]]

\* A page observes keys: what is not being fetched is, whatever the cache has; a fetch under way
\* is joined.
Observed(ks, who) ==
  [k \in DOMAIN cache \cup ks |->
     IF k \notin DOMAIN cache THEN Fetching(NoData, who)
     ELSE IF k \in ks /\ cache[k].fetch = None THEN Fetching(cache[k], who) ELSE cache[k]]

\* A save that waits for the network is bound to the row that its form edits by then.
Bound(w) ==
  IF w.state = "paused" /\ w.here /\ w.form # None /\ Editable
  THEN [w EXCEPT !.row = tab.editing,
                 !.op = IF tab.editing = None THEN Form[w.form].creates ELSE Form[w.form].edits]
  ELSE w

Gesture ==
  /\ gestures < MaxGestures[start]
  /\ gestures' = gestures + 1
  /\ UNCHANGED <<start, rows, online, faults>>

Local(t) == tab' = t /\ UNCHANGED <<session, page>>

Allowed(route, role) == CanActivate(route, role, start.features, start.restricted)

\* The rows that a filter keeps.
Matching(filter) ==
  CASE filter = "open" -> open
    [] filter = "settled" -> Items \ open
    [] OTHER -> Items

\* What the API answers.
Snapshot(k, who) ==
  [Nothing EXCEPT !.rows = Matching(k.of), !.active = Matching(k.of) \cap open, !.by = who]

\* The page has been opened by its address and has read what it may.
Init ==
  /\ start \in Starts
  /\ session = start.role
  /\ page = start.page
  /\ tab = Blank(page)
  /\ open = Items
  /\ content = [i \in Items |-> i]
  /\ cache = [k \in Mounted |->
                IF Allowed(Query[k.query].route, start.role)
                THEN [NoData EXCEPT !.has = TRUE, !.data = Snapshot(k, start.role)]
                ELSE [NoData EXCEPT !.failed = TRUE]]
  /\ writes = <<>>
  /\ online = TRUE /\ faults = 0 /\ gestures = 0

\* A page that is left loses its state; what it sent goes on.
Leave(p, who) ==
  /\ page' = p /\ session' = who
  /\ tab' = Blank(p)
  /\ writes' = [w \in DOMAIN writes |-> [Bound(writes[w]) EXCEPT !.here = FALSE]]

\* An entry of the menu, which shows those that the permissions it has read allow.  What was on
\* its way to the page that is left goes on.
Go(p) ==
  /\ Gesture
  /\ session # None /\ p \in start.visits \ {page}
  /\ \/ NAV_ITEMS[p] = Open
     \/ cache[Context].has
          /\ NAV_ITEMS[p] \in DEFAULT_ROLE_PERMISSIONS[cache[Context].data.by]
  /\ Leave(p, session)
  /\ cache' = Observed(Keys(p, Blank(p)), session)

\* The cache outlives the session.
Logout ==
  /\ Gesture
  /\ session # None
  /\ Leave("home", None)
  /\ UNCHANGED cache

Login(role) ==
  /\ Gesture
  /\ session = None /\ online /\ role \in start.others
  /\ session' = role
  /\ cache' = Observed({Context}, role)
  /\ UNCHANGED <<page, tab, writes>>

ListKey == [query |-> Pages[page].list, of |-> tab.filter]
HasRows == Pages[page].list # None /\ cache[ListKey].has

\* The key whose rows the list shows: its own or, until it is read or in error, the last one it
\* had rows of (placeholderData).
Listing ==
  IF HasRows THEN {ListKey}
  ELSE IF Pages[page].list = None \/ cache[ListKey].failed THEN {} ELSE tab.last

Listed(i) == \E k \in Listing : i \in cache[k].data.rows

Active(i) == \E k \in Listing : i \in cache[k].data.active

\* The page has other keys.
Rekey(t) ==
  /\ Local(t)
  /\ cache' = Observed(Keys(page, t), session)
  /\ UNCHANGED writes

Filter(f) ==
  /\ Gesture
  /\ session # None /\ f \in Pages[page].filters \ {tab.filter}
  /\ Rekey([tab EXCEPT !.filter = f, !.last = IF HasRows THEN {ListKey} ELSE @])

\* The window has the focus again: what is mounted is read again.
Focus ==
  /\ Gesture
  /\ session # None
  /\ Local(tab)
  /\ cache' = Observed(Mounted, session)
  /\ UNCHANGED writes

-----------------------------------------------------------------------------
(* Forms and buttons.                                                      *)

\* The detail of a row, or the history of a product.
Show(i) ==
  /\ Gesture
  /\ session # None /\ Pages[page].detail # {} /\ Listed(i) /\ tab.selected # i
  /\ Rekey([tab EXCEPT !.selected = i])

\* Faulty variant: the form keeps what it has (defaultValues).
ModifyKeepsDraft(i) ==
  /\ Gesture
  /\ session # None /\ Editable /\ Listed(i) /\ tab.editing # i
  /\ Local([tab EXCEPT !.editing = i, !.holds = IF tab.editing = None THEN i ELSE @])
  /\ UNCHANGED <<cache, writes>>

\* The form takes the values the list shows for the row, whatever was typed (values).  Modifying
\* again the row that is being edited changes nothing.
Modify(i) ==
  /\ Gesture
  /\ session # None /\ Editable /\ Listed(i) /\ tab.editing # i /\ tab.asking # i
  /\ Local([tab EXCEPT !.editing = i, !.holds = i, !.typed = {}])
  /\ UNCHANGED <<cache, writes>>

CancelEdit ==
  /\ Gesture
  /\ tab.editing # None
  /\ Local([tab EXCEPT !.editing = None, !.holds = None, !.typed = {}])
  /\ UNCHANGED <<cache, writes>>

Type(f) ==
  /\ Gesture
  /\ session # None /\ f \in Pages[page].forms \ tab.typed
  /\ Local([tab EXCEPT !.typed = @ \cup {f}])
  /\ UNCHANGED <<cache, writes>>

Waiting(w) == writes[w].here /\ writes[w].state \in {"paused", "sent", "applied"}

Send(form, op, row) ==
  /\ Len(writes) < MaxWrites
  /\ writes' = Append(writes,
       [form |-> form, op |-> op, row |-> row, meant |-> row, holds |-> tab.holds, on |-> page,
        role |-> session, here |-> TRUE, state |-> IF online THEN "sent" ELSE "paused"])

\* A form is sent, unless it waits already; a new row needs something typed to be valid.
Submit(f) ==
  /\ Gesture
  /\ session # None /\ f \in Pages[page].forms
  /\ \A w \in DOMAIN writes : Waiting(w) => writes[w].form # f
  /\ tab.editing = None => f \in tab.typed
  /\ Send(f, IF tab.editing = None THEN Form[f].creates ELSE Form[f].edits, tab.editing)
  /\ Local(tab)
  /\ UNCHANGED cache

Ask(i) ==
  /\ Gesture
  /\ session # None /\ Editable /\ Active(i) /\ tab.asking # i
  /\ Local([tab EXCEPT !.asking = i])
  /\ UNCHANGED <<cache, writes>>

Renounce ==
  /\ Gesture
  /\ tab.asking # None
  /\ Local([tab EXCEPT !.asking = None])
  /\ UNCHANGED <<cache, writes>>

\* A button of a row: a row of a catalogue is asked for first.
Press(op, i) ==
  /\ Gesture
  /\ session # None /\ op \in Pages[page].calls
  /\ IF Editable THEN tab.asking = i /\ Listed(i) ELSE Active(i)
  /\ \A w \in DOMAIN writes : Waiting(w) => writes[w].op # op
  /\ Send(None, op, i)
  /\ Local(tab)
  /\ UNCHANGED cache

-----------------------------------------------------------------------------
(* The API.                                                                *)

ChangedBy(w) == IF w.form = None THEN Pages[w.on].changes ELSE Form[w.form].changes

RefreshedBy(w) == IF w.form = None THEN Pages[w.on].refreshes ELSE Form[w.form].refreshes

\* A document is settled once; a row of a catalogue may be deactivated again.
Apply(w) ==
  LET write == writes[w]
      settles == write.form = None
  IN  /\ online /\ write.state = "sent"
      /\ Allowed(write.op, write.role)
      /\ settles /\ Pages[write.on].detail # {} => write.row \in open
      /\ open' = IF settles THEN open \ {write.row} ELSE open
      /\ content' = IF ~settles /\ write.row # None
                    THEN [content EXCEPT ![write.row] = write.holds] ELSE content
      /\ writes' = [writes EXCEPT ![w].state = "applied"]
      /\ cache' = [k \in DOMAIN cache |->
           IF Query[k.query].reads \cap ChangedBy(write) = {} THEN cache[k]
           ELSE [cache[k] EXCEPT !.data.misses = IF cache[k].has THEN @ \cup {w} ELSE @,
                                 !.read.misses = IF cache[k].fetch = "read" THEN @ \cup {w} ELSE @]]
      /\ UNCHANGED <<session, page, tab, world>>

\* The keys a write invalidates: a button of a document, the detail of its row only.
Refreshes(write, k) ==
  /\ Query[k.query].key \in RefreshedBy(write)
  /\ write.form = None /\ k.query \in Pages[write.on].detail => k.of = write.row

\* invalidateQueries: what is mounted is fetched, a fetch under way being cancelled if the key has
\* data.  A first load is joined, and the fetch of a key that is not mounted goes on.
Invalidated(w) ==
  [k \in DOMAIN cache |->
     IF ~Refreshes(writes[w], k) THEN cache[k]
     ELSE IF k \in Mounted /\ (cache[k].has \/ cache[k].fetch = None)
     THEN Fetching(cache[k], session)
     ELSE [cache[k] EXCEPT !.read.late = @ \cup ({w} \cap cache[k].read.misses)]]

\* onSuccess: what depends on the write is read again, the form is empty, a catalogue edits and
\* asks for nothing.
Acknowledge(w) ==
  /\ writes[w].state = "applied" /\ online
  /\ writes' = [writes EXCEPT ![w].state = "done"]
  /\ cache' = Invalidated(w)
  /\ tab' = IF ~writes[w].here THEN tab
            ELSE IF writes[w].form = None THEN [tab EXCEPT !.asking = None]
            ELSE [tab EXCEPT !.typed = @ \ {writes[w].form}, !.editing = None, !.holds = None]
  /\ UNCHANGED <<session, page, rows, world>>

\* onError: the message of the API is shown, nothing else changes.
Refuse(w) ==
  /\ online /\ writes[w].state = "sent"
  /\ writes' = [writes EXCEPT ![w].state = "refused"]
  /\ UNCHANGED <<session, page, tab, cache, rows, world>>

\* The request, or its answer, is lost: an error like another.
Lose(w) ==
  /\ writes[w].state \in {"sent", "applied"} /\ faults < MaxFaults
  /\ faults' = faults + 1
  /\ writes' = [writes EXCEPT ![w].state = IF @ = "sent" THEN "refused" ELSE "lost"]
  /\ UNCHANGED <<session, page, tab, cache, rows, start, online, gestures>>

Disconnect ==
  /\ online /\ faults < MaxFaults
  /\ online' = FALSE
  /\ faults' = faults + 1
  /\ UNCHANGED <<session, page, tab, cache, rows, writes, start, gestures>>

\* What is paused resumes, what is mounted is read again.
Reconnect ==
  /\ ~online
  /\ online' = TRUE
  /\ writes' = [w \in DOMAIN writes |->
       IF writes[w].state = "paused" THEN [Bound(writes[w]) EXCEPT !.state = "sent"]
       ELSE writes[w]]
  /\ cache' = [k \in DOMAIN cache |->
       IF cache[k].fetch = "paused" THEN [cache[k] EXCEPT !.fetch = "asked"]
       ELSE IF k \in Mounted /\ cache[k].fetch = None
       THEN [Fetching(cache[k], session) EXCEPT !.fetch = "asked"] ELSE cache[k]]
  /\ UNCHANGED <<session, page, tab, rows, start, faults, gestures>>

Answer(k) ==
  /\ online /\ cache[k].fetch = "asked"
  /\ Allowed(Query[k.query].route, cache[k].read.by)
  /\ cache' = [cache EXCEPT ![k].fetch = "read", ![k].read = Snapshot(k, cache[k].read.by)]
  /\ UNCHANGED <<session, page, tab, rows, writes, world>>

Receive(k) ==
  /\ cache[k].fetch = "read"
  /\ cache' = [cache EXCEPT ![k] = [NoData EXCEPT !.has = TRUE, !.data = cache[k].read]]
  /\ UNCHANGED <<session, page, tab, rows, writes, world>>

\* After its retries a fetch is an error, which the page says; the data stays.
Failed(k) ==
  cache' = [cache EXCEPT ![k].fetch = None, ![k].failed = TRUE, ![k].read = Nothing]

Deny(k) ==
  /\ online /\ cache[k].fetch = "asked"
  /\ ~Allowed(Query[k.query].route, cache[k].read.by)
  /\ Failed(k)
  /\ UNCHANGED <<session, page, tab, rows, writes, world>>

FailToFetch(k) ==
  /\ cache[k].fetch \in {"asked", "read"} /\ faults < MaxFaults
  /\ faults' = faults + 1
  /\ Failed(k)
  /\ UNCHANGED <<session, page, tab, rows, writes, start, online, gestures>>

-----------------------------------------------------------------------------
Next ==
  \/ \E p \in DOMAIN Pages : Go(p)
  \/ Logout
  \/ \E role \in DOMAIN DEFAULT_ROLE_PERMISSIONS : Login(role)
  \/ \E f \in {"open", "settled", "all"} : Filter(f)
  \/ Focus
  \/ \E i \in Items : Show(i) \/ Modify(i) \/ Ask(i)
  \/ CancelEdit
  \/ \E f \in DOMAIN Form : Type(f) \/ Submit(f)
  \/ Renounce
  \/ \E op \in Calls, i \in Items : Press(op, i)
  \/ \E w \in DOMAIN writes : Apply(w) \/ Acknowledge(w) \/ Refuse(w) \/ Lose(w)
  \/ Disconnect \/ Reconnect
  \/ \E k \in DOMAIN cache : Answer(k) \/ Receive(k) \/ Deny(k) \/ FailToFetch(k)

Spec == Init /\ [][Next]_vars

-----------------------------------------------------------------------------
(* Properties.                                                             *)

AtRest ==
  /\ online
  /\ \A w \in DOMAIN writes : ~(writes[w].state \in {"paused", "sent", "applied"})
  /\ \A k \in DOMAIN cache : cache[k].fetch = None

\* Once writes and fetches have come to rest, a page that shows data without a write made from it
\* that has been answered says that it could not be read again, or shows what the API had answered
\* before the write invalidated its key, where react-query cancels nothing: on the first load of a
\* key, or while no page observed it.  The keys each form and button invalidates cover what it
\* changes on its page (the onSuccess of the forms and pages).
OwnWritesAreShown ==
  AtRest => \A k \in Mounted : \A w \in cache[k].data.misses :
              writes[w].state = "done" /\ writes[w].on = page =>
                cache[k].failed \/ w \in cache[k].data.late

\* Whatever the menu and the buttons offer, whoever signed in before in the tab, a write is applied
\* only for an account that may do more than read in the module of the page: no route of the
\* controllers that changes something asks for a permission of readers (permissions.guard.ts:25-75,
\* default-roles.ts:6-93).
OnlyWritersWrite ==
  \A w \in DOMAIN writes :
    writes[w].state \in {"applied", "done", "lost"} =>
      \E verb \in {"create", "update", "delete", "manage"} :
        <<Pages[writes[w].on].module, verb>> \in DEFAULT_ROLE_PERMISSIONS[writes[w].role]

\* A row never takes values that the form held for another, or for a new one, whichever rows are
\* modified, cancelled and saved one after the other (customer-form.tsx:58-90).  Excepted: a save
\* that waited for the network while another row was being edited (SavesReachTheirRow).
RowsKeepTheirValues ==
  \A i \in Items :
    \/ content[i] = i
    \/ \E w \in DOMAIN writes : writes[w].row = i /\ writes[w].meant # i

\* What is typed in a form is there until the user gives it up or a save of that form succeeds: no
\* refetch, refusal, lost answer or reconnection takes it away (customer-form.tsx:71-94).
DraftsAreKept ==
  [][\A f \in tab.typed \ tab'.typed :
       \/ gestures' # gestures
       \/ \E w \in DOMAIN writes :
            writes[w].form = f /\ writes[w].state = "applied" /\ writes'[w].state = "done"]_vars

TypeOK ==
  /\ start \in Starts /\ page \in DOMAIN Pages
  /\ session \in DOMAIN DEFAULT_ROLE_PERMISSIONS \cup {None}
  /\ tab.filter \in Pages[page].filters /\ tab.typed \subseteq Pages[page].forms
  /\ {tab.selected, tab.asking, tab.editing, tab.holds} \subseteq Items \cup {None}
  /\ Mounted \subseteq DOMAIN cache /\ tab.last \subseteq DOMAIN cache
  /\ \A k \in DOMAIN cache :
       /\ k.query \in Queries /\ cache[k].fetch \in {None, "paused", "asked", "read"}
       /\ cache[k].data.misses \cup cache[k].read.misses \subseteq DOMAIN writes
       /\ cache[k].data.late \subseteq cache[k].data.misses
       /\ ~cache[k].has => cache[k].data = Nothing
  /\ \A w \in DOMAIN writes :
       writes[w].state \in {"paused", "sent", "applied", "done", "refused", "lost"}

-----------------------------------------------------------------------------
(* Not held: see the findings of the README.                               *)

\* A save reaches the row of the form that was sent ("sinon édition de ce client précis",
\* customer-form.tsx:57).
SavesReachTheirRow ==
  \A w \in DOMAIN writes : writes[w].state = "applied" => writes[w].row = writes[w].meant

\* The menu is that of the account signed in ("jamais un menu complet affiché par erreur pendant
\* le chargement", app-sidebar.tsx:21-23).
MenuIsTheirOwn ==
  session # None /\ cache[Context].has => cache[Context].data.by = session

\* At rest no page shows data without a write made from it.
NothingIsMissed ==
  AtRest => \A k \in Mounted : \A w \in cache[k].data.misses :
              writes[w].state = "done" /\ writes[w].on = page => cache[k].failed
=============================================================================
