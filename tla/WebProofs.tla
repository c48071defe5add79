------------------------------ MODULE WebProofs ------------------------------
(***************************************************************************)
(* What is proved of WebPages for any accounts, pages visited, rows and    *)
(* bounds: the tables of queries, forms, pages and routes are those of the *)
(* program, and the lemmas of the first sections read them once for all.   *)
(***************************************************************************)
EXTENDS WebPages, SequenceTheorems, TLAPS

Roles == DOMAIN DEFAULT_ROLE_PERMISSIONS

Filters == {"open", "settled", "all"}

Catalogues == {"clients", "suppliers", "products"}

-----------------------------------------------------------------------------
(* The tables, row by row.                                                 *)

LEMMA QueryTable ==
  /\ Query["customers"] = UseCustomers /\ Query["suppliers"] = UseSuppliers
  /\ Query["products"] = UseProducts /\ Query["sales"] = UseSales
  /\ Query["sale"] = UseSale /\ Query["purchases"] = UsePurchases
  /\ Query["purchase"] = UsePurchase /\ Query["invoices"] = UseInvoices
  /\ Query["invoice"] = UseInvoice /\ Query["stock"] = UseStock
  /\ Query["movements"] = UseStockMovements /\ Query["accounts"] = UseAccounts
  /\ Query["balance"] = UseTrialBalance /\ Query["entries"] = UseJournalEntries
  /\ Query["salesReport"] = UseSalesReport /\ Query["purchasesReport"] = UsePurchasesReport
  /\ Query["income"] = UseIncomeStatement /\ Query["users"] = UseEnterpriseUsers
  /\ Query["roles"] = UseRoles /\ Query["context"] = UseMyContext
BY DEF Query

LEMMA QueryNames ==
  Queries = {"customers", "suppliers", "products", "sales", "sale", "purchases", "purchase",
              "invoices", "invoice", "stock", "movements", "accounts", "balance", "entries",
              "salesReport", "purchasesReport", "income", "users", "roles", "context"}
BY DEF Queries, Query

LEMMA FormTable ==
  /\ DOMAIN Form = {"customer", "supplier", "product", "sale", "purchase", "invoice",
                     "movement", "account", "entry", "user"}
  /\ Form["customer"] = CustomerForm /\ Form["supplier"] = SupplierForm
  /\ Form["product"] = ProductForm /\ Form["sale"] = SaleForm
  /\ Form["purchase"] = PurchaseForm /\ Form["invoice"] = InvoiceForm
  /\ Form["movement"] = StockMovementForm /\ Form["account"] = AccountForm
  /\ Form["entry"] = JournalEntryForm /\ Form["user"] = InviteUserForm
BY DEF Form

LEMMA PageTable ==
  /\ DOMAIN Pages = {"home", "clients", "suppliers", "products", "sales", "purchases",
                      "invoicing", "stock", "accounting", "reports", "users"}
  /\ Pages["home"] = HomePage /\ Pages["clients"] = ClientsPage
  /\ Pages["suppliers"] = SuppliersPage /\ Pages["products"] = ProductsPage
  /\ Pages["sales"] = SalesPage /\ Pages["purchases"] = PurchasesPage
  /\ Pages["invoicing"] = InvoicingPage /\ Pages["stock"] = StockPage
  /\ Pages["accounting"] = AccountingPage /\ Pages["reports"] = ReportsPage
  /\ Pages["users"] = UsersPage
BY DEF Pages

LEMMA Picks ==
  /\ UNION {Form[f].picks : f \in {}} = {}
  /\ UNION {Form[f].picks : f \in {"customer"}} = {}
  /\ UNION {Form[f].picks : f \in {"supplier"}} = {}
  /\ UNION {Form[f].picks : f \in {"product"}} = {}
  /\ UNION {Form[f].picks : f \in {"sale"}} = {"customers", "products"}
  /\ UNION {Form[f].picks : f \in {"purchase"}} = {"suppliers", "products"}
  /\ UNION {Form[f].picks : f \in {"invoice"}} = {"sales"}
  /\ UNION {Form[f].picks : f \in {"movement"}} = {"stock"}
  /\ UNION {Form[f].picks : f \in {"user"}} = {"roles"}
  /\ UNION {Form[f].picks : f \in {"account", "entry"}} = {"accounts"}
<1>1. \A f : UNION {Form[g].picks : g \in {f}} = Form[f].picks
  OBVIOUS
<1>2. UNION {Form[f].picks : f \in {"account", "entry"}}
        = Form["account"].picks \cup Form["entry"].picks
  OBVIOUS
<1>3. UNION {Form[f].picks : f \in {}} = {}
  OBVIOUS
<1>4. /\ CustomerForm.picks = {} /\ SupplierForm.picks = {} /\ ProductForm.picks = {}
      /\ SaleForm.picks = {"customers", "products"}
      /\ PurchaseForm.picks = {"suppliers", "products"} /\ InvoiceForm.picks = {"sales"}
      /\ StockMovementForm.picks = {"stock"} /\ InviteUserForm.picks = {"roles"}
      /\ AccountForm.picks = {} /\ JournalEntryForm.picks = {"accounts"}
  BY DEF CustomerForm, SupplierForm, ProductForm, SaleForm, PurchaseForm, InvoiceForm,
         StockMovementForm, AccountForm, JournalEntryForm, InviteUserForm
<1> QED BY <1>1, <1>2, <1>3, <1>4, FormTable

Rendered(module, shows, picks, list, detail, forms, calls, refreshes, filters) ==
  [module |-> module, shows |-> shows, picks |-> picks, list |-> list, detail |-> detail,
   forms |-> forms, calls |-> calls, changes |-> {list}, refreshes |-> refreshes,
   filters |-> filters]

LEMMA PagesRendered ==
  /\ HomePage = Rendered(None, {}, {}, None, {}, {}, {}, {}, {"all"})
  /\ ClientsPage = Rendered("clients", {"customers"}, {}, "customers", {}, {"customer"},
                    {"deactivateCustomer"}, {"customers"}, {"open", "settled"})
  /\ SuppliersPage = Rendered("suppliers", {"suppliers"}, {}, "suppliers", {}, {"supplier"},
                    {"deactivateSupplier"}, {"suppliers"}, {"open", "settled"})
  /\ ProductsPage = Rendered("products", {"products"}, {}, "products", {}, {"product"},
                    {"deactivateProduct"}, {"products"}, {"open", "settled"})
  /\ SalesPage = Rendered("sales", {"sales"}, {"customers", "products"}, "sales", {"sale"}, {"sale"},
                    {"confirmSale", "cancelSale"}, {"sales", "sale"}, {"all", "open"})
  /\ PurchasesPage = Rendered("purchases", {"purchases"}, {"suppliers", "products"}, "purchases", {"purchase"}, {"purchase"},
                    {"confirmPurchase", "cancelPurchase"}, {"purchases", "purchase"}, {"all", "open"})
  /\ InvoicingPage = Rendered("invoicing", {"invoices"}, {"sales"}, "invoices", {"invoice"}, {"invoice"},
                    {"markPaid", "voidInvoice"}, {"invoices", "invoice"}, {"all", "open"})
  /\ StockPage = Rendered("stock", {"stock"}, {"stock"}, "stock", {"movements"}, {"movement"},
                    {}, {}, {"all"})
  /\ AccountingPage = Rendered("accounting", {"accounts", "entries", "balance"}, {"accounts"}, "entries", {}, {"account", "entry"},
                    {}, {}, {"all"})
  /\ ReportsPage = Rendered("reports", {"salesReport", "purchasesReport", "income"}, {}, None, {}, {},
                    {}, {}, {"all", "open"})
  /\ UsersPage = Rendered("users", {"users"}, {"roles"}, "users", {}, {"user"}, {}, {}, {"all"})
<1> USE Picks DEF Page, Rendered
<1>1. HomePage = Rendered(None, {}, {}, None, {}, {}, {}, {}, {"all"})
  BY DEF HomePage
<1>2. ClientsPage = Rendered("clients", {"customers"}, {}, "customers", {}, {"customer"},
                    {"deactivateCustomer"}, {"customers"}, {"open", "settled"})
  BY DEF ClientsPage, Catalogue
<1>3. SuppliersPage = Rendered("suppliers", {"suppliers"}, {}, "suppliers", {}, {"supplier"},
                    {"deactivateSupplier"}, {"suppliers"}, {"open", "settled"})
  BY DEF SuppliersPage, Catalogue
<1>4. ProductsPage = Rendered("products", {"products"}, {}, "products", {}, {"product"},
                    {"deactivateProduct"}, {"products"}, {"open", "settled"})
  BY DEF ProductsPage, Catalogue
<1>5. SalesPage = Rendered("sales", {"sales"}, {"customers", "products"}, "sales", {"sale"}, {"sale"},
                    {"confirmSale", "cancelSale"}, {"sales", "sale"}, {"all", "open"})
  BY DEF SalesPage, Documents
<1>6. PurchasesPage = Rendered("purchases", {"purchases"}, {"suppliers", "products"}, "purchases", {"purchase"}, {"purchase"},
                    {"confirmPurchase", "cancelPurchase"}, {"purchases", "purchase"}, {"all", "open"})
  BY DEF PurchasesPage, Documents
<1>7. InvoicingPage = Rendered("invoicing", {"invoices"}, {"sales"}, "invoices", {"invoice"}, {"invoice"},
                    {"markPaid", "voidInvoice"}, {"invoices", "invoice"}, {"all", "open"})
  BY DEF InvoicingPage, Documents
<1>8. StockPage = Rendered("stock", {"stock"}, {"stock"}, "stock", {"movements"}, {"movement"},
                    {}, {}, {"all"})
  BY DEF StockPage
<1>9. AccountingPage = Rendered("accounting", {"accounts", "entries", "balance"}, {"accounts"}, "entries", {}, {"account", "entry"},
                    {}, {}, {"all"})
  BY DEF AccountingPage
<1>10. ReportsPage = Rendered("reports", {"salesReport", "purchasesReport", "income"}, {}, None, {}, {},
                    {}, {}, {"all", "open"})
  BY DEF ReportsPage
<1>11. UsersPage = Rendered("users", {"users"}, {"roles"}, "users", {}, {"user"}, {}, {}, {"all"})
  BY DEF UsersPage
<1> QED BY <1>1, <1>2, <1>3, <1>4, <1>5, <1>6, <1>7, <1>8, <1>9, <1>10, <1>11

\* The queries that a page has, whatever the row selected.
Seen(p) == Pages[p].shows \cup Pages[p].picks \cup Pages[p].detail

\* What a page shows, and what is written from it.
LEMMA PageRows ==
  /\ Pages["home"].module = None /\ Pages["home"].list = None
  /\ Pages["home"].shows = {} /\ Pages["home"].picks = {}
  /\ Pages["home"].detail = {} /\ Pages["home"].forms = {}
  /\ Pages["home"].calls = {}
  /\ Pages["home"].changes = {None} /\ Pages["home"].refreshes = {}
  /\ Pages["home"].filters = {"all"}
  /\ Pages["clients"].module = "clients" /\ Pages["clients"].list = "customers"
  /\ Pages["clients"].shows = {"customers"} /\ Pages["clients"].picks = {}
  /\ Pages["clients"].detail = {} /\ Pages["clients"].forms = {"customer"}
  /\ Pages["clients"].calls = {"deactivateCustomer"}
  /\ Pages["clients"].changes = {"customers"} /\ Pages["clients"].refreshes = {"customers"}
  /\ Pages["clients"].filters = {"open", "settled"}
  /\ Pages["suppliers"].module = "suppliers" /\ Pages["suppliers"].list = "suppliers"
  /\ Pages["suppliers"].shows = {"suppliers"} /\ Pages["suppliers"].picks = {}
  /\ Pages["suppliers"].detail = {} /\ Pages["suppliers"].forms = {"supplier"}
  /\ Pages["suppliers"].calls = {"deactivateSupplier"}
  /\ Pages["suppliers"].changes = {"suppliers"} /\ Pages["suppliers"].refreshes = {"suppliers"}
  /\ Pages["suppliers"].filters = {"open", "settled"}
  /\ Pages["products"].module = "products" /\ Pages["products"].list = "products"
  /\ Pages["products"].shows = {"products"} /\ Pages["products"].picks = {}
  /\ Pages["products"].detail = {} /\ Pages["products"].forms = {"product"}
  /\ Pages["products"].calls = {"deactivateProduct"}
  /\ Pages["products"].changes = {"products"} /\ Pages["products"].refreshes = {"products"}
  /\ Pages["products"].filters = {"open", "settled"}
  /\ Pages["sales"].module = "sales" /\ Pages["sales"].list = "sales"
  /\ Pages["sales"].shows = {"sales"} /\ Pages["sales"].picks = {"customers", "products"}
  /\ Pages["sales"].detail = {"sale"} /\ Pages["sales"].forms = {"sale"}
  /\ Pages["sales"].calls = {"confirmSale", "cancelSale"}
  /\ Pages["sales"].changes = {"sales"} /\ Pages["sales"].refreshes = {"sales", "sale"}
  /\ Pages["sales"].filters = {"all", "open"}
  /\ Pages["purchases"].module = "purchases" /\ Pages["purchases"].list = "purchases"
  /\ Pages["purchases"].shows = {"purchases"} /\ Pages["purchases"].picks = {"suppliers", "products"}
  /\ Pages["purchases"].detail = {"purchase"} /\ Pages["purchases"].forms = {"purchase"}
  /\ Pages["purchases"].calls = {"confirmPurchase", "cancelPurchase"}
  /\ Pages["purchases"].changes = {"purchases"} /\ Pages["purchases"].refreshes = {"purchases", "purchase"}
  /\ Pages["purchases"].filters = {"all", "open"}
  /\ Pages["invoicing"].module = "invoicing" /\ Pages["invoicing"].list = "invoices"
  /\ Pages["invoicing"].shows = {"invoices"} /\ Pages["invoicing"].picks = {"sales"}
  /\ Pages["invoicing"].detail = {"invoice"} /\ Pages["invoicing"].forms = {"invoice"}
  /\ Pages["invoicing"].calls = {"markPaid", "voidInvoice"}
  /\ Pages["invoicing"].changes = {"invoices"} /\ Pages["invoicing"].refreshes = {"invoices", "invoice"}
  /\ Pages["invoicing"].filters = {"all", "open"}
  /\ Pages["stock"].module = "stock" /\ Pages["stock"].list = "stock"
  /\ Pages["stock"].shows = {"stock"} /\ Pages["stock"].picks = {"stock"}
  /\ Pages["stock"].detail = {"movements"} /\ Pages["stock"].forms = {"movement"}
  /\ Pages["stock"].calls = {}
  /\ Pages["stock"].changes = {"stock"} /\ Pages["stock"].refreshes = {}
  /\ Pages["stock"].filters = {"all"}
  /\ Pages["accounting"].module = "accounting" /\ Pages["accounting"].list = "entries"
  /\ Pages["accounting"].shows = {"accounts", "entries", "balance"} /\ Pages["accounting"].picks = {"accounts"}
  /\ Pages["accounting"].detail = {} /\ Pages["accounting"].forms = {"account", "entry"}
  /\ Pages["accounting"].calls = {}
  /\ Pages["accounting"].changes = {"entries"} /\ Pages["accounting"].refreshes = {}
  /\ Pages["accounting"].filters = {"all"}
  /\ Pages["reports"].module = "reports" /\ Pages["reports"].list = None
  /\ Pages["reports"].shows = {"salesReport", "purchasesReport", "income"} /\ Pages["reports"].picks = {}
  /\ Pages["reports"].detail = {} /\ Pages["reports"].forms = {}
  /\ Pages["reports"].calls = {}
  /\ Pages["reports"].changes = {None} /\ Pages["reports"].refreshes = {}
  /\ Pages["reports"].filters = {"all", "open"}
  /\ Pages["users"].module = "users" /\ Pages["users"].list = "users"
  /\ Pages["users"].shows = {"users"} /\ Pages["users"].picks = {"roles"}
  /\ Pages["users"].detail = {} /\ Pages["users"].forms = {"user"}
  /\ Pages["users"].calls = {}
  /\ Pages["users"].changes = {"users"} /\ Pages["users"].refreshes = {}
  /\ Pages["users"].filters = {"all"}
BY PageTable, PagesRendered DEF Rendered

LEMMA PageFacts ==
  ASSUME NEW p \in DOMAIN Pages
  PROVE  /\ Pages[p].forms \subseteq DOMAIN Form /\ Pages[p].filters \subseteq Filters
         /\ Seen(p) \subseteq Queries /\ First(p) \in Pages[p].filters
         /\ Pages[p].list # None => Pages[p].list \in Pages[p].shows
         /\ p = "home" => Pages[p].calls = {} /\ Pages[p].forms = {} /\ Seen(p) = {}
         /\ p = "home" => Pages[p].list = None
         /\ p = "reports" => Pages[p].list = None
<1>1. \/ p = "home" \/ p = "clients" \/ p = "suppliers" \/ p = "products" \/ p = "sales" \/ p = "purchases"
      \/ p = "invoicing" \/ p = "stock" \/ p = "accounting" \/ p = "reports" \/ p = "users"
  BY PageTable
<1>2. None \notin Queries
  BY QueryNames DEF None
<1>3. CASE p = "home"
  BY <1>2, <1>3, PageRows, FormTable, QueryNames DEF Seen, First, Filters, None
<1>4. CASE p = "clients"
  BY <1>2, <1>4, PageRows, FormTable, QueryNames DEF Seen, First, Filters, None
<1>5. CASE p = "suppliers"
  BY <1>2, <1>5, PageRows, FormTable, QueryNames DEF Seen, First, Filters, None
<1>6. CASE p = "products"
  BY <1>2, <1>6, PageRows, FormTable, QueryNames DEF Seen, First, Filters, None
<1>7. CASE p = "sales"
  BY <1>2, <1>7, PageRows, FormTable, QueryNames DEF Seen, First, Filters, None
<1>8. CASE p = "purchases"
  BY <1>2, <1>8, PageRows, FormTable, QueryNames DEF Seen, First, Filters, None
<1>9. CASE p = "invoicing"
  BY <1>2, <1>9, PageRows, FormTable, QueryNames DEF Seen, First, Filters, None
<1>10. CASE p = "stock"
  BY <1>2, <1>10, PageRows, FormTable, QueryNames DEF Seen, First, Filters, None
<1>11. CASE p = "accounting"
  BY <1>2, <1>11, PageRows, FormTable, QueryNames DEF Seen, First, Filters, None
<1>12. CASE p = "reports"
  BY <1>2, <1>12, PageRows, FormTable, QueryNames DEF Seen, First, Filters, None
<1>13. CASE p = "users"
  BY <1>2, <1>13, PageRows, FormTable, QueryNames DEF Seen, First, Filters, None
<1> QED BY <1>1, <1>3, <1>4, <1>5, <1>6, <1>7, <1>8, <1>9, <1>10, <1>11, <1>12, <1>13

\* The keys a form invalidates cover what it changes on its page.
LEMMA FormsCover ==
  ASSUME NEW p \in DOMAIN Pages, NEW x \in Seen(p), NEW f \in Pages[p].forms,
         Query[x].reads \cap Form[f].changes # {}
  PROVE  Query[x].key \in Form[f].refreshes
<1>1. \/ p = "home" \/ p = "clients" \/ p = "suppliers" \/ p = "products" \/ p = "sales" \/ p = "purchases"
      \/ p = "invoicing" \/ p = "stock" \/ p = "accounting" \/ p = "reports" \/ p = "users"
  BY PageTable
<1>2. CASE p = "home"
  BY <1>2, PageRows
<1>3. CASE p = "clients"
  <2>1. x \in {"customers"} /\ f \in {"customer"}
    BY <1>3, PageRows DEF Seen
  <2> QED BY <2>1, QueryTable, FormTable
           DEF UseCustomers, CustomerForm
<1>4. CASE p = "suppliers"
  <2>1. x \in {"suppliers"} /\ f \in {"supplier"}
    BY <1>4, PageRows DEF Seen
  <2> QED BY <2>1, QueryTable, FormTable
           DEF UseSuppliers, SupplierForm
<1>5. CASE p = "products"
  <2>1. x \in {"products"} /\ f \in {"product"}
    BY <1>5, PageRows DEF Seen
  <2> QED BY <2>1, QueryTable, FormTable
           DEF UseProducts, ProductForm
<1>6. CASE p = "sales"
  <2>1. x \in {"sales", "customers", "products", "sale"} /\ f \in {"sale"}
    BY <1>6, PageRows DEF Seen
  <2> QED BY <2>1, QueryTable, FormTable
           DEF UseSales, UseCustomers, UseProducts, UseSale, SaleForm
<1>7. CASE p = "purchases"
  <2>1. x \in {"purchases", "suppliers", "products", "purchase"} /\ f \in {"purchase"}
    BY <1>7, PageRows DEF Seen
  <2> QED BY <2>1, QueryTable, FormTable
           DEF UsePurchases, UseSuppliers, UseProducts, UsePurchase, PurchaseForm
<1>8. CASE p = "invoicing"
  <2>1. x \in {"invoices", "sales", "invoice"} /\ f \in {"invoice"}
    BY <1>8, PageRows DEF Seen
  <2> QED BY <2>1, QueryTable, FormTable
           DEF UseInvoices, UseSales, UseInvoice, InvoiceForm
<1>9. CASE p = "stock"
  <2>1. x \in {"stock", "movements"} /\ f \in {"movement"}
    BY <1>9, PageRows DEF Seen
  <2> QED BY <2>1, QueryTable, FormTable
           DEF UseStock, UseStockMovements, StockMovementForm
<1>10. CASE p = "accounting"
  <2>1. x \in {"accounts", "entries", "balance"} /\ f \in {"account", "entry"}
    BY <1>10, PageRows DEF Seen
  <2> QED BY <2>1, QueryTable, FormTable
           DEF UseAccounts, UseJournalEntries, UseTrialBalance, AccountForm, JournalEntryForm
<1>11. CASE p = "reports"
  BY <1>11, PageRows
<1>12. CASE p = "users"
  <2>1. x \in {"users", "roles"} /\ f \in {"user"}
    BY <1>12, PageRows DEF Seen
  <2> QED BY <2>1, QueryTable, FormTable
           DEF UseEnterpriseUsers, UseRoles, InviteUserForm
<1> QED BY <1>1, <1>2, <1>3, <1>4, <1>5, <1>6, <1>7, <1>8, <1>9, <1>10, <1>11, <1>12

\* The keys a button of a row invalidates cover the list it changes, which no detail reads.
LEMMA ButtonsCover ==
  ASSUME NEW p \in DOMAIN Pages, NEW x \in Seen(p), Pages[p].calls # {},
         Query[x].reads \cap Pages[p].changes # {}
  PROVE  Query[x].key \in Pages[p].refreshes /\ x \notin Pages[p].detail
<1>1. \/ p = "home" \/ p = "clients" \/ p = "suppliers" \/ p = "products" \/ p = "sales" \/ p = "purchases"
      \/ p = "invoicing" \/ p = "stock" \/ p = "accounting" \/ p = "reports" \/ p = "users"
  BY PageTable
<1>2. CASE p = "home"
  BY <1>2, PageRows
<1>3. CASE p = "clients"
  <2>1. x \in {"customers"} /\ Pages[p].changes = {"customers"}
    BY <1>3, PageRows DEF Seen
  <2>2. Pages[p].refreshes = {"customers"} /\ Pages[p].detail = {}
    BY <1>3, PageRows
  <2> QED BY <2>1, <2>2, QueryTable
           DEF UseCustomers
<1>4. CASE p = "suppliers"
  <2>1. x \in {"suppliers"} /\ Pages[p].changes = {"suppliers"}
    BY <1>4, PageRows DEF Seen
  <2>2. Pages[p].refreshes = {"suppliers"} /\ Pages[p].detail = {}
    BY <1>4, PageRows
  <2> QED BY <2>1, <2>2, QueryTable
           DEF UseSuppliers
<1>5. CASE p = "products"
  <2>1. x \in {"products"} /\ Pages[p].changes = {"products"}
    BY <1>5, PageRows DEF Seen
  <2>2. Pages[p].refreshes = {"products"} /\ Pages[p].detail = {}
    BY <1>5, PageRows
  <2> QED BY <2>1, <2>2, QueryTable
           DEF UseProducts
<1>6. CASE p = "sales"
  <2>1. x \in {"sales", "customers", "products", "sale"} /\ Pages[p].changes = {"sales"}
    BY <1>6, PageRows DEF Seen
  <2>2. Pages[p].refreshes = {"sales", "sale"} /\ Pages[p].detail = {"sale"}
    BY <1>6, PageRows
  <2> QED BY <2>1, <2>2, QueryTable
           DEF UseSales, UseCustomers, UseProducts, UseSale
<1>7. CASE p = "purchases"
  <2>1. x \in {"purchases", "suppliers", "products", "purchase"} /\ Pages[p].changes = {"purchases"}
    BY <1>7, PageRows DEF Seen
  <2>2. Pages[p].refreshes = {"purchases", "purchase"} /\ Pages[p].detail = {"purchase"}
    BY <1>7, PageRows
  <2> QED BY <2>1, <2>2, QueryTable
           DEF UsePurchases, UseSuppliers, UseProducts, UsePurchase
<1>8. CASE p = "invoicing"
  <2>1. x \in {"invoices", "sales", "invoice"} /\ Pages[p].changes = {"invoices"}
    BY <1>8, PageRows DEF Seen
  <2>2. Pages[p].refreshes = {"invoices", "invoice"} /\ Pages[p].detail = {"invoice"}
    BY <1>8, PageRows
  <2> QED BY <2>1, <2>2, QueryTable
           DEF UseInvoices, UseSales, UseInvoice
<1>9. CASE p = "stock"
  BY <1>9, PageRows
<1>10. CASE p = "accounting"
  BY <1>10, PageRows
<1>11. CASE p = "reports"
  BY <1>11, PageRows
<1>12. CASE p = "users"
  BY <1>12, PageRows
<1> QED BY <1>1, <1>2, <1>3, <1>4, <1>5, <1>6, <1>7, <1>8, <1>9, <1>10, <1>11, <1>12

Verbs == {"create", "update", "delete", "manage"}

\* A route that asks, in a table, for a permission to write.
Asks(table, op, module) == op \in DOMAIN table /\ table[op].needs \in {module} \X Verbs

LEMMA RouteNames ==
  /\ DOMAIN CustomersController = {"createCustomer", "updateCustomer", "deactivateCustomer", "listCustomers"}
  /\ DOMAIN SuppliersController = {"createSupplier", "updateSupplier", "deactivateSupplier", "listSuppliers"}
  /\ DOMAIN ProductsController = {"createProduct", "updateProduct", "deactivateProduct", "listProducts"}
  /\ DOMAIN SalesController = {"createSale", "confirmSale", "cancelSale", "listSales", "getSale"}
  /\ DOMAIN PurchasesController = {"createPurchase", "confirmPurchase", "cancelPurchase", "listPurchases", "getPurchase"}
  /\ DOMAIN InvoicingController = {"createInvoice", "markPaid", "voidInvoice", "listInvoices", "getInvoice"}
  /\ DOMAIN StockController = {"createMovement", "listStock", "listMovements"}
  /\ DOMAIN AccountsController = {"createAccount", "listAccounts"}
  /\ DOMAIN JournalController = {"createEntry", "listEntries"}
  /\ DOMAIN TrialBalanceController = {"trialBalance"}
  /\ DOMAIN ReportsController = {"salesReport", "purchasesReport", "incomeStatement"}
  /\ DOMAIN UsersController = {"inviteUser", "listUsers", "myContext"}
  /\ DOMAIN RolesController = {"listRoles"}
BY DEF CustomersController, SuppliersController, ProductsController, SalesController, PurchasesController,
       InvoicingController, StockController, AccountsController, JournalController,
       TrialBalanceController, ReportsController, UsersController, RolesController

LEMMA Routed ==
  ASSUME NEW t \in Controllers, NEW op \in DOMAIN t, NEW module, Asks(t, op, module),
         \A c \in Controllers : op \in DOMAIN c => c = t
  PROVE  Asks(Routes, op, module)
<1>1. t = CHOOSE c \in Controllers : op \in DOMAIN c
  OBVIOUS
<1>2. op \in UNION {DOMAIN c : c \in Controllers}
  OBVIOUS
<1> QED BY <1>1, <1>2 DEF Routes, Asks

\* A route that changes something asks for a permission to write in the module of its page.
LEMMA RoutesAsk ==
  /\ \A op \in {"createCustomer", "updateCustomer", "deactivateCustomer"} : Asks(Routes, op, "clients")
  /\ \A op \in {"createSupplier", "updateSupplier", "deactivateSupplier"} : Asks(Routes, op, "suppliers")
  /\ \A op \in {"createProduct", "updateProduct", "deactivateProduct"} : Asks(Routes, op, "products")
  /\ \A op \in {"createSale", "confirmSale", "cancelSale"} : Asks(Routes, op, "sales")
  /\ \A op \in {"createPurchase", "confirmPurchase", "cancelPurchase"} : Asks(Routes, op, "purchases")
  /\ \A op \in {"createInvoice", "markPaid", "voidInvoice"} : Asks(Routes, op, "invoicing")
  /\ \A op \in {"createMovement"} : Asks(Routes, op, "stock")
  /\ \A op \in {"createAccount"} : Asks(Routes, op, "accounting")
  /\ \A op \in {"createEntry"} : Asks(Routes, op, "accounting")
  /\ \A op \in {"inviteUser"} : Asks(Routes, op, "users")
<1>1. ASSUME NEW op \in {"createCustomer", "updateCustomer", "deactivateCustomer"}
      PROVE  Asks(Routes, op, "clients")
  <2>1. \A c \in Controllers : op \in DOMAIN c => c = CustomersController
    BY RouteNames DEF Controllers
  <2>2. CustomersController \in Controllers /\ op \in DOMAIN CustomersController
    BY RouteNames DEF Controllers
  <2>3. Asks(CustomersController, op, "clients")
    BY DEF Asks, Verbs, Route, CustomersController
  <2> QED BY <2>1, <2>2, <2>3, Routed
<1>2. ASSUME NEW op \in {"createSupplier", "updateSupplier", "deactivateSupplier"}
      PROVE  Asks(Routes, op, "suppliers")
  <2>1. \A c \in Controllers : op \in DOMAIN c => c = SuppliersController
    BY RouteNames DEF Controllers
  <2>2. SuppliersController \in Controllers /\ op \in DOMAIN SuppliersController
    BY RouteNames DEF Controllers
  <2>3. Asks(SuppliersController, op, "suppliers")
    BY DEF Asks, Verbs, Route, SuppliersController
  <2> QED BY <2>1, <2>2, <2>3, Routed
<1>3. ASSUME NEW op \in {"createProduct", "updateProduct", "deactivateProduct"}
      PROVE  Asks(Routes, op, "products")
  <2>1. \A c \in Controllers : op \in DOMAIN c => c = ProductsController
    BY RouteNames DEF Controllers
  <2>2. ProductsController \in Controllers /\ op \in DOMAIN ProductsController
    BY RouteNames DEF Controllers
  <2>3. Asks(ProductsController, op, "products")
    BY DEF Asks, Verbs, Route, ProductsController
  <2> QED BY <2>1, <2>2, <2>3, Routed
<1>4. ASSUME NEW op \in {"createSale", "confirmSale", "cancelSale"}
      PROVE  Asks(Routes, op, "sales")
  <2>1. \A c \in Controllers : op \in DOMAIN c => c = SalesController
    BY RouteNames DEF Controllers
  <2>2. SalesController \in Controllers /\ op \in DOMAIN SalesController
    BY RouteNames DEF Controllers
  <2>3. Asks(SalesController, op, "sales")
    BY DEF Asks, Verbs, Route, SalesController
  <2> QED BY <2>1, <2>2, <2>3, Routed
<1>5. ASSUME NEW op \in {"createPurchase", "confirmPurchase", "cancelPurchase"}
      PROVE  Asks(Routes, op, "purchases")
  <2>1. \A c \in Controllers : op \in DOMAIN c => c = PurchasesController
    BY RouteNames DEF Controllers
  <2>2. PurchasesController \in Controllers /\ op \in DOMAIN PurchasesController
    BY RouteNames DEF Controllers
  <2>3. Asks(PurchasesController, op, "purchases")
    BY DEF Asks, Verbs, Route, PurchasesController
  <2> QED BY <2>1, <2>2, <2>3, Routed
<1>6. ASSUME NEW op \in {"createInvoice", "markPaid", "voidInvoice"}
      PROVE  Asks(Routes, op, "invoicing")
  <2>1. \A c \in Controllers : op \in DOMAIN c => c = InvoicingController
    BY RouteNames DEF Controllers
  <2>2. InvoicingController \in Controllers /\ op \in DOMAIN InvoicingController
    BY RouteNames DEF Controllers
  <2>3. Asks(InvoicingController, op, "invoicing")
    BY DEF Asks, Verbs, Route, InvoicingController
  <2> QED BY <2>1, <2>2, <2>3, Routed
<1>7. ASSUME NEW op \in {"createMovement"}
      PROVE  Asks(Routes, op, "stock")
  <2>1. \A c \in Controllers : op \in DOMAIN c => c = StockController
    BY RouteNames DEF Controllers
  <2>2. StockController \in Controllers /\ op \in DOMAIN StockController
    BY RouteNames DEF Controllers
  <2>3. Asks(StockController, op, "stock")
    BY DEF Asks, Verbs, Route, StockController
  <2> QED BY <2>1, <2>2, <2>3, Routed
<1>8. ASSUME NEW op \in {"createAccount"}
      PROVE  Asks(Routes, op, "accounting")
  <2>1. \A c \in Controllers : op \in DOMAIN c => c = AccountsController
    BY RouteNames DEF Controllers
  <2>2. AccountsController \in Controllers /\ op \in DOMAIN AccountsController
    BY RouteNames DEF Controllers
  <2>3. Asks(AccountsController, op, "accounting")
    BY DEF Asks, Verbs, Route, AccountsController
  <2> QED BY <2>1, <2>2, <2>3, Routed
<1>9. ASSUME NEW op \in {"createEntry"}
      PROVE  Asks(Routes, op, "accounting")
  <2>1. \A c \in Controllers : op \in DOMAIN c => c = JournalController
    BY RouteNames DEF Controllers
  <2>2. JournalController \in Controllers /\ op \in DOMAIN JournalController
    BY RouteNames DEF Controllers
  <2>3. Asks(JournalController, op, "accounting")
    BY DEF Asks, Verbs, Route, JournalController
  <2> QED BY <2>1, <2>2, <2>3, Routed
<1>10. ASSUME NEW op \in {"inviteUser"}
       PROVE  Asks(Routes, op, "users")
  <2>1. \A c \in Controllers : op \in DOMAIN c => c = UsersController
    BY RouteNames DEF Controllers
  <2>2. UsersController \in Controllers /\ op \in DOMAIN UsersController
    BY RouteNames DEF Controllers
  <2>3. Asks(UsersController, op, "users")
    <3>1. UsersController["inviteUser"].needs = <<"users", "manage">>
      BY DEF UsersController
    <3>2. op = "inviteUser" /\ <<"users", "manage">> \in {"users"} \X Verbs
      BY DEF Verbs
    <3> QED BY <2>2, <3>1, <3>2 DEF Asks
  <2> QED BY <2>1, <2>2, <2>3, Routed
<1> QED BY <1>1, <1>2, <1>3, <1>4, <1>5, <1>6, <1>7, <1>8, <1>9, <1>10

\* What a page writes asks for a permission to write in its module, edits in a catalogue.
LEMMA WritersOf ==
  ASSUME NEW p \in DOMAIN Pages
  PROVE  /\ \A op \in Pages[p].calls : Asks(Routes, op, Pages[p].module)
         /\ \A f \in Pages[p].forms : Asks(Routes, Form[f].creates, Pages[p].module)
         /\ Pages[p].module \in Catalogues =>
              \A f \in Pages[p].forms : Asks(Routes, Form[f].edits, Pages[p].module)
<1>1. \/ p = "home" \/ p = "clients" \/ p = "suppliers" \/ p = "products" \/ p = "sales" \/ p = "purchases"
      \/ p = "invoicing" \/ p = "stock" \/ p = "accounting" \/ p = "reports" \/ p = "users"
  BY PageTable
<1>2. CASE p = "home"
  BY <1>2, PageRows DEF Catalogues, None
<1>3. CASE p = "clients"
  <2>1. /\ Pages[p].module = "clients" /\ Pages[p].calls = {"deactivateCustomer"}
        /\ Pages[p].forms = {"customer"}
    BY <1>3, PageRows
  <2> QED BY <2>1, RoutesAsk, FormTable
           DEF Catalogues, CustomerForm
<1>4. CASE p = "suppliers"
  <2>1. /\ Pages[p].module = "suppliers" /\ Pages[p].calls = {"deactivateSupplier"}
        /\ Pages[p].forms = {"supplier"}
    BY <1>4, PageRows
  <2> QED BY <2>1, RoutesAsk, FormTable
           DEF Catalogues, SupplierForm
<1>5. CASE p = "products"
  <2>1. /\ Pages[p].module = "products" /\ Pages[p].calls = {"deactivateProduct"}
        /\ Pages[p].forms = {"product"}
    BY <1>5, PageRows
  <2> QED BY <2>1, RoutesAsk, FormTable
           DEF Catalogues, ProductForm
<1>6. CASE p = "sales"
  <2>1. /\ Pages[p].module = "sales" /\ Pages[p].calls = {"confirmSale", "cancelSale"}
        /\ Pages[p].forms = {"sale"}
    BY <1>6, PageRows
  <2> QED BY <2>1, RoutesAsk, FormTable
           DEF Catalogues, SaleForm
<1>7. CASE p = "purchases"
  <2>1. /\ Pages[p].module = "purchases" /\ Pages[p].calls = {"confirmPurchase", "cancelPurchase"}
        /\ Pages[p].forms = {"purchase"}
    BY <1>7, PageRows
  <2> QED BY <2>1, RoutesAsk, FormTable
           DEF Catalogues, PurchaseForm
<1>8. CASE p = "invoicing"
  <2>1. /\ Pages[p].module = "invoicing" /\ Pages[p].calls = {"markPaid", "voidInvoice"}
        /\ Pages[p].forms = {"invoice"}
    BY <1>8, PageRows
  <2> QED BY <2>1, RoutesAsk, FormTable
           DEF Catalogues, InvoiceForm
<1>9. CASE p = "stock"
  <2>1. /\ Pages[p].module = "stock" /\ Pages[p].calls = {}
        /\ Pages[p].forms = {"movement"}
    BY <1>9, PageRows
  <2> QED BY <2>1, RoutesAsk, FormTable
           DEF Catalogues, StockMovementForm
<1>10. CASE p = "accounting"
  <2>1. /\ Pages[p].module = "accounting" /\ Pages[p].calls = {}
        /\ Pages[p].forms = {"account", "entry"}
    BY <1>10, PageRows
  <2> QED BY <2>1, RoutesAsk, FormTable
           DEF Catalogues, AccountForm, JournalEntryForm
<1>11. CASE p = "reports"
  BY <1>11, PageRows DEF Catalogues, None
<1>12. CASE p = "users"
  <2>1. /\ Pages[p].module = "users" /\ Pages[p].calls = {}
        /\ Pages[p].forms = {"user"}
    BY <1>12, PageRows
  <2> QED BY <2>1, RoutesAsk, FormTable
           DEF Catalogues, InviteUserForm
<1> QED BY <1>1, <1>2, <1>3, <1>4, <1>5, <1>6, <1>7, <1>8, <1>9, <1>10, <1>11, <1>12

-----------------------------------------------------------------------------
(* Types.                                                                  *)

Chosen == Items \cup {None}

Accounts == Roles \cup {None}

AllKeys == [query : Queries, of : Filters \cup Chosen \cup {"picker"}]

Readings ==
  [rows : SUBSET Items, active : SUBSET Items, misses : SUBSET Nat, late : SUBSET Nat,
   by : Accounts]

Answers == {a \in Readings : a.late \subseteq a.misses}

Entries ==
  [has : BOOLEAN, data : Answers, failed : BOOLEAN,
   fetch : {None, "paused", "asked", "read"}, read : Answers]

Tabs ==
  [filter : Filters, last : SUBSET AllKeys, selected : Chosen, asking : Chosen, editing : Chosen,
   holds : Chosen, typed : SUBSET DOMAIN Form]

Ops == Calls \cup {Form[f].creates : f \in DOMAIN Form} \cup {Form[f].edits : f \in DOMAIN Form}

Saves ==
  [form : DOMAIN Form \cup {None}, op : Ops, row : Chosen, meant : Chosen, holds : Chosen,
   on : DOMAIN Pages, role : Accounts, here : BOOLEAN,
   state : {"paused", "sent", "applied", "done", "refused", "lost"}]

Typed ==
  /\ start \in Starts /\ session \in Accounts /\ page \in DOMAIN Pages
  /\ tab \in Tabs /\ tab.last \subseteq DOMAIN cache
  /\ cache \in [DOMAIN cache -> Entries] /\ DOMAIN cache \subseteq AllKeys
  /\ Mounted \subseteq DOMAIN cache
  /\ open \subseteq Items /\ content \in [Items -> Chosen]
  /\ writes \in Seq(Saves)
  /\ online \in BOOLEAN /\ faults \in Nat /\ gestures \in Nat

LEMMA NothingIsAnAnswer ==
  /\ Nothing \in Answers /\ Nothing.misses = {} /\ Nothing.late = {}
  /\ NoData \in Entries /\ NoData.data = Nothing /\ NoData.read = Nothing
  /\ NoData.fetch = None /\ NoData.has = FALSE /\ NoData.failed = FALSE
<1>1. Nothing \in Answers /\ Nothing.misses = {} /\ Nothing.late = {}
  BY DEF Nothing, Answers, Readings, Accounts
<1> QED BY <1>1 DEF NoData, Entries

LEMMA FetchingEntry ==
  ASSUME NEW c \in Entries, NEW who \in Accounts
  PROVE  /\ Fetching(c, who) \in Entries
         /\ Fetching(c, who).fetch \in {"asked", "paused"}
         /\ Fetching(c, who).read.misses = {} /\ Fetching(c, who).data = c.data
         /\ Fetching(c, who).has = c.has
<1>1. PICK a : a = [Nothing EXCEPT !.by = who]
  OBVIOUS
<1>2. a \in Answers /\ a.misses = {}
  BY <1>1 DEF Nothing, Answers, Readings
<1>3. PICK b \in BOOLEAN : b = (c.failed /\ c.has)
  OBVIOUS
<1>4. Fetching(c, who) = [c EXCEPT !.fetch = IF online THEN "asked" ELSE "paused",
                                   !.failed = b, !.read = a]
  BY <1>1, <1>3 DEF Fetching, Entries
<1> QED BY <1>2, <1>4 DEF Entries

LEMMA Snapshots ==
  ASSUME open \subseteq Items, NEW k, NEW who \in Accounts
  PROVE  Snapshot(k, who) \in Answers /\ Snapshot(k, who).misses = {}
<1>1. PICK kept : kept = Matching(k.of)
  OBVIOUS
<1>2. kept \subseteq Items
  BY <1>1 DEF Matching
<1> QED BY <1>1, <1>2 DEF Snapshot, Nothing, Answers, Readings

\* The keys that a page observes are of its queries.
LEMMA PageKeys ==
  ASSUME NEW p \in DOMAIN Pages, NEW t \in Tabs
  PROVE  Keys(p, t) \subseteq AllKeys /\ \A k \in Keys(p, t) : k.query \in Seen(p)
<1>1. Seen(p) \subseteq Queries
  BY PageFacts
<1>2. t.filter \in Filters /\ t.selected \in Chosen
  BY DEF Tabs
<1>3. ASSUME NEW k \in Keys(p, t)
      PROVE  k \in AllKeys /\ k.query \in Seen(p)
  <2>1. CASE k \in {[query |-> q, of |-> t.filter] : q \in Pages[p].shows}
    BY <1>1, <1>2, <2>1 DEF Seen, AllKeys
  <2>2. CASE k \in {[query |-> q, of |-> "picker"] : q \in Pages[p].picks}
    BY <1>1, <2>2 DEF Seen, AllKeys
  <2>3. CASE k \in {[query |-> q, of |-> t.selected] :
                      q \in IF t.selected = None THEN {} ELSE Pages[p].detail}
    BY <1>1, <1>2, <2>3 DEF Seen, AllKeys
  <2> QED BY <1>3, <2>1, <2>2, <2>3 DEF Keys
<1> QED BY <1>3

LEMMA ContextKey ==
  Context \in AllKeys /\ Context.query = "context" /\ Query["context"].reads = {}
BY QueryNames, QueryTable DEF Context, AllKeys, Filters, UseMyContext

LEMMA BlankTab ==
  ASSUME NEW p \in DOMAIN Pages
  PROVE  /\ Blank(p) \in Tabs /\ Blank(p).filter = First(p) /\ Blank(p).typed = {}
         /\ Blank(p).last = {} /\ Blank(p).selected = None /\ Blank(p).asking = None
         /\ Blank(p).editing = None /\ Blank(p).holds = None
BY PageFacts DEF Blank, Tabs, Chosen

LEMMA BoundSave ==
  ASSUME Typed, NEW v \in Saves
  PROVE  /\ Bound(v) \in Saves
         /\ Bound(v) = v \/ (v.state = "paused" /\ v.here /\ v.form # None /\ Editable)
         /\ Bound(v).form = v.form /\ Bound(v).meant = v.meant /\ Bound(v).holds = v.holds
         /\ Bound(v).on = v.on /\ Bound(v).role = v.role /\ Bound(v).here = v.here
         /\ Bound(v).state = v.state
         /\ Bound(v).op \in {v.op, Form[v.form].creates, Form[v.form].edits}
<1>1. CASE ~(v.state = "paused" /\ v.here /\ v.form # None /\ Editable)
  BY <1>1 DEF Bound
<1>2. CASE v.state = "paused" /\ v.here /\ v.form # None /\ Editable
  <2>1. PICK op : /\ op = IF tab.editing = None THEN Form[v.form].creates ELSE Form[v.form].edits
                  /\ Bound(v) = [v EXCEPT !.row = tab.editing, !.op = op]
    BY <1>2 DEF Bound
  <2>2. op \in Ops /\ tab.editing \in Chosen
    BY <1>2, <2>1 DEF Typed, Tabs, Saves, Ops
  <2> QED BY <1>2, <2>1, <2>2 DEF Saves
<1> QED BY <1>1, <1>2

\* A function on the places of a sequence is a sequence.
LEMMA Remapped ==
  ASSUME NEW S, NEW s \in Seq(S), NEW f \in [DOMAIN s -> S]
  PROVE  f \in Seq(S) /\ Len(f) = Len(s) /\ DOMAIN f = DOMAIN s
<1>1. Len(s) \in Nat /\ DOMAIN s = 1..Len(s)
  OBVIOUS
<1>2. f \in [1..Len(s) -> S]
  BY <1>1
<1>3. f \in Seq(S)
  BY <1>1, <1>2, SeqDef
<1> QED BY <1>1, <1>2, <1>3

-----------------------------------------------------------------------------
(* The inductive invariants.                                               *)

\* A form that edits a row holds the values of that row; only a catalogue edits.
TabInv ==
  /\ session = None => page = "home"
  /\ tab.filter \in Pages[page].filters /\ tab.typed \subseteq Pages[page].forms
  /\ tab.holds = tab.editing
  /\ tab.editing # None => Editable

Applied == {"applied", "done", "lost"}

May(role, module) ==
  \E verb \in Verbs : <<module, verb>> \in DEFAULT_ROLE_PERMISSIONS[role]

\* A write comes from a form or a button of its page, which is the page shown, p, as long as
\* its component is there, and has been allowed once applied.
SaveInv(v, p) ==
  /\ v.form # None => v.form \in Pages[v.on].forms /\ v.holds = v.meant
  /\ v.form = None => Pages[v.on].calls # {}
  /\ Asks(Routes, v.op, Pages[v.on].module)
  /\ v.here => v.on = p
  /\ v.state \in Applied => May(v.role, Pages[v.on].module)

WritesInv == \A w \in DOMAIN writes : SaveInv(writes[w], page)

\* RowsKeepTheirValues, of writes whose row is settled.
ContentInv ==
  \A i \in Items :
    \/ content[i] = i
    \/ \E w \in DOMAIN writes :
         writes[w].state # "paused" /\ writes[w].row = i /\ writes[w].meant # i

Misses(c) == c.data.misses \cup c.read.misses

\* What a query misses may have been changed by those writes.
MissesInv ==
  \A x \in DOMAIN cache : \A w \in Misses(cache[x]) :
    w \in DOMAIN writes /\ Query[x.query].reads \cap ChangedBy(writes[w]) # {}

\* A fetch that misses a write which has invalidated its key has joined it; data that misses it
\* and that a page of the write shows has failed, was so joined, or is read again since.
ShownInv ==
  \A x \in DOMAIN cache : \A w \in Misses(cache[x]) :
    writes[w].state = "done" /\ x.query \in Seen(writes[w].on) =>
      /\ w \in cache[x].read.misses => w \in cache[x].read.late
      /\ w \in cache[x].data.misses /\ x \in Mounted =>
           cache[x].failed \/ w \in cache[x].data.late \/ cache[x].fetch # None

\* Until a first answer there is no data.
DataInv == \A x \in DOMAIN cache : ~cache[x].has => cache[x].data = Nothing

LEMMA TypedInit ==
  Init => Typed /\ DataInv /\ \A x \in DOMAIN cache : cache[x].fetch = None /\ Misses(cache[x]) = {}
<1> SUFFICES ASSUME Init
             PROVE  /\ Typed /\ DataInv
                    /\ \A x \in DOMAIN cache : cache[x].fetch = None /\ Misses(cache[x]) = {}
  OBVIOUS
<1>1. /\ start \in Starts /\ session \in Roles /\ page \in DOMAIN Pages /\ start.role \in Roles
      /\ tab = Blank(page) /\ tab \in Tabs /\ tab.last = {}
  BY StartsAssumption, BlankTab DEF Init, Roles
<1>2. /\ open \subseteq Items /\ content \in [Items -> Chosen] /\ writes = <<>>
      /\ online \in BOOLEAN /\ faults \in Nat /\ gestures \in Nat
  BY DEF Init, Chosen
<1>3. DOMAIN cache = Mounted
  BY DEF Init
<1>4. Mounted \subseteq AllKeys
  BY <1>1, PageKeys, ContextKey DEF Mounted
<1>5. ASSUME NEW x \in DOMAIN cache
      PROVE  /\ cache[x] \in Entries /\ (~cache[x].has => cache[x].data = Nothing)
             /\ cache[x].fetch = None /\ Misses(cache[x]) = {}
  <2>1. PICK a : a = Snapshot(x, start.role)
    OBVIOUS
  <2>2. a \in Answers /\ a.misses = {}
    BY <1>1, <1>2, <2>1, Snapshots DEF Accounts
  <2>3. \/ cache[x] = [NoData EXCEPT !.has = TRUE, !.data = a]
        \/ cache[x] = [NoData EXCEPT !.failed = TRUE]
    BY <1>3, <2>1 DEF Init
  <2>4. CASE cache[x] = [NoData EXCEPT !.has = TRUE, !.data = a]
    <3>1. /\ cache[x] \in Entries /\ cache[x].has = TRUE /\ cache[x].data = a
          /\ cache[x].fetch = None /\ cache[x].read = Nothing
      BY <2>2, <2>4, NothingIsAnAnswer DEF Entries
    <3> QED BY <2>2, <3>1, NothingIsAnAnswer DEF Misses
  <2>5. CASE cache[x] = [NoData EXCEPT !.failed = TRUE]
    <3>1. /\ cache[x] \in Entries /\ cache[x].data = Nothing
          /\ cache[x].fetch = None /\ cache[x].read = Nothing
      BY <2>5, NothingIsAnAnswer DEF Entries
    <3> QED BY <3>1, NothingIsAnAnswer DEF Misses
  <2> QED BY <2>3, <2>4, <2>5
<1>6. cache \in [DOMAIN cache -> Entries]
  <2>1. PICK ks : ks = DOMAIN cache
    OBVIOUS
  <2>2. cache = [x \in ks |-> cache[x]]
    BY <2>1 DEF Init
  <2> QED BY <1>5, <2>1, <2>2
<1>7. writes \in Seq(Saves)
  BY <1>2
<1> QED BY <1>1, <1>2, <1>3, <1>4, <1>5, <1>6, <1>7 DEF Typed, Accounts, DataInv

-----------------------------------------------------------------------------
(* What a step does to the tab, to a write and to a query.                 *)

\* A list that has rows keeps them until the ones of the new filter are there.
LEMMA FilterTab ==
  ASSUME Typed, NEW f \in Filters, Filter(f)
  PROVE  /\ tab' \in Tabs /\ tab'.filter = f /\ tab'.last \subseteq DOMAIN cache
         /\ tab'.typed = tab.typed /\ tab'.holds = tab.holds /\ tab'.editing = tab.editing
<1>1. PICK last : /\ last = IF HasRows THEN {ListKey} ELSE tab.last
                  /\ tab' = [tab EXCEPT !.filter = f, !.last = last] /\ session # None
  <2>1. tab' = [tab EXCEPT !.filter = f, !.last = IF HasRows THEN {ListKey} ELSE tab.last]
    BY DEF Filter, Rekey, Local, Typed, Tabs
  <2> QED BY <2>1 DEF Filter
<1>2. last \subseteq DOMAIN cache
  <2>1. CASE HasRows
    <3>1. Pages[page].list \in Pages[page].shows
      BY <2>1, PageFacts DEF HasRows, Typed
    <3>2. ListKey \in Mounted
      BY <1>1, <3>1 DEF ListKey, Keys, Mounted
    <3> QED BY <1>1, <2>1, <3>2 DEF Typed
  <2> QED BY <1>1, <2>1 DEF Typed
<1>3. last \subseteq AllKeys
  BY <1>2 DEF Typed
<1> QED BY <1>1, <1>2, <1>3 DEF Typed, Tabs

LEMMA TabNext ==
  ASSUME Typed, TabInv, WritesInv, [Next]_vars
  PROVE  /\ tab' \in Tabs /\ page' \in DOMAIN Pages /\ session' \in Accounts /\ TabInv'
         /\ tab'.last \subseteq DOMAIN cache
<1> DEFINE Kept == /\ tab' \in Tabs /\ page' \in DOMAIN Pages /\ session' \in Accounts /\ TabInv'
                /\ tab'.last \subseteq DOMAIN cache
<1>1. ASSUME NEW p \in DOMAIN Pages, NEW who \in Accounts, who = None => p = "home",
             Leave(p, who)
      PROVE  Kept
  <2>1. page' = p /\ session' = who /\ tab' = Blank(p)
    BY <1>1 DEF Leave
  <2> QED BY <1>1, <2>1, BlankTab, PageFacts DEF TabInv
<1>2. ASSUME UNCHANGED <<session, page, tab>>
      PROVE  Kept
  BY <1>2 DEF Typed, TabInv, Editable
<1>3. ASSUME NEW p \in DOMAIN Pages, Go(p)
      PROVE  Kept
  <2>1. Leave(p, session) /\ session # None
    BY <1>3 DEF Go
  <2> QED BY <1>1, <2>1 DEF Typed
<1>4. CASE Logout
  <2>1. Leave("home", None)
    BY <1>4 DEF Logout
  <2> QED BY <1>1, <2>1, PageTable DEF Accounts
<1>5. ASSUME NEW role \in Roles, Login(role)
      PROVE  Kept
  BY <1>5 DEF Login, Typed, TabInv, Editable, Accounts
<1>6. ASSUME NEW f \in Filters, Filter(f)
      PROVE  Kept
  <2>1. f \in Pages[page].filters /\ UNCHANGED <<session, page>>
    BY <1>6 DEF Filter, Rekey, Local
  <2> QED BY <1>6, <2>1, FilterTab DEF Typed, TabInv, Editable
<1>7. ASSUME NEW i \in Items, Show(i) \/ Ask(i)
      PROVE  Kept
  <2>1. /\ tab' = [tab EXCEPT !.selected = i] \/ tab' = [tab EXCEPT !.asking = i]
        /\ UNCHANGED <<session, page>>
    BY <1>7 DEF Show, Ask, Rekey, Local
  <2>2. /\ tab' \in Tabs
        /\ tab'.filter = tab.filter /\ tab'.last = tab.last /\ tab'.typed = tab.typed
        /\ tab'.holds = tab.holds /\ tab'.editing = tab.editing
    BY <2>1 DEF Typed, Tabs, Chosen
  <2> QED BY <2>1, <2>2 DEF Typed, TabInv, Editable
<1>8. CASE Renounce
  <2>1. tab' = [tab EXCEPT !.asking = None] /\ UNCHANGED <<session, page>>
    BY <1>8 DEF Renounce, Local
  <2>2. /\ tab' \in Tabs
        /\ tab'.filter = tab.filter /\ tab'.last = tab.last /\ tab'.typed = tab.typed
        /\ tab'.holds = tab.holds /\ tab'.editing = tab.editing
    BY <2>1 DEF Typed, Tabs, Chosen
  <2> QED BY <2>1, <2>2 DEF Typed, TabInv, Editable
<1>9. ASSUME NEW i \in Chosen, tab' = [tab EXCEPT !.editing = i, !.holds = i, !.typed = {}],
             UNCHANGED <<session, page>>, i = None \/ Editable
      PROVE  Kept
  <2>1. /\ tab' \in Tabs
        /\ tab'.filter = tab.filter /\ tab'.last = tab.last /\ tab'.typed = {} /\ tab'.holds = i /\ tab'.editing = i
    BY <1>9 DEF Typed, Tabs, Chosen
  <2> QED BY <1>9, <2>1 DEF Typed, TabInv, Editable
<1>10. ASSUME NEW i \in Items, Modify(i)
       PROVE  Kept
  BY <1>9, <1>10 DEF Modify, Local, Chosen
<1>11. CASE CancelEdit
  BY <1>9, <1>11 DEF CancelEdit, Local, Chosen
<1>12. ASSUME NEW f \in DOMAIN Form, Type(f)
       PROVE  Kept
  <2>1. /\ f \in Pages[page].forms /\ tab' = [tab EXCEPT !.typed = @ \cup {f}]
        /\ UNCHANGED <<session, page>>
    BY <1>12 DEF Type, Local
  <2>2. /\ tab' \in Tabs
        /\ tab'.filter = tab.filter /\ tab'.last = tab.last /\ tab'.typed = tab.typed \cup {f}
        /\ tab'.holds = tab.holds /\ tab'.editing = tab.editing
    BY <2>1 DEF Typed, Tabs, Chosen
  <2> QED BY <2>1, <2>2 DEF Typed, TabInv, Editable
<1>13. ASSUME NEW w \in DOMAIN writes, Acknowledge(w)
       PROVE  Kept
  <2>1. UNCHANGED <<session, page>>
    BY <1>13 DEF Acknowledge
  <2>2. CASE tab' = tab
    BY <1>2, <2>1, <2>2
  <2>3. CASE tab' = [tab EXCEPT !.asking = None]
    <3>1. /\ tab' \in Tabs
          /\ tab'.filter = tab.filter /\ tab'.last = tab.last /\ tab'.typed = tab.typed
          /\ tab'.holds = tab.holds /\ tab'.editing = tab.editing
      BY <2>3 DEF Typed, Tabs, Chosen
    <3> QED BY <2>1, <3>1 DEF Typed, TabInv, Editable
  <2>4. CASE tab' = [tab EXCEPT !.typed = @ \ {writes[w].form}, !.editing = None, !.holds = None]
    <3>1. /\ tab' \in Tabs
          /\ tab'.filter = tab.filter /\ tab'.last = tab.last /\ tab'.typed = tab.typed \ {writes[w].form}
          /\ tab'.holds = None /\ tab'.editing = None
      BY <2>4 DEF Typed, Tabs, Chosen
    <3> QED BY <2>1, <3>1 DEF Typed, TabInv, Editable
  <2> QED BY <1>13, <2>2, <2>3, <2>4 DEF Acknowledge
<1>14. ASSUME NEW f \in DOMAIN Form, Submit(f)
       PROVE  Kept
  BY <1>2, <1>14 DEF Submit, Local
<1>15. ASSUME NEW op \in Calls, NEW i \in Items, Press(op, i)
       PROVE  Kept
  BY <1>2, <1>15 DEF Press, Local
<1>16. ASSUME NEW w \in DOMAIN writes, Apply(w) \/ Refuse(w) \/ Lose(w)
       PROVE  Kept
  BY <1>2, <1>16 DEF Apply, Refuse, Lose
<1>17. CASE Focus \/ Disconnect \/ Reconnect \/ UNCHANGED vars
  BY <1>2, <1>17 DEF Focus, Disconnect, Reconnect, Local, vars
<1>18. ASSUME NEW x \in DOMAIN cache, Answer(x) \/ Receive(x) \/ Deny(x) \/ FailToFetch(x)
       PROVE  Kept
  BY <1>2, <1>18 DEF Answer, Receive, Deny, FailToFetch
<1> QED BY <1>3, <1>4, <1>5, <1>6, <1>7, <1>8, <1>10, <1>11, <1>12, <1>13, <1>14, <1>15, <1>16,
           <1>17, <1>18 DEF Next, Roles, Filters

\* What a step keeps of a write.
SaveMove(w) ==
  /\ w \in DOMAIN writes'
  /\ writes'[w].form = writes[w].form /\ writes'[w].on = writes[w].on
  /\ writes'[w].meant = writes[w].meant
  /\ writes[w].state # "paused" =>
       writes'[w].state # "paused" /\ writes'[w].row = writes[w].row
  /\ writes[w].state = "done" => writes'[w].state = "done"
  /\ writes'[w].state = "done" => writes[w].state = "done" \/ Acknowledge(w)

WritesStep ==
  /\ writes' \in Seq(Saves)
  /\ \A w \in DOMAIN writes' : SaveInv(writes'[w], page')
  /\ \A w \in DOMAIN writes : SaveMove(w)

LEMMA MayWrite ==
  ASSUME NEW op, NEW role, NEW module, Asks(Routes, op, module), Allowed(op, role)
  PROVE  May(role, module)
<1>1. Routes[op].needs = Open \/ Routes[op].needs \in DEFAULT_ROLE_PERMISSIONS[role]
  BY DEF Allowed, CanActivate, PermissionsGuard
<1>2. PICK verb \in Verbs : Routes[op].needs = <<module, verb>>
  BY DEF Asks
<1>3. verb # ""
  BY DEF Verbs
<1>4. Routes[op].needs # Open
  <2>1. <<module, verb>>[2] = verb /\ <<"", "">>[2] = ""
    OBVIOUS
  <2>2. <<module, verb>> # <<"", "">>
    BY <1>3, <2>1
  <2> QED BY <1>2, <2>2 DEF Open
<1> QED BY <1>1, <1>2, <1>4 DEF May

LEMMA BoundKeeps ==
  ASSUME Typed, NEW v \in Saves, SaveInv(v, page)
  PROVE  SaveInv(Bound(v), page)
<1>1. CASE Bound(v) = v
  BY <1>1 DEF SaveInv
<1>2. CASE v.state = "paused" /\ v.here /\ v.form # None /\ Editable
  <2>1. v.on = page /\ v.on \in DOMAIN Pages /\ v.form \in Pages[v.on].forms
        /\ Pages[v.on].module \in Catalogues
    BY <1>2 DEF SaveInv, Editable, Catalogues, Saves
  <2>2. Asks(Routes, Bound(v).op, Pages[v.on].module)
    BY <2>1, BoundSave, WritersOf DEF SaveInv
  <2> QED BY <1>2, <2>2, BoundSave DEF SaveInv, Applied
<1> QED BY <1>1, <1>2, BoundSave

\* A write is answered, refused or lost.
LEMMA StateMoves ==
  ASSUME Typed, WritesInv, NEW w \in DOMAIN writes,
         NEW s \in {"applied", "done", "refused", "lost"},
         writes' = [writes EXCEPT ![w].state = s], page' = page,
         writes[w].state \notin {"paused", "done"},
         s = "done" => Acknowledge(w),
         s \in Applied =>
           writes[w].state \in Applied \/ Allowed(writes[w].op, writes[w].role)
  PROVE  WritesStep
<1>1. writes \in Seq(Saves) /\ writes[w] \in Saves
  BY DEF Typed
<1>2. PICK u : u = [writes[w] EXCEPT !.state = s]
  OBVIOUS
<1>3. /\ u \in Saves /\ u.state = s /\ u.form = writes[w].form /\ u.on = writes[w].on
      /\ u.meant = writes[w].meant /\ u.row = writes[w].row /\ u.holds = writes[w].holds
      /\ u.op = writes[w].op /\ u.here = writes[w].here /\ u.role = writes[w].role
  BY <1>1, <1>2 DEF Saves
<1>4. writes' = [writes EXCEPT ![w] = u]
  BY <1>2
<1>5. writes' \in Seq(Saves) /\ DOMAIN writes' = DOMAIN writes
  BY <1>1, <1>3, <1>4
<1>6. writes'[w] = u /\ \A y \in DOMAIN writes \ {w} : writes'[y] = writes[y]
  BY <1>1, <1>4
<1>7. SaveInv(writes[w], page)
  BY DEF WritesInv
<1>8. s \in Applied => May(u.role, Pages[u.on].module)
  BY <1>3, <1>7, MayWrite DEF SaveInv
<1>9. SaveInv(u, page)
  BY <1>3, <1>7, <1>8 DEF SaveInv
<1>10. SaveMove(w)
  BY <1>3, <1>5, <1>6 DEF SaveMove
<1>11. ASSUME NEW y \in DOMAIN writes, y # w
       PROVE  SaveMove(y) /\ SaveInv(writes'[y], page')
  BY <1>5, <1>6, <1>11 DEF SaveMove, WritesInv
<1> QED BY <1>5, <1>6, <1>9, <1>10, <1>11 DEF WritesStep

\* The page is left, or the network is back: no write changes but for what it is bound to.
LEMMA AllMove ==
  ASSUME Typed, WritesInv, NEW f \in [DOMAIN writes -> Saves], writes' = f,
         \A w \in DOMAIN writes :
           /\ SaveInv(f[w], page')
           /\ f[w].form = writes[w].form /\ f[w].on = writes[w].on /\ f[w].meant = writes[w].meant
           /\ writes[w].state # "paused" => f[w].row = writes[w].row
           /\ f[w].state # writes[w].state => writes[w].state = "paused" /\ f[w].state = "sent"
  PROVE  WritesStep
<1>1. writes \in Seq(Saves)
  BY DEF Typed
<1>2. writes' \in Seq(Saves) /\ DOMAIN writes' = DOMAIN writes
  BY <1>1, Remapped
<1> QED BY <1>2 DEF WritesStep, SaveMove

LEMMA SendMoves ==
  ASSUME Typed, TabInv, WritesInv, session # None, page' = page,
         NEW form \in DOMAIN Form \cup {None}, NEW op \in Ops, NEW row \in Chosen,
         form # None => form \in Pages[page].forms /\ row = tab.editing,
         form = None => Pages[page].calls # {},
         Asks(Routes, op, Pages[page].module), Send(form, op, row)
  PROVE  WritesStep
<1>1. writes \in Seq(Saves)
  BY DEF Typed
<1>2. PICK u : /\ u = [form |-> form, op |-> op, row |-> row, meant |-> row,
                       holds |-> tab.holds, on |-> page, role |-> session, here |-> TRUE,
                       state |-> IF online THEN "sent" ELSE "paused"]
               /\ writes' = Append(writes, u)
  BY DEF Send
<1>3. u \in Saves
  BY <1>2 DEF Saves, Typed, Tabs
<1>4. SaveInv(u, page)
  BY <1>2 DEF SaveInv, TabInv, Applied
<1>5. /\ writes' \in Seq(Saves) /\ DOMAIN writes' = 1..(Len(writes) + 1)
      /\ DOMAIN writes = 1..Len(writes) /\ Len(writes) \in Nat
      /\ \A y \in DOMAIN writes : writes'[y] = writes[y]
      /\ writes'[Len(writes) + 1] = u
  BY <1>1, <1>2, <1>3
<1>6. \A y \in DOMAIN writes' : y \in DOMAIN writes \/ y = Len(writes) + 1
  BY <1>5
<1>7. DOMAIN writes \subseteq DOMAIN writes'
  BY <1>5
<1> QED BY <1>4, <1>5, <1>6, <1>7 DEF WritesStep, SaveMove, WritesInv

LEMMA WritesNext ==
  ASSUME Typed, TabInv, WritesInv, [Next]_vars
  PROVE  WritesStep
<1>0. writes \in Seq(Saves) /\ \A w \in DOMAIN writes : writes[w] \in Saves
  BY DEF Typed
<1>1. ASSUME writes' = writes, page' = page
      PROVE  WritesStep
  BY <1>0, <1>1 DEF WritesStep, WritesInv, SaveMove
<1>2. ASSUME NEW p, NEW who, Leave(p, who)
      PROVE  WritesStep
  <2>1. PICK f : /\ f = [w \in DOMAIN writes |-> [Bound(writes[w]) EXCEPT !.here = FALSE]]
                 /\ writes' = f
    BY <1>2 DEF Leave
  <2>2. ASSUME NEW w \in DOMAIN writes
        PROVE  /\ f[w] \in Saves /\ SaveInv(f[w], page') /\ f[w].form = writes[w].form
               /\ f[w].on = writes[w].on /\ f[w].meant = writes[w].meant
               /\ writes[w].state # "paused" => f[w].row = writes[w].row
               /\ f[w].state = writes[w].state
    <3>1. PICK v : v = Bound(writes[w])
      OBVIOUS
    <3>2. v \in Saves /\ SaveInv(v, page)
      BY <1>0, <3>1, BoundSave, BoundKeeps DEF WritesInv
    <3>3. f[w] = [v EXCEPT !.here = FALSE]
      BY <2>1, <3>1
    <3>4. /\ f[w] \in Saves /\ f[w].here = FALSE /\ f[w].form = v.form /\ f[w].on = v.on
          /\ f[w].meant = v.meant /\ f[w].row = v.row /\ f[w].state = v.state
          /\ f[w].op = v.op /\ f[w].holds = v.holds /\ f[w].role = v.role
      BY <3>2, <3>3 DEF Saves
    <3>5. SaveInv(f[w], page')
      BY <3>2, <3>4 DEF SaveInv
    <3>6. /\ v.form = writes[w].form /\ v.on = writes[w].on /\ v.meant = writes[w].meant
          /\ writes[w].state # "paused" => v.row = writes[w].row
          /\ v.state = writes[w].state
      BY <1>0, <3>1, BoundSave
    <3> QED BY <3>4, <3>5, <3>6
  <2>3. f \in [DOMAIN writes -> Saves]
    BY <2>1, <2>2
  <2> QED BY <2>1, <2>2, <2>3, AllMove
<1>3. CASE Reconnect
  <2>1. PICK f : /\ f = [w \in DOMAIN writes |->
                          IF writes[w].state = "paused"
                          THEN [Bound(writes[w]) EXCEPT !.state = "sent"] ELSE writes[w]]
                 /\ writes' = f
    BY <1>3 DEF Reconnect
  <2>2. page' = page
    BY <1>3 DEF Reconnect
  <2>3. ASSUME NEW w \in DOMAIN writes
        PROVE  /\ f[w] \in Saves /\ SaveInv(f[w], page') /\ f[w].form = writes[w].form
               /\ f[w].on = writes[w].on /\ f[w].meant = writes[w].meant
               /\ writes[w].state # "paused" => f[w].row = writes[w].row
               /\ f[w].state # writes[w].state => writes[w].state = "paused" /\ f[w].state = "sent"
    <3>1. CASE writes[w].state # "paused"
      BY <1>0, <2>1, <2>2, <3>1 DEF WritesInv
    <3>2. CASE writes[w].state = "paused"
      <4>1. PICK v : v = Bound(writes[w])
        OBVIOUS
      <4>2. v \in Saves /\ SaveInv(v, page)
        BY <1>0, <4>1, BoundSave, BoundKeeps DEF WritesInv
      <4>3. f[w] = [v EXCEPT !.state = "sent"]
        BY <2>1, <3>2, <4>1
      <4>4. /\ f[w] \in Saves /\ f[w].here = v.here /\ f[w].form = v.form /\ f[w].on = v.on
            /\ f[w].meant = v.meant /\ f[w].row = v.row /\ f[w].state = "sent"
            /\ f[w].op = v.op /\ f[w].holds = v.holds /\ f[w].role = v.role
        BY <4>2, <4>3 DEF Saves
      <4>5. SaveInv(f[w], page')
        BY <2>2, <4>2, <4>4 DEF SaveInv, Applied
      <4>6. v.form = writes[w].form /\ v.on = writes[w].on /\ v.meant = writes[w].meant
        BY <1>0, <4>1, BoundSave
      <4> QED BY <3>2, <4>4, <4>5, <4>6
    <3> QED BY <3>1, <3>2
  <2>4. f \in [DOMAIN writes -> Saves]
    BY <2>1, <2>3
  <2> QED BY <2>1, <2>3, <2>4, AllMove
<1>4. ASSUME NEW p \in DOMAIN Pages, Go(p)
      PROVE  WritesStep
  BY <1>2, <1>4 DEF Go
<1>5. CASE Logout
  BY <1>2, <1>5 DEF Logout
<1>6. ASSUME NEW f \in DOMAIN Form, Submit(f)
      PROVE  WritesStep
  <2>1. PICK op : /\ op = IF tab.editing = None THEN Form[f].creates ELSE Form[f].edits
                  /\ Send(f, op, tab.editing)
    BY <1>6 DEF Submit
  <2>2. f \in Pages[page].forms /\ session # None /\ page' = page
    BY <1>6 DEF Submit, Local
  <2>3. op \in Ops /\ tab.editing \in Chosen
    BY <2>1 DEF Ops, Typed, Tabs
  <2>4. Asks(Routes, op, Pages[page].module)
    <3>1. tab.editing # None => Pages[page].module \in Catalogues
      BY DEF TabInv, Editable, Catalogues
    <3> QED BY <2>1, <2>2, <3>1, WritersOf DEF Typed
  <2>5. f # None
    BY FormTable DEF None
  <2> QED BY <2>1, <2>2, <2>3, <2>4, <2>5, SendMoves
<1>7. ASSUME NEW op \in Calls, NEW i \in Items, Press(op, i)
      PROVE  WritesStep
  <2>1. op \in Pages[page].calls /\ session # None /\ page' = page /\ Send(None, op, i)
    BY <1>7 DEF Press, Local
  <2>2. Asks(Routes, op, Pages[page].module)
    BY <2>1, WritersOf DEF Typed
  <2>3. op \in Ops /\ i \in Chosen
    BY DEF Ops, Chosen
  <2> QED BY <2>1, <2>2, <2>3, SendMoves
<1>8. ASSUME NEW w \in DOMAIN writes, Apply(w)
      PROVE  WritesStep
  <2>1. /\ writes' = [writes EXCEPT ![w].state = "applied"] /\ page' = page
        /\ writes[w].state = "sent" /\ Allowed(writes[w].op, writes[w].role)
    BY <1>8 DEF Apply
  <2> QED BY <2>1, StateMoves
<1>9. ASSUME NEW w \in DOMAIN writes, Acknowledge(w)
      PROVE  WritesStep
  <2>1. /\ writes' = [writes EXCEPT ![w].state = "done"] /\ page' = page
        /\ writes[w].state = "applied"
    BY <1>9 DEF Acknowledge
  <2> QED BY <1>9, <2>1, StateMoves DEF Applied
<1>10. ASSUME NEW w \in DOMAIN writes, Refuse(w)
       PROVE  WritesStep
  <2>1. /\ writes' = [writes EXCEPT ![w].state = "refused"] /\ page' = page
        /\ writes[w].state = "sent"
    BY <1>10 DEF Refuse
  <2> QED BY <2>1, StateMoves DEF Applied
<1>11. ASSUME NEW w \in DOMAIN writes, Lose(w)
       PROVE  WritesStep
  <2>1. /\ writes' = [writes EXCEPT ![w].state = IF @ = "sent" THEN "refused" ELSE "lost"]
        /\ page' = page /\ writes[w].state \in {"sent", "applied"}
    BY <1>11 DEF Lose
  <2>2. CASE writes[w].state = "sent"
    <3>1. writes' = [writes EXCEPT ![w].state = "refused"]
      BY <1>0, <2>1, <2>2
    <3> QED BY <2>1, <2>2, <3>1, StateMoves DEF Applied
  <2>3. CASE writes[w].state = "applied"
    <3>1. writes' = [writes EXCEPT ![w].state = "lost"]
      BY <1>0, <2>1, <2>3
    <3> QED BY <2>1, <2>3, <3>1, StateMoves DEF Applied
  <2> QED BY <2>1, <2>2, <2>3
<1>12. ASSUME NEW i \in Items, Show(i) \/ Modify(i) \/ Ask(i)
       PROVE  WritesStep
  BY <1>1, <1>12 DEF Show, Modify, Ask, Rekey, Local
<1>13. ASSUME NEW f, Filter(f) \/ Type(f) \/ Login(f)
       PROVE  WritesStep
  BY <1>1, <1>13 DEF Filter, Type, Login, Rekey, Local
<1>14. CASE Focus \/ CancelEdit \/ Renounce \/ Disconnect \/ UNCHANGED vars
  BY <1>1, <1>14 DEF Focus, CancelEdit, Renounce, Disconnect, Local, vars
<1>15. ASSUME NEW x \in DOMAIN cache, Answer(x) \/ Receive(x) \/ Deny(x) \/ FailToFetch(x)
       PROVE  WritesStep
  BY <1>1, <1>15 DEF Answer, Receive, Deny, FailToFetch
<1> QED BY <1>3, <1>4, <1>5, <1>6, <1>7, <1>8, <1>9, <1>10, <1>11, <1>12, <1>13, <1>14, <1>15
        DEF Next

\* RowsKeepTheirValues, through a write that is applied to another row than it was meant for.
LEMMA ContentNext ==
  ASSUME Typed, WritesInv, ContentInv, WritesStep, [Next]_vars
  PROVE  ContentInv' /\ content' \in [Items -> Chosen] /\ open' \subseteq Items
<1>1. ASSUME content' = content, open' = open
      PROVE  ContentInv' /\ content' \in [Items -> Chosen] /\ open' \subseteq Items
  BY <1>1 DEF ContentInv, WritesStep, SaveMove, Typed
<1>2. ASSUME NEW w \in DOMAIN writes, Apply(w)
      PROVE  ContentInv' /\ content' \in [Items -> Chosen] /\ open' \subseteq Items
  <2>1. /\ writes[w] \in Saves /\ SaveInv(writes[w], page)
        /\ writes \in Seq(Saves) /\ content \in [Items -> Chosen]
    BY DEF Typed, WritesInv
  <2>2. /\ open' = IF writes[w].form = None THEN open \ {writes[w].row} ELSE open
        /\ content' = IF writes[w].form # None /\ writes[w].row # None
                      THEN [content EXCEPT ![writes[w].row] = writes[w].holds] ELSE content
        /\ writes' = [writes EXCEPT ![w].state = "applied"]
    BY <1>2 DEF Apply
  <2>0. open' \subseteq Items
    BY <2>2 DEF Typed
  <2>3. CASE content' = content
    <3>1. ContentInv'
      BY <2>3 DEF ContentInv, WritesStep, SaveMove
    <3> QED BY <2>0, <2>1, <2>3, <3>1
  <2>4. CASE writes[w].form # None /\ writes[w].row # None
    <3>1. PICK i \in Items : i = writes[w].row
      BY <2>1, <2>4 DEF Saves, Chosen
    <3>2. /\ content'[i] = writes[w].holds /\ writes[w].holds = writes[w].meant
          /\ writes[w].meant \in Chosen
      BY <2>1, <2>2, <2>4, <3>1 DEF SaveInv, Saves
    <3>3. \A j \in Items \ {i} : content'[j] = content[j]
      BY <2>1, <2>2, <2>4, <3>1
    <3>4. w \in DOMAIN writes' /\ writes'[w] = [writes[w] EXCEPT !.state = "applied"]
      BY <2>1, <2>2
    <3>5. /\ writes'[w].state = "applied" /\ writes'[w].row = i
          /\ writes'[w].meant = writes[w].meant
      BY <2>1, <3>1, <3>4 DEF Saves
    <3>6. ASSUME NEW j \in Items
          PROVE  \/ content'[j] = j
                 \/ \E y \in DOMAIN writes' :
                      /\ writes'[y].state # "paused" /\ writes'[y].row = j
                      /\ writes'[y].meant # j
      <4>1. CASE j = i
        BY <3>2, <3>4, <3>5, <4>1
      <4>2. CASE j # i /\ content[j] = j
        BY <3>3, <4>2
      <4>3. CASE j # i /\ content[j] # j
        BY <4>3 DEF ContentInv, WritesStep, SaveMove
      <4> QED BY <4>1, <4>2, <4>3
    <3>7. content' \in [Items -> Chosen]
      BY <2>1, <2>2, <2>4, <3>1, <3>2
    <3> QED BY <2>0, <3>6, <3>7 DEF ContentInv
  <2> QED BY <2>2, <2>3, <2>4
<1>3. ASSUME Gesture
      PROVE  content' = content /\ open' = open
  BY <1>3 DEF Gesture, rows
<1>4. CASE \E p \in DOMAIN Pages : Go(p)
  BY <1>1, <1>3, <1>4 DEF Go
<1>5. CASE \E role : Login(role) \/ Filter(role)
  BY <1>1, <1>3, <1>5 DEF Login, Filter
<1>6. CASE \E i : Show(i) \/ Modify(i) \/ Ask(i) \/ Type(i) \/ Submit(i)
  BY <1>1, <1>3, <1>6 DEF Show, Modify, Ask, Type, Submit
<1>7. CASE Logout \/ Focus \/ CancelEdit \/ Renounce \/ (\E op, i : Press(op, i))
  BY <1>1, <1>3, <1>7 DEF Logout, Focus, CancelEdit, Renounce, Press
<1>8. CASE \E w \in DOMAIN writes : Acknowledge(w) \/ Refuse(w) \/ Lose(w)
  BY <1>1, <1>8 DEF Acknowledge, Refuse, Lose, rows
<1>9. CASE Disconnect \/ Reconnect \/ UNCHANGED vars
  BY <1>1, <1>9 DEF Disconnect, Reconnect, rows, vars
<1>10. CASE \E x \in DOMAIN cache : Answer(x) \/ Receive(x) \/ Deny(x) \/ FailToFetch(x)
  BY <1>1, <1>10 DEF Answer, Receive, Deny, FailToFetch, rows
<1> QED BY <1>2, <1>4, <1>5, <1>6, <1>7, <1>8, <1>9, <1>10 DEF Next

\* What a step does to a query, from c to d: no answer for it, a fetch that starts, an answer, an
\* error, a write of the tab that it misses.
Keeps(c, d) ==
  /\ d.data = c.data /\ d.failed = c.failed
  /\ d.fetch = None <=> c.fetch = None
  /\ d.read.misses \subseteq c.read.misses
  /\ c.read.late \cap d.read.misses \subseteq d.read.late

Begins(c, d) == d.fetch # None /\ d.read.misses = {} /\ d.data = c.data

Receives(c, d) == d.fetch = None /\ d.data = c.read /\ d.read.misses = {}

Breaks(c, d) == d.fetch = None /\ d.failed /\ d.data = c.data /\ d.read.misses = {}

MissesMore(c, d, w) ==
  /\ d.fetch = c.fetch /\ d.failed = c.failed
  /\ d.data.late = c.data.late /\ d.read.late = c.read.late
  /\ d.data.misses \subseteq c.data.misses \cup {w}
  /\ d.read.misses \subseteq c.read.misses \cup {w}

QueryMove(x) ==
  /\ x \in DOMAIN cache' /\ cache'[x] \in Entries
  /\ \/ cache'[x].has = cache[x].has /\ cache'[x].data = cache[x].data
     \/ cache'[x].has
  /\ \/ Keeps(cache[x], cache'[x])
     \/ Begins(cache[x], cache'[x])
     \/ Receives(cache[x], cache'[x])
     \/ Breaks(cache[x], cache'[x])
     \/ \E w \in DOMAIN writes :
          /\ Apply(w) /\ MissesMore(cache[x], cache'[x], w)
          /\ Query[x.query].reads \cap ChangedBy(writes[w]) # {}

\* What is shown anew is read.
MountMove(x) == x \in Mounted' \ Mounted => cache'[x].fetch # None

\* What a write that is acknowledged invalidates is read if it is shown, and a fetch that goes on
\* without that write has joined it.
AckMove(x) ==
  \A w \in DOMAIN writes :
    Acknowledge(w) /\ Refreshes(writes[w], x) =>
      /\ x \in Mounted => cache'[x].fetch # None
      /\ {w} \cap cache'[x].read.misses \subseteq cache'[x].read.late

\* A key that is observed for the first time.
Fresh(c) == c \in Entries /\ c.data = Nothing /\ c.read.misses = {} /\ c.fetch # None

CacheStep ==
  /\ cache' \in [DOMAIN cache' -> Entries] /\ DOMAIN cache' \subseteq AllKeys
  /\ DOMAIN cache \subseteq DOMAIN cache' /\ Mounted' \subseteq DOMAIN cache'
  /\ \A x \in DOMAIN cache : QueryMove(x) /\ MountMove(x) /\ AckMove(x)
  /\ \A x \in DOMAIN cache' \ DOMAIN cache : Fresh(cache'[x])

LEMMA SameEntry ==
  ASSUME Typed, NEW x \in DOMAIN cache, x \in DOMAIN cache', cache'[x] = cache[x]
  PROVE  QueryMove(x)
BY DEF Typed, QueryMove, Keeps

LEMMA StartsEntry ==
  ASSUME Typed, NEW x \in DOMAIN cache, NEW who \in Accounts, x \in DOMAIN cache',
         cache'[x] = Fetching(cache[x], who)
  PROVE  QueryMove(x) /\ cache'[x].fetch # None /\ cache'[x].read.misses = {}
<1>1. PICK c \in Entries : c = cache[x]
  BY DEF Typed
<1>2. PICK d : d = Fetching(c, who)
  OBVIOUS
<1>3. /\ d \in Entries /\ d.fetch \in {"asked", "paused"} /\ d.read.misses = {}
      /\ d.data = c.data /\ d.has = c.has
  BY <1>2, FetchingEntry
<1>4. cache'[x] = d /\ d.fetch # None
  BY <1>1, <1>2, <1>3 DEF None
<1> QED BY <1>1, <1>3, <1>4 DEF QueryMove, Begins

\* The keys of the cache are the same, one by one.
LEMMA SameKeys ==
  ASSUME Typed, NEW ks, ks = DOMAIN cache, cache' = [x \in ks |-> cache'[x]],
         \A x \in ks : QueryMove(x) /\ MountMove(x) /\ AckMove(x), Mounted' \subseteq ks
  PROVE  CacheStep
<1>1. DOMAIN cache' = ks
  OBVIOUS
<1>2. \A x \in ks : cache'[x] \in Entries
  BY DEF QueryMove
<1>3. cache' \in [ks -> Entries]
  BY <1>2
<1> QED BY <1>1, <1>3 DEF CacheStep, Typed

\* What is mounted is the same.
LEMMA SameMounted ==
  ASSUME Typed, session' = session, page' = page, tab'.selected = tab.selected,
         tab'.filter = tab.filter
  PROVE  Mounted' = Mounted
<1>1. Keys(page, tab') = Keys(page, tab)
  BY DEF Keys
<1> QED BY <1>1 DEF Mounted

\* An action of the user, or of the network, acknowledges nothing.
LEMMA NotAcknowledged ==
  ASSUME Typed, NEW x,
         writes' = writes \/ gestures' # gestures \/ faults' # faults \/ online' # online
  PROVE  AckMove(x)
<1> SUFFICES ASSUME NEW w \in DOMAIN writes, Acknowledge(w) PROVE FALSE
  BY DEF AckMove
<1>1. /\ writes[w].state = "applied" /\ writes' = [writes EXCEPT ![w].state = "done"]
      /\ UNCHANGED world
  BY DEF Acknowledge
<1>2. writes \in Seq(Saves) /\ writes[w] \in Saves
  BY DEF Typed
<1>3. writes'[w] = [writes[w] EXCEPT !.state = "done"]
  BY <1>1, <1>2
<1>4. writes'[w].state = "done"
  BY <1>2, <1>3 DEF Saves
<1> QED BY <1>1, <1>4 DEF world

\* Keys are observed: a page that is opened or read again, other keys of the page, or the context
\* of an account that signs in.
LEMMA ObservedCache ==
  ASSUME Typed, NEW ks \in SUBSET AllKeys, NEW who \in Accounts, cache' = Observed(ks, who),
         Mounted' \subseteq ks \cup Mounted, gestures' # gestures
  PROVE  CacheStep
<1>1. PICK all : all = DOMAIN cache \cup ks
  OBVIOUS
<1>2. cache' = [x \in all |->
                  IF x \notin DOMAIN cache THEN Fetching(NoData, who)
                  ELSE IF x \in ks /\ cache[x].fetch = None THEN Fetching(cache[x], who)
                  ELSE cache[x]]
  BY <1>1 DEF Observed
<1>3. DOMAIN cache' = all
  BY <1>2
<1>4. ASSUME NEW x \in DOMAIN cache
      PROVE  QueryMove(x) /\ MountMove(x)
  <2>1. x \in all /\ x \in DOMAIN cache'
    BY <1>1, <1>3
  <2>2. CASE x \in ks /\ cache[x].fetch = None
    <3>1. cache'[x] = Fetching(cache[x], who)
      BY <1>2, <2>1, <2>2
    <3> QED BY <2>1, <3>1, StartsEntry DEF MountMove
  <2>3. CASE ~(x \in ks /\ cache[x].fetch = None)
    <3>1. cache'[x] = cache[x]
      BY <1>2, <2>1, <2>3
    <3> QED BY <2>1, <2>3, <3>1, SameEntry DEF MountMove
  <2> QED BY <2>2, <2>3
<1>5. ASSUME NEW x \in DOMAIN cache', x \notin DOMAIN cache
      PROVE  Fresh(cache'[x])
  <2>1. PICK d : d = Fetching(NoData, who)
    OBVIOUS
  <2>2. /\ d \in Entries /\ d.data = Nothing /\ d.read.misses = {} /\ d.fetch \in {"asked", "paused"}
    BY <2>1, FetchingEntry, NothingIsAnAnswer
  <2>3. cache'[x] = d
    BY <1>2, <1>3, <1>5, <2>1
  <2> QED BY <2>2, <2>3 DEF Fresh, None
<1>6. \A x \in all : cache'[x] \in Entries
  BY <1>3, <1>4, <1>5 DEF QueryMove, Fresh
<1>7. cache' \in [all -> Entries]
  <2>1. cache' = [x \in all |-> cache'[x]]
    BY <1>2
  <2> QED BY <1>6, <2>1
<1>8. DOMAIN cache' \subseteq AllKeys /\ DOMAIN cache \subseteq DOMAIN cache'
      /\ Mounted' \subseteq DOMAIN cache'
  BY <1>1, <1>3 DEF Typed
<1>9. \A x \in DOMAIN cache : AckMove(x)
  BY NotAcknowledged
<1> QED BY <1>3, <1>4, <1>5, <1>7, <1>8, <1>9 DEF CacheStep

LEMMA GoCache ==
  ASSUME Typed, NEW p \in DOMAIN Pages, Go(p)
  PROVE  CacheStep
<1>1. PICK ks : ks = Keys(p, Blank(p))
  OBVIOUS
<1>2. /\ session # None /\ session' = session /\ page' = p /\ tab' = Blank(p)
      /\ cache' = Observed(ks, session) /\ gestures' = gestures + 1
  BY <1>1 DEF Go, Leave, Gesture
<1>3. ks \in SUBSET AllKeys
  BY <1>1, PageKeys, BlankTab
<1>4. Mounted' = {Context} \cup ks /\ Context \in Mounted
  BY <1>1, <1>2 DEF Mounted
<1>5. gestures' # gestures /\ session \in Accounts
  BY <1>2 DEF Typed
<1> QED BY <1>2, <1>3, <1>4, <1>5, ObservedCache

LEMMA LogoutCache ==
  ASSUME Typed, Logout
  PROVE  CacheStep
<1>1. session' = None /\ cache' = cache /\ gestures' = gestures + 1
  BY DEF Logout, Leave, Gesture
<1>2. Mounted' = {}
  BY <1>1 DEF Mounted
<1>3. gestures' # gestures
  BY <1>1 DEF Typed
<1>4. \A x \in DOMAIN cache : QueryMove(x) /\ MountMove(x) /\ AckMove(x)
  BY <1>1, <1>2, <1>3, SameEntry, NotAcknowledged DEF MountMove
<1> QED BY <1>1, <1>2, <1>4 DEF CacheStep, Typed

LEMMA LoginCache ==
  ASSUME Typed, TabInv, NEW role \in Roles, Login(role)
  PROVE  CacheStep
<1>1. /\ session = None /\ session' = role /\ page' = page /\ tab' = tab
      /\ cache' = Observed({Context}, role) /\ gestures' = gestures + 1
  BY DEF Login, Gesture
<1>2. page = "home" /\ Seen("home") = {}
  BY <1>1, PageFacts DEF TabInv, Typed
<1>3. Mounted' = {Context}
  <2>1. Keys(page, tab) = {}
    BY <1>2, PageKeys DEF Typed
  <2>2. role # None
    BY DEF Roles, DEFAULT_ROLE_PERMISSIONS, None
  <2> QED BY <1>1, <2>1, <2>2 DEF Mounted
<1>4. role \in Accounts /\ gestures' # gestures /\ {Context} \in SUBSET AllKeys
  BY <1>1, ContextKey DEF Accounts, Typed
<1> QED BY <1>1, <1>3, <1>4, ObservedCache

LEMMA FocusCache ==
  ASSUME Typed, Focus
  PROVE  CacheStep
<1>1. /\ session' = session /\ page' = page /\ tab' = tab
      /\ cache' = Observed(Mounted, session) /\ gestures' = gestures + 1
  BY DEF Focus, Gesture, Local
<1>2. /\ Mounted' = Mounted /\ gestures' # gestures /\ session \in Accounts
      /\ Mounted \in SUBSET AllKeys
  BY <1>1, SameMounted DEF Typed
<1> QED BY <1>1, <1>2, ObservedCache

\* A filter, or the detail of a row.
LEMMA RekeyCache ==
  ASSUME Typed, NEW t \in Tabs, Rekey(t), Gesture, session # None
  PROVE  CacheStep
<1>1. PICK ks : ks = Keys(page, t)
  OBVIOUS
<1>2. /\ session' = session /\ page' = page /\ tab' = t
      /\ cache' = Observed(ks, session) /\ gestures' = gestures + 1
  BY <1>1 DEF Rekey, Local, Gesture
<1>3. ks \in SUBSET AllKeys
  BY <1>1, PageKeys DEF Typed
<1>4. Mounted' = {Context} \cup ks /\ Context \in Mounted
  BY <1>1, <1>2 DEF Mounted
<1>5. gestures' # gestures /\ session \in Accounts
  BY <1>2 DEF Typed
<1> QED BY <1>2, <1>3, <1>4, <1>5, ObservedCache

\* A write alone takes a state: only it may be the one that is acknowledged.
LEMMA OtherState ==
  ASSUME Typed, NEW w \in DOMAIN writes, NEW s, writes' = [writes EXCEPT ![w].state = s],
         NEW y \in DOMAIN writes, Acknowledge(y)
  PROVE  y = w /\ s = "done"
<1>1. writes \in Seq(Saves) /\ writes[w] \in Saves /\ writes[y] \in Saves
  BY DEF Typed
<1>2. writes[y].state = "applied" /\ writes' = [writes EXCEPT ![y].state = "done"]
  BY DEF Acknowledge
<1>3. writes'[y] = [writes[y] EXCEPT !.state = "done"]
  BY <1>1, <1>2
<1>4. writes'[y].state = "done"
  BY <1>1, <1>3 DEF Saves
<1>5. y # w => writes'[y] = writes[y]
  BY <1>1
<1>6. y = w
  BY <1>2, <1>4, <1>5
<1>7. writes'[w] = [writes[w] EXCEPT !.state = s]
  BY <1>1
<1>8. writes'[w].state = s
  BY <1>1, <1>7 DEF Saves
<1> QED BY <1>4, <1>6, <1>8

\* A fetch that is joined, or goes on, without the write that has invalidated its key.
LEMMA JoinedEntry ==
  ASSUME Typed, NEW x \in DOMAIN cache, NEW w, x \in DOMAIN cache',
         cache'[x] = [cache[x] EXCEPT !.read.late = @ \cup ({w} \cap cache[x].read.misses)]
  PROVE  /\ QueryMove(x) /\ cache'[x].fetch = cache[x].fetch
         /\ {w} \cap cache'[x].read.misses \subseteq cache'[x].read.late
<1>1. PICK c \in Entries : c = cache[x]
  BY DEF Typed
<1>2. PICK late : late = c.read.late \cup ({w} \cap c.read.misses)
  OBVIOUS
<1>3. PICK read : read = [c.read EXCEPT !.late = late]
  OBVIOUS
<1>4. c.read \in Readings /\ c.read.late \subseteq c.read.misses
  BY DEF Entries, Answers
<1>5. read \in Readings /\ read.late = late /\ read.misses = c.read.misses
  BY <1>2, <1>3, <1>4 DEF Readings
<1>6. read \in Answers
  BY <1>2, <1>4, <1>5 DEF Answers
<1>7. cache'[x] = [c EXCEPT !.read = read]
  BY <1>1, <1>2, <1>3 DEF Entries
<1>8. /\ cache'[x] \in Entries /\ cache'[x].has = c.has /\ cache'[x].data = c.data
      /\ cache'[x].failed = c.failed /\ cache'[x].fetch = c.fetch /\ cache'[x].read = read
  BY <1>6, <1>7 DEF Entries
<1> QED BY <1>1, <1>2, <1>5, <1>8 DEF QueryMove, Keeps

LEMMA AcknowledgeCache ==
  ASSUME Typed, NEW w \in DOMAIN writes, Acknowledge(w)
  PROVE  CacheStep
<1>1. /\ session' = session /\ page' = page /\ cache' = Invalidated(w)
      /\ writes[w].state = "applied" /\ writes' = [writes EXCEPT ![w].state = "done"]
  BY DEF Acknowledge
<1>2. tab'.selected = tab.selected /\ tab'.filter = tab.filter
  BY DEF Acknowledge, Typed, Tabs
<1>3. Mounted' = Mounted /\ session \in Accounts
  BY <1>1, <1>2, SameMounted DEF Typed
<1>4. PICK ks : ks = DOMAIN cache
  OBVIOUS
<1>5. cache' = [x \in ks |->
        IF ~Refreshes(writes[w], x) THEN cache[x]
        ELSE IF x \in Mounted /\ (cache[x].has \/ cache[x].fetch = None)
        THEN Fetching(cache[x], session)
        ELSE [cache[x] EXCEPT !.read.late = @ \cup ({w} \cap cache[x].read.misses)]]
  BY <1>1, <1>4 DEF Invalidated
<1>6. DOMAIN cache' = ks
  BY <1>5
<1>7. ASSUME NEW x \in ks
      PROVE  /\ QueryMove(x)
             /\ Refreshes(writes[w], x) =>
                  /\ x \in Mounted => cache'[x].fetch # None
                  /\ {w} \cap cache'[x].read.misses \subseteq cache'[x].read.late
  <2>1. CASE ~Refreshes(writes[w], x)
    <3>1. cache'[x] = cache[x]
      BY <1>5, <2>1
    <3> QED BY <1>4, <1>6, <2>1, <3>1, SameEntry
  <2>2. CASE /\ Refreshes(writes[w], x)
             /\ x \in Mounted /\ (cache[x].has \/ cache[x].fetch = None)
    <3>1. cache'[x] = Fetching(cache[x], session)
      BY <1>5, <2>2
    <3>2. QueryMove(x) /\ cache'[x].fetch # None /\ cache'[x].read.misses = {}
      BY <1>3, <1>4, <1>6, <3>1, StartsEntry
    <3> QED BY <3>2
  <2>3. CASE /\ Refreshes(writes[w], x)
             /\ ~(x \in Mounted /\ (cache[x].has \/ cache[x].fetch = None))
    <3>1. cache'[x] = [cache[x] EXCEPT !.read.late = @ \cup ({w} \cap cache[x].read.misses)]
      BY <1>5, <2>3
    <3>2. /\ QueryMove(x) /\ cache'[x].fetch = cache[x].fetch
          /\ {w} \cap cache'[x].read.misses \subseteq cache'[x].read.late
      BY <1>4, <1>6, <3>1, JoinedEntry
    <3> QED BY <2>3, <3>2
  <2> QED BY <2>1, <2>2, <2>3
<1>8. ASSUME NEW y \in DOMAIN writes, Acknowledge(y)
      PROVE  y = w
  BY <1>1, <1>8, OtherState
<1>9. \A x \in ks : MountMove(x) /\ AckMove(x)
  BY <1>3, <1>7, <1>8 DEF MountMove, AckMove
<1>10. cache' = [x \in ks |-> cache'[x]]
  BY <1>5
<1>11. Mounted' \subseteq ks
  BY <1>3, <1>4 DEF Typed
<1> QED BY <1>4, <1>7, <1>9, <1>10, <1>11, SameKeys

LEMMA ReconnectCache ==
  ASSUME Typed, Reconnect
  PROVE  CacheStep
<1>0. PICK ks : ks = DOMAIN cache
  OBVIOUS
<1>1. /\ session' = session /\ page' = page /\ tab' = tab /\ online' # online
      /\ cache' = [x \in ks |->
           IF cache[x].fetch = "paused" THEN [cache[x] EXCEPT !.fetch = "asked"]
           ELSE IF x \in Mounted /\ cache[x].fetch = None
           THEN [Fetching(cache[x], session) EXCEPT !.fetch = "asked"] ELSE cache[x]]
  BY <1>0 DEF Reconnect
<1>2. Mounted' = Mounted /\ session \in Accounts /\ DOMAIN cache' = ks
  BY <1>1, SameMounted DEF Typed
<1>3. ASSUME NEW x \in ks
      PROVE  QueryMove(x)
  <2>0. PICK c \in Entries : c = cache[x]
    BY <1>0 DEF Typed
  <2>1. CASE cache[x].fetch = "paused"
    <3>2. cache'[x] = [c EXCEPT !.fetch = "asked"]
      BY <1>1, <2>0, <2>1
    <3>3. /\ cache'[x] \in Entries /\ cache'[x].has = c.has /\ cache'[x].data = c.data
          /\ cache'[x].failed = c.failed /\ cache'[x].read = c.read
          /\ cache'[x].fetch = "asked"
      BY <3>2 DEF Entries
    <3> QED BY <1>0, <1>2, <2>0, <2>1, <3>3 DEF QueryMove, Keeps, None
  <2>2. CASE x \in Mounted /\ cache[x].fetch = None
    <3>1. PICK e : e = Fetching(c, session)
      OBVIOUS
    <3>2. e \in Entries /\ e.read.misses = {} /\ e.data = c.data /\ e.has = c.has
      BY <1>2, <3>1, FetchingEntry
    <3>3. cache'[x] = [e EXCEPT !.fetch = "asked"]
      BY <1>1, <2>0, <2>2, <3>1 DEF None
    <3>4. /\ cache'[x] \in Entries /\ cache'[x].has = e.has /\ cache'[x].data = e.data
          /\ cache'[x].read = e.read /\ cache'[x].fetch = "asked"
      BY <3>2, <3>3 DEF Entries
    <3> QED BY <1>0, <1>2, <2>0, <3>2, <3>4 DEF QueryMove, Begins, None
  <2>3. CASE cache[x].fetch # "paused" /\ ~(x \in Mounted /\ cache[x].fetch = None)
    <3>1. cache'[x] = cache[x]
      BY <1>1, <2>3
    <3> QED BY <1>0, <1>2, <3>1, SameEntry
  <2> QED BY <2>1, <2>2, <2>3
<1>4. \A x \in ks : MountMove(x) /\ AckMove(x)
  BY <1>1, <1>2, NotAcknowledged DEF MountMove
<1>5. cache' = [x \in ks |-> cache'[x]]
  BY <1>1
<1>6. Mounted' \subseteq ks
  BY <1>0, <1>2 DEF Typed
<1> QED BY <1>0, <1>3, <1>4, <1>5, <1>6, SameKeys

LEMMA ApplyCache ==
  ASSUME Typed, DataInv, NEW w \in DOMAIN writes, Apply(w)
  PROVE  CacheStep
<1>0. PICK ks : ks = DOMAIN cache
  OBVIOUS
<1>1. /\ session' = session /\ page' = page /\ tab' = tab
      /\ writes[w].state = "sent" /\ writes' = [writes EXCEPT ![w].state = "applied"]
      /\ cache' = [x \in ks |->
           IF Query[x.query].reads \cap ChangedBy(writes[w]) = {} THEN cache[x]
           ELSE [cache[x] EXCEPT !.data.misses = IF cache[x].has THEN @ \cup {w} ELSE @,
                                 !.read.misses = IF cache[x].fetch = "read" THEN @ \cup {w} ELSE @]]
  BY <1>0 DEF Apply
<1>2. Mounted' = Mounted /\ w \in Nat /\ DOMAIN cache' = ks
  <2>1. writes \in Seq(Saves)
    BY DEF Typed
  <2>2. DOMAIN writes = 1..Len(writes) /\ Len(writes) \in Nat
    BY <2>1
  <2>3. Mounted' = Mounted
    BY <1>1, SameMounted
  <2>4. w \in Nat
    BY <2>2
  <2>5. DOMAIN cache' = ks
    BY <1>1
  <2> QED BY <2>3, <2>4, <2>5
<1>3. ASSUME NEW x \in ks
      PROVE  QueryMove(x)
  <2>1. CASE Query[x.query].reads \cap ChangedBy(writes[w]) = {}
    <3>1. cache'[x] = cache[x]
      BY <1>1, <2>1
    <3> QED BY <1>0, <1>2, <3>1, SameEntry
  <2>2. CASE Query[x.query].reads \cap ChangedBy(writes[w]) # {}
    <3>1. PICK c \in Entries : c = cache[x]
      BY <1>0 DEF Typed
    <3>2. PICK data : data = [c.data EXCEPT !.misses = IF c.has THEN @ \cup {w} ELSE @]
      OBVIOUS
    <3>3. PICK read : read = [c.read EXCEPT !.misses = IF c.fetch = "read" THEN @ \cup {w} ELSE @]
      OBVIOUS
    <3>4. cache'[x] = [c EXCEPT !.data = data, !.read = read]
      <4>1. cache'[x] = [c EXCEPT !.data.misses = IF c.has THEN @ \cup {w} ELSE @,
                                  !.read.misses = IF c.fetch = "read" THEN @ \cup {w} ELSE @]
        BY <1>1, <2>2, <3>1
      <4> QED BY <3>2, <3>3, <4>1 DEF Entries
    <3>5. /\ c.data \in Readings /\ c.read \in Readings
          /\ c.data.late \subseteq c.data.misses /\ c.read.late \subseteq c.read.misses
      BY DEF Entries, Answers
    <3>6. /\ data \in Readings /\ data.late = c.data.late
          /\ c.data.misses \subseteq data.misses /\ data.misses \subseteq c.data.misses \cup {w}
          /\ ~c.has => data = c.data
      BY <1>2, <3>2, <3>5 DEF Readings
    <3>7. /\ read \in Readings /\ read.late = c.read.late
          /\ c.read.misses \subseteq read.misses /\ read.misses \subseteq c.read.misses \cup {w}
      BY <1>2, <3>3, <3>5 DEF Readings
    <3>8. data \in Answers /\ read \in Answers
      BY <3>5, <3>6, <3>7 DEF Answers
    <3>9. /\ cache'[x] \in Entries /\ cache'[x].has = c.has /\ cache'[x].data = data
          /\ cache'[x].failed = c.failed /\ cache'[x].fetch = c.fetch
          /\ cache'[x].read = read
      BY <3>4, <3>8 DEF Entries
    <3>10. MissesMore(cache[x], cache'[x], w)
      BY <3>1, <3>6, <3>7, <3>9 DEF MissesMore
    <3>11. \/ cache'[x].has = cache[x].has /\ cache'[x].data = cache[x].data
           \/ cache'[x].has
      BY <3>1, <3>6, <3>9 DEF Entries
    <3> QED BY <1>0, <1>2, <2>2, <3>9, <3>10, <3>11 DEF QueryMove
  <2> QED BY <2>1, <2>2
<1>4. ASSUME NEW y \in DOMAIN writes, Acknowledge(y)
      PROVE  FALSE
  <2>1. "applied" = "done"
    BY <1>1, <1>4, OtherState
  <2> QED BY <2>1
<1>5. \A x \in ks : MountMove(x) /\ AckMove(x)
  BY <1>2, <1>4 DEF MountMove, AckMove
<1>6. cache' = [x \in ks |-> cache'[x]]
  BY <1>1
<1>7. Mounted' \subseteq ks
  BY <1>0, <1>2 DEF Typed
<1> QED BY <1>0, <1>3, <1>5, <1>6, <1>7, SameKeys

\* One query is answered, or fails.
LEMMA AnswerCache ==
  ASSUME Typed, NEW x \in DOMAIN cache, Answer(x) \/ Receive(x) \/ Deny(x) \/ FailToFetch(x)
  PROVE  CacheStep
<1>0. PICK ks : ks = DOMAIN cache
  OBVIOUS
<1>1. session' = session /\ page' = page /\ tab' = tab /\ writes' = writes
  BY DEF Answer, Receive, Deny, FailToFetch
<1>2. Mounted' = Mounted
  BY <1>1, SameMounted
<1>3. PICK c \in Entries : c = cache[x]
  BY DEF Typed
<1>4. PICK d : cache' = [cache EXCEPT ![x] = d]
               /\ \/ /\ d = [c EXCEPT !.fetch = "read", !.read = Snapshot(x, c.read.by)]
                     /\ c.fetch = "asked"
                  \/ d = [NoData EXCEPT !.has = TRUE, !.data = c.read]
                  \/ d = [c EXCEPT !.fetch = None, !.failed = TRUE, !.read = Nothing]
  <2>1. CASE Answer(x)
    BY <1>3, <2>1 DEF Answer, Typed
  <2>2. CASE Receive(x)
    BY <1>3, <2>2 DEF Receive, Typed
  <2>3. CASE Deny(x) \/ FailToFetch(x)
    BY <1>3, <2>3 DEF Deny, FailToFetch, Failed, Typed
  <2> QED BY <2>1, <2>2, <2>3
<1>5. c.read.by \in Accounts /\ c.read \in Answers
  BY DEF Entries, Answers, Readings
<1>6. PICK a \in Answers : a = Snapshot(x, c.read.by) /\ a.misses = {}
  BY <1>5, Snapshots DEF Typed
<1>7. /\ cache'[x] = d /\ \A y \in ks \ {x} : cache'[y] = cache[y]
      /\ DOMAIN cache' = ks /\ cache' = [y \in ks |-> cache'[y]]
  BY <1>0, <1>4 DEF Typed
<1>8. QueryMove(x)
  <2>1. CASE d = [c EXCEPT !.fetch = "read", !.read = Snapshot(x, c.read.by)] /\ c.fetch = "asked"
    <3>1. /\ d \in Entries /\ d.has = c.has /\ d.data = c.data /\ d.failed = c.failed
          /\ d.fetch = "read" /\ d.read = a
      BY <1>6, <2>1 DEF Entries
    <3> QED BY <1>0, <1>3, <1>6, <1>7, <2>1, <3>1 DEF QueryMove, Keeps, None
  <2>2. CASE d = [NoData EXCEPT !.has = TRUE, !.data = c.read]
    <3>1. /\ d \in Entries /\ d.has = TRUE /\ d.data = c.read
          /\ d.fetch = None /\ d.read = Nothing
      BY <1>5, <2>2, NothingIsAnAnswer DEF Entries
    <3> QED BY <1>0, <1>3, <1>7, <3>1, NothingIsAnAnswer DEF QueryMove, Receives
  <2>3. CASE d = [c EXCEPT !.fetch = None, !.failed = TRUE, !.read = Nothing]
    <3>1. /\ d \in Entries /\ d.has = c.has /\ d.data = c.data /\ d.failed = TRUE
          /\ d.fetch = None /\ d.read = Nothing
      BY <2>3, NothingIsAnAnswer DEF Entries
    <3> QED BY <1>0, <1>3, <1>7, <3>1, NothingIsAnAnswer DEF QueryMove, Breaks
  <2> QED BY <1>4, <2>1, <2>2, <2>3
<1>9. \A y \in ks : QueryMove(y)
  BY <1>0, <1>7, <1>8, SameEntry
<1>10. \A y \in ks : MountMove(y) /\ AckMove(y)
  BY <1>1, <1>2, NotAcknowledged DEF MountMove
<1>11. Mounted' \subseteq ks
  BY <1>0, <1>2 DEF Typed
<1> QED BY <1>0, <1>7, <1>9, <1>10, <1>11, SameKeys

LEMMA SameCache ==
  ASSUME Typed, cache' = cache, session' = session, page' = page,
         tab'.selected = tab.selected, tab'.filter = tab.filter, \A x \in DOMAIN cache : AckMove(x)
  PROVE  CacheStep
<1>1. Mounted' = Mounted
  BY SameMounted
<1>2. \A x \in DOMAIN cache : QueryMove(x) /\ MountMove(x)
  BY <1>1, SameEntry DEF MountMove
<1> QED BY <1>1, <1>2 DEF CacheStep, Typed

LEMMA CacheNext ==
  ASSUME Typed, DataInv, TabInv, [Next]_vars
  PROVE  CacheStep
<1>1. ASSUME NEW t, Local(t), Gesture, cache' = cache, t.selected = tab.selected,
             t.filter = tab.filter
      PROVE  CacheStep
  <2>1. gestures' # gestures
    BY <1>1 DEF Gesture, Typed
  <2> QED BY <1>1, <2>1, NotAcknowledged, SameCache DEF Local
<1>2. ASSUME NEW i \in Items, Modify(i) \/ Ask(i)
      PROVE  CacheStep
  <2>1. PICK t : /\ t = [tab EXCEPT !.editing = i, !.holds = i, !.typed = {}]
                      \/ t = [tab EXCEPT !.asking = i]
                 /\ Local(t) /\ Gesture /\ cache' = cache
    BY <1>2 DEF Modify, Ask
  <2>2. t.selected = tab.selected /\ t.filter = tab.filter
    BY <2>1 DEF Typed, Tabs
  <2> QED BY <1>1, <2>1, <2>2
<1>3. CASE CancelEdit \/ Renounce
  <2>1. PICK t : /\ t = [tab EXCEPT !.editing = None, !.holds = None, !.typed = {}]
                      \/ t = [tab EXCEPT !.asking = None]
                 /\ Local(t) /\ Gesture /\ cache' = cache
    BY <1>3 DEF CancelEdit, Renounce
  <2>2. t.selected = tab.selected /\ t.filter = tab.filter
    BY <2>1 DEF Typed, Tabs
  <2> QED BY <1>1, <2>1, <2>2
<1>4. ASSUME NEW f \in DOMAIN Form, Type(f)
      PROVE  CacheStep
  <2>1. PICK t : t = [tab EXCEPT !.typed = @ \cup {f}] /\ Local(t) /\ Gesture /\ cache' = cache
    BY <1>4 DEF Type
  <2>2. t.selected = tab.selected /\ t.filter = tab.filter
    BY <2>1 DEF Typed, Tabs
  <2> QED BY <1>1, <2>1, <2>2
<1>5. CASE (\E f \in DOMAIN Form : Submit(f)) \/ (\E op \in Calls, i \in Items : Press(op, i))
  BY <1>1, <1>5 DEF Submit, Press
<1>6. ASSUME NEW w \in DOMAIN writes, Refuse(w) \/ Lose(w)
      PROVE  CacheStep
  <2>1. UNCHANGED <<cache, session, page, tab>>
    BY <1>6 DEF Refuse, Lose
  <2>2. PICK s \in {"refused", "lost"} : writes' = [writes EXCEPT ![w].state = s]
    BY <1>6 DEF Refuse, Lose
  <2> QED BY <2>1, <2>2, OtherState, SameCache DEF AckMove
<1>7. CASE Disconnect \/ UNCHANGED vars
  <2>1. UNCHANGED <<cache, session, page, tab, writes>>
    BY <1>7 DEF Disconnect, vars
  <2> QED BY <2>1, NotAcknowledged, SameCache
<1>8. ASSUME NEW p \in DOMAIN Pages, Go(p)
      PROVE  CacheStep
  BY <1>8, GoCache
<1>9. CASE Logout \/ Focus \/ Reconnect
  BY <1>9, LogoutCache, FocusCache, ReconnectCache
<1>10. ASSUME NEW role \in Roles, Login(role)
       PROVE  CacheStep
  BY <1>10, LoginCache
<1>11. ASSUME NEW w \in DOMAIN writes, Apply(w) \/ Acknowledge(w)
       PROVE  CacheStep
  BY <1>11, ApplyCache, AcknowledgeCache
<1>12. ASSUME NEW x \in DOMAIN cache, Answer(x) \/ Receive(x) \/ Deny(x) \/ FailToFetch(x)
       PROVE  CacheStep
  BY <1>12, AnswerCache
<1>13. ASSUME NEW f \in Filters, Filter(f)
       PROVE  CacheStep
  <2>1. tab' \in Tabs
    BY <1>13, FilterTab
  <2>2. Rekey(tab') /\ Gesture /\ session # None
    BY <1>13 DEF Filter, Rekey, Local
  <2> QED BY <2>1, <2>2, RekeyCache
<1>14. ASSUME NEW i \in Items, Show(i)
       PROVE  CacheStep
  <2>1. PICK t : t = [tab EXCEPT !.selected = i] /\ Rekey(t) /\ Gesture /\ session # None
    BY <1>14 DEF Show
  <2>2. t \in Tabs
    BY <2>1 DEF Typed, Tabs, Chosen
  <2> QED BY <2>1, <2>2, RekeyCache
<1> QED BY <1>2, <1>3, <1>4, <1>5, <1>6, <1>7, <1>8, <1>9, <1>10, <1>11, <1>12, <1>13, <1>14
        DEF Next, Roles, Filters

-----------------------------------------------------------------------------
(* The invariants of the cache, from the views of a step.                  *)

LEMMA SameChanges ==
  ASSUME WritesStep, NEW w \in DOMAIN writes
  PROVE  /\ w \in DOMAIN writes' /\ writes'[w].on = writes[w].on
         /\ ChangedBy(writes'[w]) = ChangedBy(writes[w])
BY DEF WritesStep, SaveMove, ChangedBy

\* What is missed is what was, or the write that is applied.
LEMMA MissesMove ==
  ASSUME Typed, CacheStep, NEW x \in DOMAIN cache', NEW w \in Misses(cache'[x])
  PROVE  /\ x \in DOMAIN cache
         /\ \/ w \in Misses(cache[x])
            \/ /\ w \in DOMAIN writes /\ Apply(w)
               /\ Query[x.query].reads \cap ChangedBy(writes[w]) # {}
<1>1. x \in DOMAIN cache
  BY NothingIsAnAnswer DEF CacheStep, Fresh, Misses
<1> QED BY <1>1 DEF CacheStep, QueryMove, Misses, Keeps, Begins, Receives, Breaks, MissesMore

LEMMA MissesNext ==
  ASSUME Typed, MissesInv, CacheStep, WritesStep
  PROVE  MissesInv'
<1> SUFFICES ASSUME NEW x \in DOMAIN cache', NEW w \in Misses(cache'[x])
             PROVE  /\ w \in DOMAIN writes'
                    /\ Query[x.query].reads \cap ChangedBy(writes'[w]) # {}
  BY DEF MissesInv
<1>1. w \in DOMAIN writes /\ Query[x.query].reads \cap ChangedBy(writes[w]) # {}
  BY MissesMove DEF MissesInv
<1> QED BY <1>1, SameChanges

LEMMA DataNext ==
  ASSUME Typed, DataInv, CacheStep
  PROVE  DataInv'
BY DEF DataInv, CacheStep, QueryMove, Fresh

\* A write that is acknowledged refreshes what misses it on its page.
LEMMA Covered ==
  ASSUME Typed, WritesInv, MissesInv, NEW x \in DOMAIN cache, NEW w \in Misses(cache[x]),
         x.query \in Seen(writes[w].on)
  PROVE  Refreshes(writes[w], x)
<1>1. w \in DOMAIN writes /\ Query[x.query].reads \cap ChangedBy(writes[w]) # {}
  BY DEF MissesInv
<1>2. writes[w] \in Saves /\ SaveInv(writes[w], page)
  BY <1>1 DEF Typed, WritesInv
<1>3. PICK p \in DOMAIN Pages : p = writes[w].on
  BY <1>2 DEF Saves
<1>4. CASE writes[w].form = None
  <2>1. Pages[p].calls # {} /\ Query[x.query].reads \cap Pages[p].changes # {}
    BY <1>1, <1>2, <1>3, <1>4 DEF SaveInv, ChangedBy
  <2>2. Query[x.query].key \in Pages[p].refreshes /\ x.query \notin Pages[p].detail
    BY <1>3, <2>1, ButtonsCover
  <2> QED BY <1>3, <1>4, <2>2 DEF Refreshes, RefreshedBy
<1>5. CASE writes[w].form # None
  <2>1. /\ writes[w].form \in Pages[p].forms
        /\ Query[x.query].reads \cap Form[writes[w].form].changes # {}
    BY <1>1, <1>2, <1>3, <1>5 DEF SaveInv, ChangedBy
  <2>2. Query[x.query].key \in Form[writes[w].form].refreshes
    BY <1>3, <2>1, FormsCover
  <2> QED BY <1>5, <2>2 DEF Refreshes, RefreshedBy
<1> QED BY <1>4, <1>5

\* What is applied now is not done yet.
LEMMA AppliedNow ==
  ASSUME Typed, NEW w \in DOMAIN writes, Apply(w)
  PROVE  writes'[w].state # "done"
<1>1. writes' = [writes EXCEPT ![w].state = "applied"]
  BY DEF Apply
<1>2. writes \in Seq(Saves) /\ writes[w] \in Saves
  BY DEF Typed
<1>3. writes'[w] = [writes[w] EXCEPT !.state = "applied"]
  BY <1>1, <1>2
<1>4. writes'[w].state = "applied"
  BY <1>2, <1>3 DEF Saves
<1> QED BY <1>4

LEMMA ShownNext ==
  ASSUME Typed, WritesInv, MissesInv, ShownInv, CacheStep, WritesStep
  PROVE  ShownInv'
<1> DEFINE c(x) == cache[x]
           d(x) == cache'[x]
<1> SUFFICES ASSUME NEW x \in DOMAIN cache', NEW w \in Misses(cache'[x]),
                    writes'[w].state = "done", x.query \in Seen(writes'[w].on)
             PROVE  /\ w \in d(x).read.misses => w \in d(x).read.late
                    /\ w \in d(x).data.misses /\ x \in Mounted' =>
                         d(x).failed \/ w \in d(x).data.late \/ d(x).fetch # None
  BY DEF ShownInv
<1>1. x \in DOMAIN cache /\ QueryMove(x) /\ MountMove(x) /\ AckMove(x)
  BY MissesMove DEF CacheStep
<1>2. w \in Misses(cache[x])
  BY MissesMove, AppliedNow
<1>3. w \in DOMAIN writes /\ writes'[w].on = writes[w].on
  BY <1>1, <1>2, SameChanges DEF MissesInv
<1>4. x.query \in Seen(writes[w].on)
  BY <1>3
<1>5. CASE Acknowledge(w)
  <2>1. Refreshes(writes[w], x)
    BY <1>1, <1>2, <1>4, Covered
  <2> QED BY <1>1, <1>3, <1>5, <2>1 DEF AckMove, MountMove
<1>6. CASE writes[w].state = "done"
  <2>1. /\ w \in c(x).read.misses => w \in c(x).read.late
        /\ w \in c(x).data.misses /\ x \in Mounted =>
             c(x).failed \/ w \in c(x).data.late \/ c(x).fetch # None
    BY <1>1, <1>2, <1>4, <1>6 DEF ShownInv
  <2>2. x \in Mounted' /\ x \notin Mounted => d(x).fetch # None
    BY <1>1 DEF MountMove
  <2>3. CASE Keeps(c(x), d(x))
    BY <2>1, <2>2, <2>3 DEF Keeps
  <2>4. CASE Begins(c(x), d(x))
    BY <2>4 DEF Begins
  <2>5. CASE Receives(c(x), d(x))
    BY <2>1, <2>5 DEF Receives
  <2>6. CASE Breaks(c(x), d(x))
    BY <2>6 DEF Breaks
  <2>7. ASSUME NEW y \in DOMAIN writes, Apply(y), MissesMore(c(x), d(x), y)
        PROVE  /\ w \in d(x).read.misses => w \in d(x).read.late
               /\ w \in d(x).data.misses /\ x \in Mounted' =>
                    d(x).failed \/ w \in d(x).data.late \/ d(x).fetch # None
    <3>1. w # y
      BY <2>7, AppliedNow
    <3> QED BY <2>1, <2>2, <2>7, <3>1 DEF MissesMore
  <2> QED BY <1>1, <2>3, <2>4, <2>5, <2>6, <2>7 DEF QueryMove
<1> QED BY <1>3, <1>5, <1>6 DEF WritesStep, SaveMove

-----------------------------------------------------------------------------
(* What holds of every behaviour.                                          *)

WebInv ==
  /\ Typed /\ TabInv /\ WritesInv /\ ContentInv
  /\ MissesInv /\ ShownInv /\ DataInv

LEMMA WebInit == Init => WebInv
<1> SUFFICES ASSUME Init PROVE WebInv
  OBVIOUS
<1>1. Typed /\ DataInv /\ \A x \in DOMAIN cache : cache[x].fetch = None /\ Misses(cache[x]) = {}
  BY TypedInit
<1>2. \A w \in DOMAIN writes : FALSE
  <2>1. writes = <<>>
    BY DEF Init
  <2>2. writes \in Seq(Saves) /\ Len(writes) = 0
    BY <2>1
  <2> QED BY <2>2
<1>3. TabInv
  <2>1. tab = Blank(page) /\ session = start.role /\ start.role \in Roles
    BY <1>1, StartsAssumption DEF Init, Typed, Roles
  <2>2. session # None
    BY <2>1 DEF Roles, DEFAULT_ROLE_PERMISSIONS, None
  <2> QED BY <1>1, <2>1, <2>2, BlankTab, PageFacts DEF Typed, TabInv
<1>4. MissesInv /\ ShownInv
  BY <1>1 DEF MissesInv, ShownInv
<1>5. ContentInv
  BY DEF Init, ContentInv
<1> QED BY <1>1, <1>2, <1>3, <1>4, <1>5 DEF WebInv, WritesInv

LEMMA WorldNext ==
  ASSUME Typed, [Next]_vars
  PROVE  start' \in Starts /\ online' \in BOOLEAN /\ faults' \in Nat /\ gestures' \in Nat
<1>1. ASSUME Gesture
      PROVE  start' \in Starts /\ online' \in BOOLEAN /\ faults' \in Nat /\ gestures' \in Nat
  BY <1>1 DEF Gesture, Typed
<1>2. CASE (\E p \in DOMAIN Pages : Go(p)) \/ (\E role : Login(role) \/ Filter(role))
  BY <1>1, <1>2 DEF Go, Login, Filter
<1>3. CASE \E i : Show(i) \/ Modify(i) \/ Ask(i) \/ Type(i) \/ Submit(i)
  BY <1>1, <1>3 DEF Show, Modify, Ask, Type, Submit
<1>4. CASE Logout \/ Focus \/ CancelEdit \/ Renounce \/ (\E op, i : Press(op, i))
  BY <1>1, <1>4 DEF Logout, Focus, CancelEdit, Renounce, Press
<1>0. ASSUME UNCHANGED world
      PROVE  start' \in Starts /\ online' \in BOOLEAN /\ faults' \in Nat /\ gestures' \in Nat
  BY <1>0 DEF world, Typed
<1>5. CASE \E w \in DOMAIN writes : Apply(w) \/ Acknowledge(w) \/ Refuse(w)
  <2>1. UNCHANGED world
    BY <1>5 DEF Apply, Acknowledge, Refuse
  <2> QED BY <1>0, <2>1
<1>8. CASE \E w \in DOMAIN writes : Lose(w)
  BY <1>8 DEF Lose, Typed
<1>9. CASE UNCHANGED vars
  <2>1. UNCHANGED world
    BY <1>9 DEF vars
  <2> QED BY <1>0, <2>1
<1>6. CASE Disconnect \/ Reconnect
  <2>1. /\ online' \in BOOLEAN /\ faults' \in {faults, faults + 1}
        /\ start' = start /\ gestures' = gestures
    BY <1>6 DEF Disconnect, Reconnect
  <2> QED BY <2>1 DEF Typed
<1>7. CASE \E x \in DOMAIN cache : Answer(x) \/ Receive(x) \/ Deny(x) \/ FailToFetch(x)
  BY <1>7 DEF Answer, Receive, Deny, FailToFetch, world, Typed
<1> QED BY <1>2, <1>3, <1>4, <1>5, <1>6, <1>7, <1>8, <1>9 DEF Next

LEMMA WebNext ==
  ASSUME WebInv, [Next]_vars
  PROVE  WebInv'
<1> USE DEF WebInv
<1>1. /\ tab' \in Tabs /\ page' \in DOMAIN Pages /\ session' \in Accounts /\ TabInv'
      /\ tab'.last \subseteq DOMAIN cache
  BY TabNext
<1>2. WritesStep
  BY WritesNext
<1>3. CacheStep
  BY CacheNext
<1>4. ContentInv' /\ content' \in [Items -> Chosen] /\ open' \subseteq Items
  BY <1>2, ContentNext
<1>5. Typed'
  BY <1>1, <1>2, <1>3, <1>4, WorldNext DEF Typed, WritesStep, CacheStep
<1>6. WritesInv'
  BY <1>2 DEF WritesStep, WritesInv
<1>7. MissesInv' /\ DataInv' /\ ShownInv'
  BY <1>2, <1>3, MissesNext, DataNext, ShownNext
<1> QED BY <1>1, <1>4, <1>5, <1>6, <1>7

LEMMA WebInvariant == Spec => []WebInv
<1>1. WebInv /\ UNCHANGED vars => WebInv'
  BY WebNext
<1> QED BY WebInit, WebNext, <1>1, PTL DEF Spec

\* Whatever the tab does, its state is that of its page: the filter and what is typed are of the
\* page shown, what it observes is in the cache, what the cache misses are writes of the tab, and a
\* query that has never been answered has no data (use-customers.ts and the other hooks,
\* customer-form.tsx).
THEOREM WebTypes == Spec => []TypeOK
<1>1. WebInv => TypeOK
  <2> SUFFICES ASSUME WebInv PROVE TypeOK
    OBVIOUS
  <2>1. ASSUME NEW x \in DOMAIN cache
        PROVE  /\ x.query \in Queries /\ cache[x].fetch \in {None, "paused", "asked", "read"}
               /\ cache[x].data.misses \cup cache[x].read.misses \subseteq DOMAIN writes
               /\ cache[x].data.late \subseteq cache[x].data.misses
               /\ ~cache[x].has => cache[x].data = Nothing
    <3>1. cache[x] \in Entries /\ x \in AllKeys
      BY DEF WebInv, Typed
    <3>2. x.query \in Queries /\ cache[x].fetch \in {None, "paused", "asked", "read"}
      BY <3>1 DEF Entries, AllKeys
    <3>3. cache[x].data.late \subseteq cache[x].data.misses
      BY <3>1 DEF Entries, Answers
    <3> QED BY <3>2, <3>3 DEF WebInv, MissesInv, Misses, DataInv
  <2>2. ASSUME NEW w \in DOMAIN writes
        PROVE  writes[w].state \in {"paused", "sent", "applied", "done", "refused", "lost"}
    <3>1. writes[w] \in Saves
      BY DEF WebInv, Typed
    <3> QED BY <3>1 DEF Saves
  <2>3. {tab.selected, tab.asking, tab.editing, tab.holds} \subseteq Items \cup {None}
    BY DEF WebInv, Typed, Tabs, Chosen
  <2> QED BY <2>1, <2>2, <2>3 DEF WebInv, Typed, TabInv, TypeOK, Accounts, Roles
<1> QED BY <1>1, WebInvariant, PTL

\* The keys that each form and button invalidates cover what it changes on its page, and each
\* invalidation restarts the fetches of what is shown, or finds one it joins: once all is at rest,
\* a page shows the writes made from it, but for what such a fetch had read before (the onSuccess
\* of the forms and pages).
THEOREM WritesAreShown == Spec => []OwnWritesAreShown
<1>1. WebInv => OwnWritesAreShown
  <2> SUFFICES ASSUME WebInv, AtRest, NEW x \in Mounted, NEW w \in cache[x].data.misses,
                      writes[w].state = "done", writes[w].on = page
               PROVE  cache[x].failed \/ w \in cache[x].data.late
    BY DEF OwnWritesAreShown
  <2>1. x \in DOMAIN cache /\ w \in Misses(cache[x])
    BY DEF WebInv, Typed, Misses
  <2>2. x # Context
    BY <2>1, ContextKey DEF WebInv, MissesInv
  <2>3. x.query \in Seen(page)
    BY <2>2, PageKeys DEF WebInv, Typed, Mounted
  <2>4. cache[x].fetch = None
    BY <2>1 DEF AtRest
  <2> QED BY <2>1, <2>3, <2>4 DEF WebInv, ShownInv
<1> QED BY <1>1, WebInvariant, PTL

\* No route that a page calls to change something asks for a permission of readers, whatever the
\* menu and the buttons offer and whoever signed in before (permissions.guard.ts:25-75).
THEOREM WritersWrite == Spec => []OnlyWritersWrite
<1>1. WebInv => OnlyWritersWrite
  BY DEF WebInv, WritesInv, SaveInv, OnlyWritersWrite, Applied, May, Verbs
<1> QED BY <1>1, WebInvariant, PTL

\* A row takes the values that the form held for it, however rows are modified, cancelled and
\* saved one after the other; but for a save that waited for the network (customer-form.tsx:58-90).
THEOREM RowsKeep == Spec => []RowsKeepTheirValues
<1>1. WebInv => RowsKeepTheirValues
  BY DEF WebInv, ContentInv, RowsKeepTheirValues
<1> QED BY <1>1, WebInvariant, PTL

\* Of what is typed, nothing is lost but to a gesture of the user or to a save of that form that
\* has succeeded (customer-form.tsx:71-94).
THEOREM DraftsStay == Spec => DraftsAreKept
<1> DEFINE Draft(f) ==
      \/ gestures' # gestures
      \/ \E w \in DOMAIN writes :
           writes[w].form = f /\ writes[w].state = "applied" /\ writes'[w].state = "done"
<1>1. ASSUME WebInv, Next, NEW f \in tab.typed \ tab'.typed
      PROVE  Draft(f)
  <2>1. ASSUME Gesture
        PROVE  Draft(f)
    BY <1>1, <2>1 DEF Gesture, WebInv, Typed
  <2>2. tab' # tab
    OBVIOUS
  <2>3. ASSUME NEW w \in DOMAIN writes, Acknowledge(w)
        PROVE  Draft(f)
    <3>1. writes[w].form = f
      <4>1. CASE tab' = [tab EXCEPT !.asking = None]
        BY <1>1, <4>1 DEF WebInv, Typed, Tabs
      <4>2. CASE tab' = [tab EXCEPT !.typed = @ \ {writes[w].form}, !.editing = None, !.holds = None]
        BY <1>1, <4>2 DEF WebInv, Typed, Tabs
      <4> QED BY <2>2, <2>3, <4>1, <4>2 DEF Acknowledge
    <3>2. writes[w].state = "applied" /\ writes' = [writes EXCEPT ![w].state = "done"]
      BY <2>3 DEF Acknowledge
    <3>3. writes \in Seq(Saves) /\ writes[w] \in Saves
      BY <1>1, <2>3 DEF WebInv, Typed
    <3>4. writes'[w] = [writes[w] EXCEPT !.state = "done"]
      BY <3>2, <3>3
    <3>5. writes'[w].state = "done"
      BY <3>3, <3>4 DEF Saves
    <3> QED BY <3>1, <3>2, <3>5
  <2>4. CASE (\E p \in DOMAIN Pages : Go(p)) \/ (\E role : Login(role) \/ Filter(role))
    BY <2>1, <2>4 DEF Go, Login, Filter
  <2>5. CASE \E i : Show(i) \/ Modify(i) \/ Ask(i) \/ Type(i) \/ Submit(i)
    BY <2>1, <2>5 DEF Show, Modify, Ask, Type, Submit
  <2>6. CASE Logout \/ Focus \/ CancelEdit \/ Renounce \/ (\E op, i : Press(op, i))
    BY <2>1, <2>6 DEF Logout, Focus, CancelEdit, Renounce, Press
  <2>7. CASE \E w \in DOMAIN writes : Apply(w) \/ Refuse(w) \/ Lose(w)
    BY <2>2, <2>7 DEF Apply, Refuse, Lose
  <2>8. CASE Disconnect \/ Reconnect
    BY <2>2, <2>8 DEF Disconnect, Reconnect
  <2>9. CASE \E x \in DOMAIN cache : Answer(x) \/ Receive(x) \/ Deny(x) \/ FailToFetch(x)
    BY <2>2, <2>9 DEF Answer, Receive, Deny, FailToFetch
  <2> QED BY <1>1, <2>3, <2>4, <2>5, <2>6, <2>7, <2>8, <2>9 DEF Next
<1>2. WebInv /\ [Next]_vars => [\A f \in tab.typed \ tab'.typed : Draft(f)]_vars
  BY <1>1
<1> QED BY <1>2, WebInvariant, PTL DEF Spec, DraftsAreKept

=============================================================================
