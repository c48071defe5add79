-------------------------------- MODULE Access --------------------------------
(***************************************************************************)
(* Who may call what: the permissions and default roles of                 *)
(* packages/permissions, the routes of the controllers of apps/api with    *)
(* what their decorators require, and the guards that stand before them.   *)
(* Entitlements models how the plan and its features are known; here they  *)
(* are given.                                                              *)
(***************************************************************************)
Business ==
  {"clients", "suppliers", "products", "sales", "purchases", "invoicing", "stock"}

Crud == {"read", "create", "update", "delete"}

\* A permission is a module and a verb.
PERMISSION_KEYS ==
  (Business \X Crud)
    \cup ({"accounting"} \X {"read", "create", "update"})
    \cup {<<"reports", "read">>}
    \cup ({"users", "settings", "billing"} \X {"manage"})

ALL_PERMISSIONS == PERMISSION_KEYS

ALL_READ == {p \in PERMISSION_KEYS : p[2] = "read"}

DEFAULT_ROLE_PERMISSIONS ==
  [ADMIN |-> ALL_PERMISSIONS,
   COMPTABLE |->
     ({"accounting"} \X {"read", "create", "update"})
       \cup ({"reports", "clients", "suppliers", "sales", "purchases"} \X {"read"})
       \cup ({"invoicing"} \X Crud),
   COMMERCIAL |->
     ({"clients", "sales"} \X {"read", "create", "update"})
       \cup ({"invoicing"} \X {"read", "create"})
       \cup ({"products", "reports"} \X {"read"}),
   CAISSIER |->
     ({"sales"} \X {"read", "create"})
       \cup ({"invoicing"} \X {"read", "create", "update"})
       \cup ({"stock", "clients"} \X {"read"}),
   MAGASINIER |->
     ({"stock"} \X Crud)
       \cup ({"products"} \X {"read", "update"})
       \cup ({"purchases", "suppliers"} \X {"read"}),
   GESTIONNAIRE |-> (Business \X Crud) \cup ({"accounting", "reports"} \X {"read"}),
   LECTEUR |-> ALL_READ]

-----------------------------------------------------------------------------
(* The routes: the permission (RequirePermission) and the feature          *)
(* (RequiresFeature) each one needs, and whether it only reads.            *)

Open == <<"", "">>

\* A route of a module whose name is also that of the feature.
Route(module, verb) ==
  [needs |-> <<module, verb>>, feature |-> module, reads |-> verb = "read"]

CustomersController ==
  [listCustomers |-> Route("clients", "read"), createCustomer |-> Route("clients", "create"),
   updateCustomer |-> Route("clients", "update"),
   deactivateCustomer |-> Route("clients", "delete")]

SuppliersController ==
  [listSuppliers |-> Route("suppliers", "read"), createSupplier |-> Route("suppliers", "create"),
   updateSupplier |-> Route("suppliers", "update"),
   deactivateSupplier |-> Route("suppliers", "delete")]

ProductsController ==
  [listProducts |-> Route("products", "read"), createProduct |-> Route("products", "create"),
   updateProduct |-> Route("products", "update"),
   deactivateProduct |-> Route("products", "delete")]

\* Faulty variant: whoever sees a sale may settle it.
SalesOfReaders ==
  [listSales |-> Route("sales", "read"), getSale |-> Route("sales", "read"),
   createSale |-> Route("sales", "create"), confirmSale |-> Route("sales", "read"),
   cancelSale |-> Route("sales", "delete")]

SalesController ==
  [listSales |-> Route("sales", "read"), getSale |-> Route("sales", "read"),
   createSale |-> Route("sales", "create"), confirmSale |-> Route("sales", "update"),
   cancelSale |-> Route("sales", "delete")]

PurchasesController ==
  [listPurchases |-> Route("purchases", "read"), getPurchase |-> Route("purchases", "read"),
   createPurchase |-> Route("purchases", "create"),
   confirmPurchase |-> Route("purchases", "update"),
   cancelPurchase |-> Route("purchases", "delete")]

InvoicingController ==
  [listInvoices |-> Route("invoicing", "read"), getInvoice |-> Route("invoicing", "read"),
   createInvoice |-> Route("invoicing", "create"), markPaid |-> Route("invoicing", "update"),
   voidInvoice |-> Route("invoicing", "delete")]

StockController ==
  [listStock |-> Route("stock", "read"), listMovements |-> Route("stock", "read"),
   createMovement |-> Route("stock", "create")]

AccountsController ==
  [listAccounts |-> Route("accounting", "read"), createAccount |-> Route("accounting", "create")]

JournalController ==
  [listEntries |-> Route("accounting", "read"), createEntry |-> Route("accounting", "create")]

TrialBalanceController == [trialBalance |-> Route("accounting", "read")]

ReportsController ==
  [salesReport |-> Route("reports", "read"), purchasesReport |-> Route("reports", "read"),
   incomeStatement |-> Route("reports", "read")]

\* No feature: the users of an enterprise are no module of a plan.
UsersController ==
  [myContext |-> [needs |-> Open, feature |-> "", reads |-> TRUE],
   listUsers |-> [needs |-> <<"users", "manage">>, feature |-> "", reads |-> TRUE],
   inviteUser |-> [needs |-> <<"users", "manage">>, feature |-> "", reads |-> FALSE]]

RolesController ==
  [listRoles |-> [needs |-> <<"users", "manage">>, feature |-> "", reads |-> TRUE]]

Controllers ==
  {CustomersController, SuppliersController, ProductsController, SalesController,
   PurchasesController, InvoicingController, StockController, AccountsController,
   JournalController, TrialBalanceController, ReportsController, UsersController,
   RolesController}

\* Every route belongs to one controller.
Routes ==
  [name \in UNION {DOMAIN c : c \in Controllers} |->
     (CHOOSE c \in Controllers : name \in DOMAIN c)[name]]

-----------------------------------------------------------------------------
(* The guards, in the order of UseGuards; role is that of the account.     *)

PermissionsGuard(route, role) ==
  route.needs = Open \/ route.needs \in DEFAULT_ROLE_PERMISSIONS[role]

FeatureGuard(route, features) == route.feature = "" \/ route.feature \in features

\* A subscription that is restricted still reads.
SubscriptionAccessGuard(route, restricted) == route.reads \/ ~restricted

CanActivate(name, role, features, restricted) ==
  LET route == Routes[name]
  IN  /\ PermissionsGuard(route, role)
      /\ FeatureGuard(route, features)
      /\ SubscriptionAccessGuard(route, restricted)
=============================================================================
