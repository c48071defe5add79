---------------------------- MODULE MCMobileViews ----------------------------
(***************************************************************************)
(* The screens of Home visited when MobileViews is model checked.          *)
(***************************************************************************)
EXTENDS MobileViews

RootsDef == HomeScreen

\* Customers, suppliers and products are listed alike, purchases and invoices as sales are.
Shorter == {"ClientsList", "SuppliersList", "ProductsList", "PurchasesList", "InvoicesList"}

GesturesDef == [r \in RootsDef |-> IF r \in Shorter THEN 4 ELSE 5]
=============================================================================
