------------------------------ MODULE MCWebPages ------------------------------
(***************************************************************************)
(* The roles and pages that WebPages is model checked with.                *)
(***************************************************************************)
EXTENDS WebPages, TLC

AllFeatures == Business \cup {"accounting", "reports"}

Start(role, p, features, restricted, visits, others) ==
  [role |-> role, page |-> p, features |-> features, restricted |-> restricted,
   visits |-> visits, others |-> others]

Plain(role, p) == Start(role, p, AllFeatures, FALSE, {}, {})

\* Every role on every page, opened by its address.
Alone ==
  {Plain(role, p) : role \in DOMAIN DEFAULT_ROLE_PERMISSIONS, p \in DOMAIN Pages \ {"home"}}

\* Plans without the feature, or restricted.
Poor ==
  {Start("ADMIN", "purchases", AllFeatures \ {"purchases"}, FALSE, {}, {}),
   Start("ADMIN", "suppliers", AllFeatures, TRUE, {}, {})}

\* From a page to another by the menu, and one account after another in the tab.
Around ==
  {Start("ADMIN", "invoicing", AllFeatures, FALSE, {"stock", "invoicing"}, {}),
   Start("ADMIN", "products", AllFeatures, FALSE, {"stock", "products"}, {})}

Another == Start("ADMIN", "users", AllFeatures, FALSE, {"users"}, {"LECTEUR"})

StartsDef == Alone \cup Poor \cup Around \cup {Another}

Documented == {"sales", "purchases", "invoicing"}

GesturesDef ==
  [s \in StartsDef |->
     CASE s = Another -> 5
       [] s \in Around -> IF s.page = "invoicing" THEN 2 ELSE 4
       [] s \in {Plain("ADMIN", "clients"), Plain("ADMIN", "stock")} -> 4
       [] s.page \in {"accounting", "users", "suppliers", "products"} /\ s.role = "ADMIN" -> 3
       [] s.page \in Documented /\ s.role # "ADMIN" -> 1
       [] OTHER -> 2]

Rows == Permutations(Items)
=============================================================================
