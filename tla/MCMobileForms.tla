---------------------------- MODULE MCMobileForms ----------------------------
(***************************************************************************)
(* Instances of MobileForms for model checking: all the forms, or those    *)
(* that edit a fiche.                                                      *)
(***************************************************************************)
EXTENDS MobileForms

AllForms ==
  {"client", "supplier", "product", "account", "sale", "purchase", "movement", "entry", "invoice"}
FicheForms == {"client"}

Documents == {"sale", "purchase", "entry", "movement", "invoice", "account"}

\* The shortest entry takes five inputs, the other documents two or three.
KeysDef == [n \in AllForms |-> IF n = "entry" THEN 6 ELSE IF n \in Documents THEN 4 ELSE 2]
OpeningsDef == [n \in AllForms |-> IF n \in {"invoice", "account"} THEN 2 ELSE 1]
MutationsDef == [n \in AllForms |-> IF n = "entry" THEN 1 ELSE 2]

\* Nothing, a negative number, a fraction.
TypedDef == {0, -2, 3}
=============================================================================
