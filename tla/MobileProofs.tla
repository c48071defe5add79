---------------------------- MODULE MobileProofs ----------------------------
(***************************************************************************)
(* What is proved of the mobile application.                               *)
(*                                                                         *)
(* First, of MobileForms, for any forms offered, options, numbers and      *)
(* bounds.  The table of the forms is the program's; the lemmas of the     *)
(* first section read it once for all.                                     *)
(*                                                                         *)
(* Then, of MobileViews, for any screens of Home, rows and bounds.  The    *)
(* screens, the queries and the hooks are the program's: lemmas read their *)
(* tables in the same way.                                                 *)
(***************************************************************************)
EXTENDS MobileForms, MobileViews, SequenceTheorems, FiniteSetTheorems, WellFoundedInduction,
        TLAPS

Values ==
  {Unset, Null, "blank", "malformed", "b", "default", "a", "c", "IN", "OUT", "ADJUSTMENT"}
    \cup Options

Fields(n) == [DOMAIN FormOf[n].fields -> Values]

Drafts(n) ==
  [name : {n}, editing : BOOLEAN, opening : Nat, saving : BOOLEAN, error : BOOLEAN,
   sign : {1, -1}, lines : Seq(LineOK), fields : Fields(n)]

Steps == {"queued", "passing", "asserting", "returned"}

Mutations(n) ==
  [name : {n}, editing : BOOLEAN, opening : Nat, fields : Fields(n) \cup {<<>>},
   lines : Seq(LineOK), base : Fields(n) \cup {NoFiche}, typed : SUBSET DOMAIN FormOf[n].fields,
   state : {"pending", "done", "failed"}, online : BOOLEAN, step : Steps]

-----------------------------------------------------------------------------
(* The forms, one by one.                                                  *)

LEMMA FormTable ==
  /\ DOMAIN FormOf = {"client", "supplier", "product", "account", "sale", "purchase",
                       "movement", "entry", "invoice"}
  /\ FormOf["client"] = ClientForm /\ FormOf["supplier"] = SupplierForm
  /\ FormOf["product"] = ProductForm /\ FormOf["account"] = AccountForm
  /\ FormOf["sale"] = SaleForm /\ FormOf["purchase"] = PurchaseForm
  /\ FormOf["movement"] = MovementForm /\ FormOf["entry"] = EntryForm
  /\ FormOf["invoice"] = InvoiceForm
BY DEF FormOf

LEMMA Catalogue == Fiches = {"client", "supplier", "product"}
BY FormTable DEF Fiches, ClientForm, SupplierForm, ProductForm, AccountForm, SaleForm,
   PurchaseForm, MovementForm, EntryForm, InvoiceForm

\* What a form starts with is of its shape.
LEMMA FormShapes ==
  ASSUME NEW n \in DOMAIN FormOf
  PROVE  /\ FormOf[n].fields \in Fields(n)
         /\ FormOf[n].empty \in Seq(LineOK)
         /\ FormOf[n].least \in Nat /\ Len(FormOf[n].empty) >= FormOf[n].least
<1>1. EmptyLine \in LineOK /\ [EmptyLine EXCEPT !.first = 2] \in LineOK
  BY DEF EmptyLine, LineOK
<1>2. CASE n = "client"
  BY <1>1, <1>2, FormTable DEF ClientForm, Fields, Values, Unset
<1>3. CASE n = "supplier"
  BY <1>1, <1>3, FormTable DEF SupplierForm, Fields, Values, Unset
<1>4. CASE n = "product"
  BY <1>1, <1>4, FormTable DEF ProductForm, Fields, Values, Unset
<1>5. CASE n = "account"
  BY <1>1, <1>5, FormTable DEF AccountForm, Fields, Values, Unset
<1>6. CASE n = "sale"
  BY <1>1, <1>6, FormTable DEF SaleForm, Fields, Values, Unset
<1>7. CASE n = "purchase"
  BY <1>1, <1>7, FormTable DEF PurchaseForm, Fields, Values, Unset
<1>8. CASE n = "movement"
  BY <1>1, <1>8, FormTable DEF MovementForm, Fields, Values, Unset
<1>9. CASE n = "entry"
  BY <1>1, <1>9, FormTable DEF EntryForm, Fields, Values, Unset
<1>10. CASE n = "invoice"
  BY <1>1, <1>10, FormTable DEF InvoiceForm, Fields, Values, Unset
<1> QED BY <1>2, <1>3, <1>4, <1>5, <1>6, <1>7, <1>8, <1>9, <1>10, FormTable

\* Only a product has a rate, and a field with a rule of its own.
LEMMA Rates ==
  ASSUME NEW n \in DOMAIN FormOf, NEW x \in DOMAIN FormOf[n].fields, FormOf[n].schema[x] = "rate"
  PROVE  n = "product" /\ x = "rate" /\ FormOf[n].fields[x] = "default"
<1>1. CASE n \in {"client", "supplier", "product", "account"}
  BY <1>1, FormTable DEF ClientForm, SupplierForm, ProductForm, AccountForm, CustomerSchema,
     SupplierSchema, ProductSchema, AccountSchema
<1>2. CASE n \in {"sale", "purchase"}
  BY <1>2, FormTable DEF SaleForm, PurchaseForm, SaleSchema, PurchaseSchema
<1>3. CASE n \in {"movement", "entry", "invoice"}
  BY <1>3, FormTable DEF MovementForm, EntryForm, InvoiceForm, MovementSchema, EntrySchema,
     InvoiceSchema
<1> QED BY <1>1, <1>2, <1>3, FormTable

LEMMA Movements ==
  /\ DOMAIN FormOf["movement"].fields = {"party", "type", "note"}
  /\ FormOf["movement"].fields["type"] = "IN" /\ FormOf["movement"].least = 1
  /\ FormOf["movement"].schema["type"] = "choice"
  /\ Len(FormOf["movement"].empty) = 1 /\ FormOf["movement"].empty[1].first = 0
BY FormTable DEF MovementForm, MovementSchema, EmptyLine

\* No field of a fiche is that of a fiche that is not there.
LEMMA FichesAreThere ==
  ASSUME NEW n \in Fiches, NEW f \in Fields(n)
  PROVE  f # NoFiche
<1>1. "missing" \notin DOMAIN FormOf[n].fields
  BY Catalogue, FormTable DEF ClientForm, SupplierForm, ProductForm
<1> QED BY <1>1 DEF Fields, NoFiche

LEMMA StoredFiche ==
  ASSUME NEW n \in Fiches
  PROVE  Stored(n) \in Fields(n)
BY DEF Stored, Fields, Values

-----------------------------------------------------------------------------
(* Sequences and numbers.                                                  *)

LEMMA OneIsOldest ==
  ASSUME NEW S \in SUBSET Nat, S # {}
  PROVE  \E r \in S : \A p \in S : r <= p
<1>1. \E r \in S : \A p \in S : ~(<<p, r>> \in OpToRel(<, Nat))
  BY NatLessThanWellFounded, WFMin
<1>2. PICK r \in S : \A p \in S : ~(<<p, r>> \in OpToRel(<, Nat))
  BY <1>1
<1>3. ASSUME NEW p \in S
      PROVE  r <= p
  <2>1. ~(p < r)
    BY <1>2 DEF OpToRel
  <2> QED BY <2>1
<1> QED BY <1>3

LEMMA OneRemoved ==
  ASSUME NEW T, NEW s \in Seq(T), NEW i \in DOMAIN s
  PROVE  RemoveAt(s, i) \in Seq(T) /\ Len(RemoveAt(s, i)) = Len(s) - 1
<1>1. i \in 1 .. Len(s) /\ Len(s) \in Nat
  OBVIOUS
<1>2. /\ SubSeq(s, 1, i - 1) \in Seq(T) /\ Len(SubSeq(s, 1, i - 1)) = i - 1
      /\ SubSeq(s, i + 1, Len(s)) \in Seq(T) /\ Len(SubSeq(s, i + 1, Len(s))) = Len(s) - i
  BY <1>1, SubSeqProperties
<1>3. /\ SubSeq(s, 1, i - 1) \o SubSeq(s, i + 1, Len(s)) \in Seq(T)
      /\ Len(SubSeq(s, 1, i - 1) \o SubSeq(s, i + 1, Len(s))) = (i - 1) + (Len(s) - i)
  BY <1>2, ConcatProperties
<1>4. (i - 1) + (Len(s) - i) = Len(s) - 1
  BY <1>1
<1> QED BY <1>3, <1>4 DEF RemoveAt

LEMMA Numbers ==
  ASSUME NEW k \in Int
  PROVE  /\ Magnitude(k) \in Int /\ Magnitude(k) >= 0 /\ Whole(k) \in Int
         /\ Magnitude(k) = 0 => k = 0
<1>1. Magnitude(k) \in Int /\ Magnitude(k) >= 0 /\ (Magnitude(k) = 0 => k = 0)
  BY DEF Magnitude
<1>2. Magnitude(k) \div 2 \in Int
  BY <1>1
<1> QED BY <1>1, <1>2 DEF Whole

-----------------------------------------------------------------------------
(* The invariant.                                                          *)

\* The shape of every part of the state.
FormsTyped ==
  /\ subject \in Offered
  /\ form \in Drafts(subject) \cup {Closed}
  /\ opening \in Nat /\ typed \subseteq Names /\ keys \in Nat
  /\ listed \subseteq Options /\ active \subseteq listed
  /\ rows \in Seq(Mutations(subject))
  /\ online \in BOOLEAN /\ changes \in Nat

\* A form keeps its lines, and a movement its one line.
LinesInv ==
  IsOpen =>
    /\ Len(form.lines) >= FormOf[subject].least
    /\ subject = "movement" => Len(form.lines) = 1

\* A pass reads rows that are pending, and whoever waits for a pass has one.
PassInv ==
  /\ \A r \in pass : r \in DOMAIN rows /\ rows[r].state = "pending"
  /\ \A r \in DOMAIN rows : rows[r].step = "passing" => pass # {}

\* What an opening has sent: one row at most is not refused, and until it has returned it is
\* the last; the form can only be sent again once all have returned, refused.
OpeningInv ==
  /\ \A r \in DOMAIN rows : rows[r].opening \in 1 .. opening
  /\ \A r, q \in DOMAIN rows :
       rows[r].opening = rows[q].opening /\ r # q =>
         /\ rows[r].state = "failed" \/ rows[q].state = "failed"
         /\ rows[r].step # "returned" =>
              q < r /\ rows[q].state = "failed" /\ rows[q].step = "returned"
  /\ IsOpen =>
       /\ form.opening = opening /\ opening > 0
       /\ ~form.saving => \A r \in DOMAIN rows :
            rows[r].opening = opening => rows[r].state = "failed" /\ rows[r].step = "returned"

\* A rate is never null, and has a value in a fiche and in what is sent.
RateIsKnown(n, f) ==
  \A x \in DOMAIN FormOf[n].fields : FormOf[n].schema[x] = "rate" => f[x] # Null

RateIsSet(n, f) ==
  \A x \in DOMAIN FormOf[n].fields : FormOf[n].schema[x] = "rate" => f[x] \notin {Null, Unset}

\* A form that edits and its fiche agree on what has not been typed.
FicheInv ==
  /\ record \in IF subject \in Fiches THEN Fields(subject) ELSE {NoFiche}
  /\ loaded \in {NoFiche} \cup (IF subject \in Fiches THEN Fields(subject) ELSE {})
  /\ \A f \in {record, loaded} \ {NoFiche} : RateIsSet(subject, f)
  /\ IsOpen =>
       /\ RateIsKnown(subject, form.fields)
       /\ form.editing => subject \in Fiches
       /\ form.editing /\ loaded # NoFiche =>
            \A x \in Names \ typed : form.fields[x] = ToFormValues(loaded)[x]

\* A row that waits changes what was typed, and leaves or repeats the rest.
RowsInv ==
  \A r \in DOMAIN rows :
    /\ rows[r].editing => subject \in Fiches
    /\ rows[r].state = "pending" =>
         /\ rows[r].fields \in Fields(subject) /\ RateIsSet(subject, rows[r].fields)
         /\ rows[r].editing /\ rows[r].base # NoFiche =>
              \A x \in Names \ rows[r].typed : rows[r].fields[x] \in {rows[r].base[x], Unset}

FormsInv ==
  /\ FormsTyped /\ LinesInv /\ PassInv /\ OpeningInv /\ FicheInv /\ RowsInv
  /\ SignIsShown

LEMMA OpenForm ==
  ASSUME FormsTyped, IsOpen
  PROVE  /\ form \in Drafts(subject) /\ form.name = subject
         /\ subject \in DOMAIN FormOf /\ Names = DOMAIN form.fields
         /\ DOMAIN form.lines = 1 .. Len(form.lines) /\ Len(form.lines) \in Nat
BY OfferedAssumption DEF FormsTyped, IsOpen, Drafts, Fields, Names

-----------------------------------------------------------------------------
(* Inputs.                                                                 *)

\* What an input changes: fields, which it marks as typed, or lines.
InputMove ==
  /\ IsOpen /\ form' \in Drafts(subject)
  /\ form'.editing = form.editing /\ form'.opening = form.opening
  /\ form'.saving = form.saving
  /\ typed \subseteq typed' /\ typed' \subseteq Names
  /\ \A x \in Names \ typed' : form'.fields[x] = form.fields[x]
  /\ RateIsKnown(subject, form'.fields)
  /\ Len(form'.lines) >= FormOf[subject].least
  /\ subject = "movement" => Len(form'.lines) = 1
  /\ SignIsShown'
  /\ keys' \in Nat
  /\ UNCHANGED <<subject, opening, lists, rows, pass, online, fiche, changes>>

\* A field is filled.
LEMMA FillMoves ==
  ASSUME FormsInv, Input, NEW x \in Names, NEW v \in Values, Fill(x, v),
         FormOf[subject].schema[x] = "rate" => v # Null,
         subject = "movement" => x # "type"
  PROVE  InputMove
<1>1. /\ form \in Drafts(subject) /\ form.name = subject /\ subject \in DOMAIN FormOf
      /\ Names = DOMAIN form.fields /\ IsOpen
  BY OpenForm DEF FormsInv, Input
<1>2. form' = [form EXCEPT !.fields = [form.fields EXCEPT ![x] = v]] /\ typed' = typed \cup {x}
  BY DEF Fill
<1>3. [form.fields EXCEPT ![x] = v] \in Fields(subject)
  BY <1>1 DEF Drafts, Fields, Names
<1>4. /\ form' \in Drafts(subject) /\ form'.name = subject
      /\ form'.fields = [form.fields EXCEPT ![x] = v]
      /\ form'.lines = form.lines /\ form'.sign = form.sign /\ form'.saving = form.saving
      /\ form'.editing = form.editing /\ form'.opening = form.opening
  BY <1>1, <1>2, <1>3 DEF Drafts
<1>5. \A y \in Names : form'.fields[y] = IF y = x THEN v ELSE form.fields[y]
  BY <1>1, <1>4
<1>6. RateIsKnown(subject, form'.fields)
  BY <1>1, <1>5 DEF FormsInv, FicheInv, RateIsKnown, Names
<1>7. SignIsShown'
  <2> SUFFICES ASSUME subject = "movement" PROVE SignIsShown'
    BY <1>4 DEF SignIsShown
  <2>1. form'.fields.type = form.fields.type
    BY <1>5, Movements DEF Names
  <2> QED BY <1>1, <1>4, <2>1 DEF FormsInv, SignIsShown, IsOpen
<1>8. typed \subseteq Names /\ keys + 1 \in Nat
  BY DEF FormsInv, FormsTyped
<1>9. Len(form'.lines) >= FormOf[subject].least /\ (subject = "movement" => Len(form'.lines) = 1)
  BY <1>1, <1>4 DEF FormsInv, LinesInv
<1>10. \A y \in Names \ typed' : form'.fields[y] = form.fields[y]
  BY <1>2, <1>5
<1>11. keys' \in Nat /\ typed \subseteq typed' /\ typed' \subseteq Names
  BY <1>2, <1>8 DEF Input
<1> QED BY <1>1, <1>4, <1>6, <1>7, <1>9, <1>10, <1>11 DEF InputMove, Input

\* The lines change, with the sign at most.
LEMMA LinesMove ==
  ASSUME FormsInv, Input, NEW l \in Seq(LineOK), NEW s \in {1, -1},
         form' = [form EXCEPT !.lines = l, !.sign = s], typed' = typed,
         Len(l) >= FormOf[subject].least,
         subject = "movement" =>
           /\ Len(l) = 1
           /\ IF form.fields.type = "ADJUSTMENT"
              THEN l[1].first # 0 => (l[1].first < 0 <=> s = -1)
              ELSE s = 1 /\ l[1].first >= 0
  PROVE  InputMove
<1>1. /\ form \in Drafts(subject) /\ form.name = subject /\ IsOpen
  BY OpenForm DEF FormsInv, Input
<1>2. /\ form' \in Drafts(subject) /\ form'.name = subject
      /\ form'.fields = form.fields /\ form'.lines = l /\ form'.sign = s
      /\ form'.saving = form.saving
      /\ form'.editing = form.editing /\ form'.opening = form.opening
  BY <1>1 DEF Drafts
<1>3. SignIsShown'
  BY <1>2 DEF SignIsShown
<1>4. typed \subseteq Names /\ keys + 1 \in Nat
  BY DEF FormsInv, FormsTyped
<1>5. RateIsKnown(subject, form'.fields)
  BY <1>1, <1>2 DEF FormsInv, FicheInv
<1> QED BY <1>1, <1>2, <1>3, <1>4, <1>5 DEF InputMove, Input

\* A line changes, of a form that is not a movement.
LEMMA LineMoves ==
  ASSUME FormsInv, Input, NEW i \in DOMAIN form.lines, NEW line \in LineOK, SetLine(i, line),
         subject # "movement"
  PROVE  InputMove
<1>1. /\ form \in Drafts(subject) /\ form.lines \in Seq(LineOK) /\ IsOpen
      /\ form.sign \in {1, -1}
  BY OpenForm DEF FormsInv, Input, Drafts
<1> DEFINE l == [form.lines EXCEPT ![i] = line]
<1>2. l \in Seq(LineOK) /\ Len(l) = Len(form.lines)
  BY <1>1
<1>3. form' = [form EXCEPT !.lines = l, !.sign = form.sign] /\ typed' = typed
  <2>1. form' = [form EXCEPT !.lines = l] /\ typed' = typed
    BY DEF SetLine
  <2> HIDE DEF l
  <2> QED BY <1>1, <2>1 DEF Drafts
<1>4. Len(l) >= FormOf[subject].least
  BY <1>1, <1>2 DEF FormsInv, LinesInv
<1> QED BY <1>1, <1>2, <1>3, <1>4, LinesMove

\* The line of a movement changes, with its sign at most.
LEMMA MovementMoves ==
  ASSUME FormsInv, Input, subject = "movement", NEW q \in Int, NEW s \in {1, -1},
         form' = [form EXCEPT !.lines = [form.lines EXCEPT ![1] = [form.lines[1] EXCEPT !.first = q]],
                              !.sign = s],
         typed' = typed,
         IF form.fields.type = "ADJUSTMENT" THEN q # 0 => (q < 0 <=> s = -1) ELSE s = 1 /\ q >= 0
  PROVE  InputMove
<1>1. /\ form \in Drafts(subject) /\ form.lines \in Seq(LineOK) /\ IsOpen
      /\ Len(form.lines) = 1 /\ FormOf[subject].least = 1
  BY OpenForm, Movements DEF FormsInv, Input, Drafts, LinesInv
<1> DEFINE line == [form.lines[1] EXCEPT !.first = q]
           l == [form.lines EXCEPT ![1] = line]
<1>2. form.lines[1] \in LineOK
  BY <1>1
<1>3. line \in LineOK /\ line.first = q
  BY <1>2 DEF LineOK
<1>4. l \in Seq(LineOK) /\ Len(l) = 1 /\ l[1] = line
  <2> HIDE DEF line
  <2> QED BY <1>1, <1>3
<1> HIDE DEF line
<1>5. l[1].first = q
  BY <1>3, <1>4
<1>6. form' = [form EXCEPT !.lines = l, !.sign = s]
  BY DEF line
<1> HIDE DEF l
<1>7. Len(l) >= FormOf[subject].least
  BY <1>1, <1>4
<1>8. IF form.fields.type = "ADJUSTMENT"
      THEN l[1].first # 0 => (l[1].first < 0 <=> s = -1)
      ELSE s = 1 /\ l[1].first >= 0
  BY <1>5
<1> QED BY <1>4, <1>6, <1>7, <1>8, LinesMove

LEMMA SignOf ==
  ASSUME NEW k \in Int, k >= 0, NEW s \in {1, -1}
  PROVE  s * k \in Int /\ (s * k # 0 => (s * k < 0 <=> s = -1))
<1>1. CASE s = 1
  BY <1>1
<1>2. CASE s = -1
  <2>1. s * k = -k
    BY <1>2
  <2> QED BY <1>2, <2>1
<1> QED BY <1>1, <1>2

LEMMA MovementLines ==
  ASSUME FormsInv, IsOpen, subject = "movement"
  PROVE  /\ form \in Drafts(subject) /\ form.name = subject /\ form.lines \in Seq(LineOK)
         /\ Len(form.lines) = 1 /\ form.lines[1] \in LineOK /\ form.lines[1].first \in Int
<1>1. /\ form \in Drafts(subject) /\ form.name = subject /\ form.lines \in Seq(LineOK)
      /\ Len(form.lines) = 1
  BY OpenForm DEF FormsInv, Drafts, LinesInv
<1>2. form.lines[1] \in LineOK
  BY <1>1
<1> QED BY <1>1, <1>2 DEF LineOK

\* A correction becomes an entry or an exit, or the contrary.
LEMMA TypeMoves ==
  ASSUME FormsInv, Input, NEW type \in {"IN", "OUT", "ADJUSTMENT"}, form.name = "movement",
         form' = IF type = "ADJUSTMENT"
                 THEN [form EXCEPT !.fields.type = type]
                 ELSE [form EXCEPT !.fields.type = type, !.sign = 1,
                                   !.lines[1].first = Magnitude(@)],
         typed' = typed \cup {"type"}
  PROVE  InputMove
<1>1. IsOpen /\ FormsTyped /\ subject = "movement"
  BY OpenForm DEF Input, FormsInv
<1>2. /\ form \in Drafts(subject) /\ form.name = subject /\ form.lines \in Seq(LineOK)
      /\ Len(form.lines) = 1 /\ form.lines[1] \in LineOK /\ form.lines[1].first \in Int
  BY <1>1, MovementLines
<1>3. /\ Names = {"party", "type", "note"} /\ DOMAIN form.fields = Names /\ type \in Values
      /\ FormOf[subject].least = 1
  BY <1>1, OpenForm, Movements DEF Names, Values
<1> DEFINE f == [form.fields EXCEPT !["type"] = type]
           q == Magnitude(form.lines[1].first)
           line == [form.lines[1] EXCEPT !.first = q]
           l == [form.lines EXCEPT ![1] = line]
<1>4. f \in Fields(subject) /\ f.type = type /\ \A x \in Names \ {"type"} : f[x] = form.fields[x]
  BY <1>2, <1>3 DEF Drafts, Fields, Names
<1>5. q \in Int /\ q >= 0
  BY <1>2, Numbers
<1>6. line \in LineOK /\ line.first = q
  <2> HIDE DEF q
  <2> QED BY <1>2, <1>5 DEF LineOK
<1>7. l \in Seq(LineOK) /\ Len(l) = 1 /\ l[1].first = q
  <2> HIDE DEF line, q
  <2> QED BY <1>2, <1>6
<1>8. form' = IF type = "ADJUSTMENT" THEN [form EXCEPT !.fields = f]
              ELSE [form EXCEPT !.fields = f, !.sign = 1, !.lines = l]
  OBVIOUS
<1> HIDE DEF f, q, line, l
<1>9. /\ form' \in Drafts(subject) /\ form'.name = "movement" /\ form'.fields = f
      /\ form'.editing = form.editing /\ form'.opening = form.opening
      /\ form'.saving = form.saving
      /\ type = "ADJUSTMENT" => form'.lines = form.lines /\ form'.sign = form.sign
      /\ type # "ADJUSTMENT" => form'.lines = l /\ form'.sign = 1
  BY <1>1, <1>2, <1>4, <1>7, <1>8, ZenonT(40) DEF Drafts
<1>10. SignIsShown'
  <2>1. CASE type = "ADJUSTMENT"
    <3>1. IF form.fields.type = "ADJUSTMENT"
          THEN form.lines[1].first # 0 => (form.lines[1].first < 0 <=> form.sign = -1)
          ELSE form.sign = 1 /\ form.lines[1].first >= 0
      BY <1>1, <1>2 DEF FormsInv, SignIsShown
    <3> QED BY <1>2, <1>4, <1>9, <2>1, <3>1 DEF SignIsShown
  <2>2. CASE type # "ADJUSTMENT"
    BY <1>4, <1>5, <1>7, <1>9, <2>2 DEF SignIsShown
  <2> QED BY <2>1, <2>2
<1>11. RateIsKnown(subject, form'.fields)
  BY <1>1, <1>9, Rates, FormTable DEF RateIsKnown
<1>12. Len(form'.lines) = 1
  BY <1>2, <1>7, <1>9
<1>13. typed \subseteq typed' /\ typed' \subseteq Names /\ keys' \in Nat
  BY <1>1, <1>3 DEF FormsTyped, Input
<1>14. \A x \in Names \ typed' : form'.fields[x] = form.fields[x]
  BY <1>4, <1>9
<1> QED BY <1>1, <1>3, <1>9, <1>10, <1>11, <1>12, <1>13, <1>14 DEF InputMove, Input

LEMMA InputsMove ==
  ASSUME FormsInv, Inputs
  PROVE  InputMove
<1>0. {Unset, "blank", "malformed", "b"} \cup Options \subseteq Values
  BY DEF Values
<1>1. /\ FormsTyped /\ LinesInv /\ SignIsShown /\ Typed \subseteq Int
  BY FormsAssumption DEF FormsInv
<1>2. ASSUME NEW x \in Names, NEW v \in {Unset, "blank", "malformed", "b"}, TypeText(x, v)
      PROVE  InputMove
  <2>1. form.name = subject /\ Input /\ Fill(x, v) /\ v \in Values
    BY <1>0, <1>1, <1>2, OpenForm DEF TypeText, Input
  <2>2. FormOf[subject].schema[x] \in {"required", "optional", "email", "code"}
    BY <1>2, <2>1 DEF TypeText
  <2>3. subject = "movement" => x # "type"
    BY <2>2, Movements
  <2> QED BY <2>1, <2>2, <2>3, FillMoves
<1>3. ASSUME NEW x \in Names, NEW v \in {Unset, "blank", "malformed", "b"}, TypeNumber(x, v)
      PROVE  InputMove
  <2>1. form.name = subject /\ Input /\ Fill(x, v) /\ v \in Values /\ v # Null
    BY <1>0, <1>1, <1>3, OpenForm DEF TypeNumber, Input, Unset, Null
  <2>2. FormOf[subject].schema[x] \in {"amount", "rate"}
    BY <1>3, <2>1 DEF TypeNumber
  <2>3. subject = "movement" => x # "type"
    BY <2>2, Movements
  <2> QED BY <2>1, <2>2, <2>3, FillMoves
<1>4. ASSUME NEW o \in Options, PickParty(o)
      PROVE  InputMove
  <2>1. form.name = subject /\ Input /\ Fill("party", o) /\ o \in Values
    BY <1>0, <1>1, <1>4, OpenForm DEF PickParty, Input
  <2>2. subject \in {"sale", "invoice", "purchase", "movement"}
    BY <1>4, <2>1 DEF PickParty
  <2>3. subject # "product" /\ "party" \in Names
    BY <2>2, FormTable DEF Names, SaleForm, InvoiceForm, PurchaseForm, MovementForm
  <2>4. subject \in DOMAIN FormOf
    BY <2>2, FormTable
  <2>5. FormOf[subject].schema["party"] # "rate"
    BY <2>3, <2>4, Rates DEF Names
  <2> QED BY <2>1, <2>3, <2>5, FillMoves
<1>5. ASSUME NEW i \in Lines, NEW o \in Options, PickInLine(i, o), form.name \in {"sale", "purchase", "entry"}
      PROVE  InputMove
  <2>1. form.name = subject /\ Input /\ i \in DOMAIN form.lines /\ form.lines \in Seq(LineOK)
    BY <1>1, <1>5, OpenForm DEF PickInLine, Input, Drafts
  <2>2. form.lines[i] \in LineOK
    BY <2>1
  <2>3. [form.lines[i] EXCEPT !.pick = o] \in LineOK
    BY <2>2 DEF LineOK
  <2>4. SetLine(i, [form.lines[i] EXCEPT !.pick = o])
    BY <1>5 DEF PickInLine
  <2> QED BY <1>5, <2>1, <2>3, <2>4, LineMoves
<1>6. ASSUME NEW i \in Lines, NEW n \in Typed, NEW side \in {"first", "second"},
             form.name \in {"sale", "purchase", "entry"}, Input, i \in DOMAIN form.lines,
             SetLine(i, [form.lines[i] EXCEPT ![side] = Whole(n)])
      PROVE  InputMove
  <2>1. form.name = subject /\ form.lines \in Seq(LineOK)
    BY <1>1, <1>6, OpenForm DEF Input, Drafts
  <2>2. form.lines[i] \in LineOK /\ n \in Int
    BY <1>1, <1>6, <2>1
  <2>4. Whole(n) \in Int
    BY <2>2, Numbers
  <2>3. [form.lines[i] EXCEPT ![side] = Whole(n)] \in LineOK
    BY <2>2, <2>4 DEF LineOK
  <2> QED BY <1>6, <2>1, <2>3, LineMoves
<1>7. ASSUME AddLine
      PROVE  InputMove
  <2>1. /\ form.name = subject /\ Input /\ subject \in {"sale", "purchase", "entry"}
        /\ form \in Drafts(subject) /\ typed' = typed
        /\ form' = [form EXCEPT !.lines = Append(form.lines, Head(FormOf[subject].empty))]
    BY <1>1, <1>7, OpenForm DEF AddLine, Input
  <2> DEFINE l == Append(form.lines, Head(FormOf[subject].empty))
  <2>2. Head(FormOf[subject].empty) \in LineOK
    BY <2>1, FormTable DEF SaleForm, PurchaseForm, EntryForm, EmptyLine, LineOK
  <2>3. form.lines \in Seq(LineOK) /\ form.sign \in {1, -1}
    BY <2>1 DEF Drafts
  <2>4. l \in Seq(LineOK) /\ Len(l) = Len(form.lines) + 1
    BY <2>2, <2>3
  <2>5. Len(form.lines) >= FormOf[subject].least /\ FormOf[subject].least \in Nat
    BY <1>1, <2>1, FormShapes, OfferedAssumption DEF LinesInv, Input, FormsTyped
  <2>6. Len(l) >= FormOf[subject].least
    BY <2>3, <2>4, <2>5
  <2> HIDE DEF l
  <2>7. form' = [form EXCEPT !.lines = l, !.sign = form.sign]
    BY <2>1 DEF Drafts, l
  <2> QED BY <2>1, <2>3, <2>4, <2>6, <2>7, LinesMove
<1>8. ASSUME NEW i \in Lines, RemoveLine(i)
      PROVE  InputMove
  <2>1. /\ form.name = subject /\ Input /\ form \in Drafts(subject) /\ typed' = typed
        /\ form' = [form EXCEPT !.lines = RemoveAt(form.lines, i)]
        /\ i \in DOMAIN form.lines /\ Len(form.lines) > FormOf[subject].least
    BY <1>1, <1>8, OpenForm DEF RemoveLine, Input
  <2> DEFINE l == RemoveAt(form.lines, i)
  <2>2. form.lines \in Seq(LineOK) /\ form.sign \in {1, -1}
    BY <2>1 DEF Drafts
  <2>3. l \in Seq(LineOK) /\ Len(l) = Len(form.lines) - 1
    BY <2>1, <2>2, OneRemoved
  <2>4. FormOf[subject].least \in Nat
    BY <1>1, FormShapes, OfferedAssumption DEF FormsTyped
  <2>5. Len(l) >= FormOf[subject].least
    BY <2>1, <2>2, <2>3, <2>4
  <2>6. subject # "movement"
    BY <1>1, <2>1, Movements DEF LinesInv, Input
  <2> HIDE DEF l
  <2>7. form' = [form EXCEPT !.lines = l, !.sign = form.sign]
    BY <2>1 DEF Drafts, l
  <2> QED BY <2>1, <2>2, <2>3, <2>5, <2>6, <2>7, LinesMove
<1>9. ASSUME NEW type \in {"IN", "OUT", "ADJUSTMENT"}, ChooseType(type)
      PROVE  InputMove
  BY <1>9, TypeMoves DEF ChooseType, Input, IsOpen, Closed
<1>10. ASSUME NEW s \in {1, -1}, ChooseSign(s)
       PROVE  InputMove
  <2>1. /\ form.name = subject /\ subject = "movement" /\ Input /\ typed' = typed
        /\ form.fields.type = "ADJUSTMENT"
    BY <1>1, <1>10, OpenForm DEF ChooseSign, Input
  <2>2. form \in Drafts(subject) /\ form.lines[1] \in LineOK
    BY <2>1, MovementLines DEF Input
  <2> DEFINE q == s * Magnitude(form.lines[1].first)
  <2>3. form' = [form EXCEPT !.lines = [form.lines EXCEPT ![1] = [form.lines[1] EXCEPT !.first = q]],
                             !.sign = s]
    BY <1>10 DEF ChooseSign
  <2>4. form.lines[1].first \in Int
    BY <2>2 DEF LineOK
  <2>5. /\ Magnitude(form.lines[1].first) \in Int /\ Magnitude(form.lines[1].first) >= 0
    BY <2>4, Numbers
  <2>6. q \in Int /\ (q # 0 => (q < 0 <=> s = -1))
    BY <2>5, SignOf
  <2> HIDE DEF q
  <2> QED BY <2>1, <2>3, <2>6, MovementMoves
<1>11. ASSUME NEW n \in Typed, TypeMovementQuantity(n)
       PROVE  InputMove
  <2>1. form.name = subject /\ subject = "movement" /\ Input /\ typed' = typed
    BY <1>1, <1>11, OpenForm DEF TypeMovementQuantity, Input, SetLine
  <2>2. form \in Drafts(subject) /\ form.lines[1] \in LineOK /\ form.sign \in {1, -1}
    BY <2>1, MovementLines DEF Input, Drafts
  <2> DEFINE q == IF form.fields.type = "ADJUSTMENT"
                  THEN form.sign * Magnitude(n) ELSE Magnitude(n)
             l == [form.lines EXCEPT ![1] = [form.lines[1] EXCEPT !.first = q]]
  <2>3. form' = [form EXCEPT !.lines = l]
    BY <1>11 DEF TypeMovementQuantity, SetLine
  <2>4. n \in Int
    BY <1>1
  <2>5. Magnitude(n) \in Int /\ Magnitude(n) >= 0
    BY <2>4, Numbers
  <2>6. q \in Int
    BY <2>2, <2>5, SignOf
  <2>7. form.fields.type # "ADJUSTMENT" => form.sign = 1
    BY <1>1, <2>1 DEF SignIsShown, Input
  <2>8. IF form.fields.type = "ADJUSTMENT"
        THEN q # 0 => (q < 0 <=> form.sign = -1) ELSE form.sign = 1 /\ q >= 0
    BY <2>2, <2>5, <2>7, SignOf
  <2> HIDE DEF q
  <2>9. form' = [form EXCEPT !.lines = l, !.sign = form.sign]
    <3> HIDE DEF l
    <3> QED BY <2>2, <2>3 DEF Drafts
  <2> QED BY <2>1, <2>2, <2>6, <2>8, <2>9, MovementMoves
<1>12. CASE \E x \in Names : \E v \in {Unset, "blank", "malformed", "b"} :
                TypeText(x, v) \/ TypeNumber(x, v)
  BY <1>2, <1>3, <1>12
<1>13. CASE \E o \in Options :
                \/ PickCustomer(o) \/ PickSupplier(o) \/ PickTracked(o) \/ PickSale(o)
                \/ \E i \in Lines : PickProduct(i, o) \/ PickPurchased(i, o) \/ PickAccount(i, o)
  BY <1>4, <1>5, <1>13 DEF PickCustomer, PickSupplier, PickTracked, PickSale, PickProduct,
     PickPurchased, PickAccount
<1>14. CASE \E i \in Lines : \E n \in Typed :
                \/ TypeQuantity(i, n) \/ TypeUnitCost(i, n)
                \/ \E side \in {"first", "second"} : TypeAmount(i, side, n)
  BY <1>6, <1>14 DEF TypeQuantity, TypeUnitCost, TypeAmount
<1> QED BY <1>7, <1>8, <1>9, <1>10, <1>11, <1>12, <1>13, <1>14 DEF Inputs

-----------------------------------------------------------------------------
(* Rows.                                                                   *)

\* What a step keeps of a row.
RowMove(r) ==
  /\ r \in DOMAIN rows'
  /\ rows'[r].opening = rows[r].opening /\ rows'[r].editing = rows[r].editing
  /\ rows'[r].state # rows[r].state => rows[r].state = "pending"
  /\ rows'[r].state = "pending" =>
       /\ rows'[r].fields = rows[r].fields /\ rows'[r].base = rows[r].base
       /\ rows'[r].typed = rows[r].typed
  /\ rows[r].step = "returned" => rows'[r].step = "returned"

RowsMove ==
  /\ rows' \in Seq(Mutations(subject)) /\ subject' = subject
  /\ DOMAIN rows' = DOMAIN rows \/ Submit
  /\ \A r \in DOMAIN rows : RowMove(r)
  /\ PassInv'

\* The row that a form sends.
SentRow ==
  [name |-> form.name, editing |-> form.editing, opening |-> form.opening,
   fields |-> Body(form.name, form.fields), lines |-> form.lines,
   base |-> IF form.editing THEN loaded ELSE NoFiche, typed |-> typed,
   state |-> "pending", online |-> online,
   step |-> IF online THEN "queued" ELSE "asserting"]

LEMMA Sending ==
  ASSUME FormsInv, Submit
  PROVE  /\ SentRow \in Mutations(subject) /\ rows' = Append(rows, SentRow)
         /\ rows' \in Seq(Mutations(subject)) /\ Len(rows') = Len(rows) + 1
         /\ DOMAIN rows = 1 .. Len(rows) /\ DOMAIN rows' = 1 .. Len(rows) + 1
         /\ \A r \in DOMAIN rows : rows'[r] = rows[r]
         /\ rows'[Len(rows) + 1] = SentRow
<1>1. /\ form \in Drafts(subject) /\ form.name = subject /\ subject \in DOMAIN FormOf
      /\ rows \in Seq(Mutations(subject)) /\ typed \subseteq Names /\ online \in BOOLEAN
      /\ Names = DOMAIN form.fields
  BY OpenForm DEF FormsInv, FormsTyped, Submit
<1>2. Body(form.name, form.fields) \in Fields(subject)
  BY <1>1 DEF Body, Drafts, Fields, Values
<1>3. (IF form.editing THEN loaded ELSE NoFiche) \in Fields(subject) \cup {NoFiche}
  BY DEF FormsInv, FicheInv
<1>4. SentRow \in Mutations(subject)
  BY <1>1, <1>2, <1>3 DEF SentRow, Mutations, Drafts, Names, Steps
<1>5. rows' = Append(rows, SentRow)
  BY DEF Submit, SentRow
<1> QED BY <1>1, <1>4, <1>5, AppendProperties

LEMMA SubmitMoves ==
  ASSUME FormsInv, Submit
  PROVE  RowsMove
<1>1. /\ rows' \in Seq(Mutations(subject)) /\ DOMAIN rows' = 1 .. Len(rows) + 1
      /\ DOMAIN rows = 1 .. Len(rows) /\ rows'[Len(rows) + 1] = SentRow
      /\ \A r \in DOMAIN rows : rows'[r] = rows[r]
  BY Sending
<1>2. Len(rows) \in Nat /\ pass' = pass /\ subject' = subject
  BY DEF FormsInv, FormsTyped, Submit
<1>3. \A r \in DOMAIN rows : RowMove(r)
  BY <1>1, <1>2 DEF RowMove
<1>4. SentRow.step # "passing"
  BY DEF SentRow
<1>5. PassInv'
  BY <1>1, <1>2, <1>4 DEF FormsInv, PassInv
<1> QED BY <1>1, <1>2, <1>3, <1>5 DEF RowsMove

\* A step of one row goes on.
LEMMA StepMoves ==
  ASSUME FormsInv, NEW r \in DOMAIN rows, NEW step \in Steps,
         rows[r].step # "returned", rows' = [rows EXCEPT ![r].step = step],
         subject' = subject
  PROVE  /\ rows' \in Seq(Mutations(subject)) /\ DOMAIN rows' = DOMAIN rows
         /\ \A q \in DOMAIN rows : RowMove(q)
         /\ \A q \in DOMAIN rows :
              /\ rows'[q].state = rows[q].state
              /\ rows'[q].step = IF q = r THEN step ELSE rows[q].step
<1>1. rows \in Seq(Mutations(subject)) /\ rows[r] \in Mutations(subject)
  BY DEF FormsInv, FormsTyped
<1> DEFINE row == [rows[r] EXCEPT !.step = step]
<1>2. /\ row \in Mutations(subject) /\ row.step = step
      /\ row.state = rows[r].state /\ row.opening = rows[r].opening
      /\ row.editing = rows[r].editing /\ row.fields = rows[r].fields
      /\ row.base = rows[r].base /\ row.typed = rows[r].typed
  BY <1>1 DEF Mutations
<1>3. rows' = [rows EXCEPT ![r] = row]
  OBVIOUS
<1> HIDE DEF row
<1>4. /\ rows' \in Seq(Mutations(subject)) /\ DOMAIN rows' = DOMAIN rows
      /\ \A q \in DOMAIN rows : rows'[q] = IF q = r THEN row ELSE rows[q]
  BY <1>1, <1>2, <1>3
<1> QED BY <1>2, <1>4 DEF RowMove

LEMMA ProcessMoves ==
  ASSUME FormsInv, NEW r \in DOMAIN rows, Process(r)
  PROVE  RowsMove
<1>1. PICK step \in {"asserting", "passing"} :
        /\ rows' = [rows EXCEPT ![r].step = step]
        /\ step = "passing" => pass' # {}
  BY DEF Process
<1>2. rows[r].step # "returned" /\ subject' = subject /\ step \in Steps
  BY DEF Process, Steps
<1>3. /\ rows' \in Seq(Mutations(subject)) /\ DOMAIN rows' = DOMAIN rows
      /\ \A q \in DOMAIN rows : RowMove(q)
      /\ \A q \in DOMAIN rows :
           /\ rows'[q].state = rows[q].state
           /\ rows'[q].step = IF q = r THEN step ELSE rows[q].step
  BY <1>1, <1>2, StepMoves
<1>4. \/ pass = {} /\ pass' = {p \in DOMAIN rows : rows[p].state = "pending"}
      \/ pass # {} /\ pass' = pass
  BY DEF Process, Pending
<1>5. PassInv'
  BY <1>1, <1>3, <1>4 DEF FormsInv, PassInv
<1> QED BY <1>2, <1>3, <1>5 DEF RowsMove

LEMMA ReturnMoves ==
  ASSUME FormsInv, NEW r \in DOMAIN rows, Return(r)
  PROVE  RowsMove
<1>1. /\ rows' = [rows EXCEPT ![r].step = "returned"] /\ rows[r].step # "returned"
      /\ subject' = subject /\ pass' = pass
  BY DEF Return
<1>2. /\ rows' \in Seq(Mutations(subject)) /\ DOMAIN rows' = DOMAIN rows
      /\ \A q \in DOMAIN rows : RowMove(q)
      /\ \A q \in DOMAIN rows :
           /\ rows'[q].state = rows[q].state
           /\ rows'[q].step = IF q = r THEN "returned" ELSE rows[q].step
  BY <1>1, StepMoves DEF Steps
<1>3. PassInv'
  BY <1>1, <1>2 DEF FormsInv, PassInv
<1> QED BY <1>1, <1>2, <1>3 DEF RowsMove

\* The oldest row of a pass is a row that waits.
LEMMA OldestWaits ==
  ASSUME FormsInv, pass # {}
  PROVE  Oldest \in pass /\ Oldest \in DOMAIN rows /\ rows[Oldest].state = "pending"
<1>1. pass \subseteq Nat
  BY DEF FormsInv, FormsTyped, PassInv
<1>2. \E r \in pass : \A p \in pass : r <= p
  BY <1>1, OneIsOldest
<1>3. Oldest \in pass
  BY <1>2 DEF Oldest
<1> QED BY <1>3 DEF FormsInv, PassInv

LEMMA SettledRow ==
  ASSUME NEW n, NEW row \in Mutations(n)
  PROVE  /\ Settled(row) \in Mutations(n) /\ Settled(row).state = row.state
         /\ Settled(row).step = row.step
         /\ Settled(row).opening = row.opening /\ Settled(row).editing = row.editing
<1>1. <<>> \in Seq(LineOK) /\ <<>> \in Fields(n) \cup {<<>>} /\ NoFiche \in Fields(n) \cup {NoFiche}
  OBVIOUS
<1> DEFINE none == <<>>
<1>2. Settled(row) = [row EXCEPT !.fields = none, !.lines = none, !.base = NoFiche, !.typed = {}]
  BY DEF Settled
<1> HIDE DEF none
<1>3. none \in Seq(LineOK) /\ none \in Fields(n) \cup {<<>>}
  BY <1>1 DEF none
<1> QED BY <1>1, <1>2, <1>3 DEF Mutations

LEMMA ServeMoves ==
  ASSUME FormsInv, NEW applied \in BOOLEAN, NEW state \in {"done", "failed", "pending"},
         Serve(applied, state)
  PROVE  RowsMove
<1>1. /\ Oldest \in DOMAIN rows /\ rows[Oldest].state = "pending"
      /\ rows \in Seq(Mutations(subject)) /\ subject' = subject
  BY OldestWaits DEF Serve, FormsInv, FormsTyped
<1> DEFINE r == Oldest
           base(p) == IF p = r /\ state # "pending" THEN Settled(rows[p]) ELSE rows[p]
           step(p) == IF rows[p].step = "passing" /\ pass' = {} THEN "asserting" ELSE rows[p].step
           row(p) == [base(p) EXCEPT !.state = IF p = r THEN state ELSE @,
                                     !.step = IF @ = "passing" /\ pass' = {}
                                              THEN "asserting" ELSE @]
<1>2. rows' = [p \in DOMAIN rows |-> row(p)]
  BY DEF Serve
<1>3. ASSUME NEW p \in DOMAIN rows
      PROVE  /\ row(p) \in Mutations(subject)
             /\ row(p).state = (IF p = r THEN state ELSE rows[p].state)
             /\ row(p).step = step(p)
             /\ row(p).opening = rows[p].opening /\ row(p).editing = rows[p].editing
             /\ row(p).state = "pending" =>
                  /\ row(p).fields = rows[p].fields /\ row(p).base = rows[p].base
                  /\ row(p).typed = rows[p].typed
  <2>1. rows[p] \in Mutations(subject)
    BY <1>1
  <2>2. /\ base(p) \in Mutations(subject) /\ base(p).state = rows[p].state
        /\ base(p).step = rows[p].step
        /\ base(p).opening = rows[p].opening /\ base(p).editing = rows[p].editing
        /\ p # r \/ state = "pending" => base(p) = rows[p]
    BY <2>1, SettledRow
  <2> DEFINE b == base(p)
  <2> HIDE DEF b
  <2>3. /\ b \in Mutations(subject) /\ b.state = rows[p].state /\ b.step = rows[p].step
        /\ b.opening = rows[p].opening /\ b.editing = rows[p].editing
        /\ p # r \/ state = "pending" => b = rows[p]
    BY <2>2 DEF b
  <2>4. row(p) = [b EXCEPT !.state = IF p = r THEN state ELSE rows[p].state, !.step = step(p)]
    BY <2>3 DEF b
  <2>5. step(p) \in Steps
    BY <2>1 DEF Mutations, Steps
  <2> HIDE DEF row, base, step
  <2> QED BY <2>1, <2>3, <2>4, <2>5, <1>1 DEF Mutations
<1> HIDE DEF row, base
<1>4. rows' \in Seq(Mutations(subject)) /\ DOMAIN rows' = DOMAIN rows
  BY <1>1, <1>2, <1>3
<1>5. \A p \in DOMAIN rows : rows'[p] = row(p)
  BY <1>2
<1>6. \A p \in DOMAIN rows : RowMove(p)
  BY <1>1, <1>3, <1>4, <1>5 DEF RowMove
<1>7. /\ pass' \subseteq pass \ {r}
      /\ pass # {}
  BY DEF Serve
<1>8. PassInv'
  BY <1>3, <1>4, <1>5, <1>7 DEF FormsInv, PassInv
<1> QED BY <1>1, <1>4, <1>6, <1>8 DEF RowsMove

LEMMA RowsNext ==
  ASSUME FormsInv, [Next]_vars
  PROVE  RowsMove
<1>1. ASSUME subject' = subject, rows' = rows, pass' = pass
      PROVE  RowsMove
  BY <1>1 DEF RowsMove, RowMove, FormsInv, FormsTyped, PassInv
<1>2. CASE Replay
  <2>1. /\ subject' = subject /\ rows' = rows /\ pass' # {}
        /\ pass' = {p \in DOMAIN rows : rows[p].state = "pending"}
    BY <1>2 DEF Replay, Pending
  <2> QED BY <2>1 DEF RowsMove, RowMove, FormsInv, FormsTyped, PassInv
<1>3. CASE Inputs
  BY <1>1, <1>3, InputsMove DEF InputMove
<1>4. CASE (\E editing \in BOOLEAN : Open(editing)) \/ Leave \/ Refetch
  BY <1>1, <1>4 DEF Open, Leave, Refetch
<1>5. CASE \/ \E x \in Names : ChangeFiche(x)
           \/ \E o \in Options : Archive(o)
           \/ RefetchOptions \/ ToggleNetwork \/ UNCHANGED vars
  BY <1>1, <1>5 DEF ChangeFiche, Archive, RefetchOptions, ToggleNetwork, vars
<1> QED BY <1>2, <1>3, <1>4, <1>5, SubmitMoves, ProcessMoves, ReturnMoves, ServeMoves DEF Next

-----------------------------------------------------------------------------
(* The form on the screen.                                                 *)

\* It closes, or there is none.
Closes ==
  /\ form' = Closed /\ opening' = opening /\ typed' \subseteq Names /\ keys' \in Nat

\* It opens empty, or with the fiche.
Opens ==
  /\ opening' = opening + 1 /\ typed' = {} /\ keys' = 0
  /\ form' \in Drafts(subject) /\ form'.opening = opening + 1 /\ form'.sign = 1
  /\ form'.lines = FormOf[subject].empty
  /\ form'.editing => subject \in Fiches
  /\ form'.fields = IF form'.editing /\ loaded # NoFiche
                    THEN ToFormValues(loaded) ELSE FormOf[subject].fields
  /\ UNCHANGED <<rows, fiche>>

\* It keeps what it shows; a mutation starts or has been refused.
Goes ==
  /\ IsOpen /\ form' \in Drafts(subject)
  /\ form'.opening = form.opening /\ form'.editing = form.editing /\ form'.sign = form.sign
  /\ form'.lines = form.lines /\ form'.fields = form.fields
  /\ opening' = opening /\ typed' = typed /\ keys' = keys
  /\ loaded' = loaded \/ ~form.editing
  /\ \/ form'.saving = form.saving /\ DOMAIN rows' = DOMAIN rows
     \/ form'.saving
     \/ \E r \in DOMAIN rows : Return(r) /\ rows[r].opening = form.opening /\ rows[r].state = "failed"

\* It starts over with the fiche as it is now.
Rereads ==
  /\ IsOpen /\ form' \in Drafts(subject) /\ form.editing
  /\ form'.opening = form.opening /\ form'.editing = form.editing /\ form'.sign = form.sign
  /\ form'.lines = form.lines /\ form'.fields = ToFormValues(record)
  /\ form'.saving = form.saving
  /\ opening' = opening /\ typed' = {} /\ keys' = keys /\ UNCHANGED <<rows, record>>
  /\ loaded' = record

LEMMA FicheValues ==
  ASSUME NEW n \in DOMAIN FormOf, NEW f \in Fields(n)
  PROVE  /\ ToFormValues(f) \in Fields(n)
         /\ \A x \in DOMAIN FormOf[n].fields :
              ToFormValues(f)[x] = IF f[x] = Null THEN Unset ELSE f[x]
         /\ RateIsKnown(n, ToFormValues(f))
<1>1. DOMAIN f = DOMAIN FormOf[n].fields /\ \A x \in DOMAIN f : f[x] \in Values
  BY DEF Fields
<1>2. Unset \in Values /\ Unset # Null
  BY DEF Values, Unset, Null
<1>3. \A x \in DOMAIN FormOf[n].fields :
        /\ ToFormValues(f)[x] = IF f[x] = Null THEN Unset ELSE f[x]
        /\ ToFormValues(f)[x] \in Values
  BY <1>1, <1>2 DEF ToFormValues
<1>4. ToFormValues(f) \in Fields(n)
  BY <1>1, <1>3 DEF ToFormValues, Fields
<1> QED BY <1>2, <1>3, <1>4 DEF RateIsKnown

LEMMA OpenMoves ==
  ASSUME FormsInv, NEW editing \in BOOLEAN, Open(editing)
  PROVE  Opens
<1>1. subject \in DOMAIN FormOf /\ opening + 1 \in Nat
  BY OfferedAssumption DEF FormsInv, FormsTyped
<1>2. loaded # NoFiche => loaded \in Fields(subject)
  BY DEF FormsInv, FicheInv
<1> DEFINE f == IF editing /\ loaded # NoFiche
                THEN ToFormValues(loaded) ELSE FormOf[subject].fields
<1>3. f \in Fields(subject)
  BY <1>1, <1>2, FicheValues, FormShapes
<1>4. FormOf[subject].empty \in Seq(LineOK)
  BY <1>1, FormShapes
<1>5. form' = [name |-> subject, editing |-> editing, opening |-> opening + 1, saving |-> FALSE,
               error |-> FALSE, sign |-> 1, lines |-> FormOf[subject].empty, fields |-> f]
  BY DEF Open
<1> HIDE DEF f
<1>6. form' \in Drafts(subject)
  BY <1>1, <1>3, <1>4, <1>5 DEF Drafts
<1>7. /\ form'.opening = opening + 1 /\ form'.sign = 1 /\ form'.lines = FormOf[subject].empty
      /\ form'.editing = editing /\ form'.fields = f
  BY <1>5
<1>8. /\ editing => subject \in Fiches
      /\ opening' = opening + 1 /\ typed' = {} /\ keys' = 0 /\ UNCHANGED <<rows, fiche>>
  BY DEF Open
<1> QED BY <1>6, <1>7, <1>8 DEF Opens, f

LEMMA StayMoves ==
  ASSUME FormsInv, form' = form, UNCHANGED <<opening, input>>, DOMAIN rows' = DOMAIN rows,
         loaded' = loaded \/ ~(IsOpen /\ form.editing)
  PROVE  Closes \/ Goes
BY OpenForm DEF FormsInv, FormsTyped, Closes, Goes, IsOpen, input

LEMMA FormNext ==
  ASSUME FormsInv, [Next]_vars
  PROVE  Closes \/ Opens \/ InputMove \/ Goes \/ Rereads
<1>1. CASE Inputs
  BY <1>1, InputsMove
<1>2. CASE \E editing \in BOOLEAN : Open(editing)
  BY <1>2, OpenMoves
<1>3. CASE Leave
  BY <1>3 DEF Leave, Close, Closes
<1>4. CASE Submit
  <2>1. form \in Drafts(subject) /\ form' = [form EXCEPT !.saving = TRUE, !.error = FALSE]
    BY <1>4, OpenForm DEF FormsInv, Submit
  <2>2. /\ form' \in Drafts(subject)
        /\ form'.opening = form.opening /\ form'.editing = form.editing
        /\ form'.sign = form.sign
        /\ form'.lines = form.lines /\ form'.fields = form.fields /\ form'.saving
    BY <2>1 DEF Drafts
  <2>3. opening' = opening /\ typed' = typed /\ keys' = keys /\ loaded' = loaded /\ IsOpen
    BY <1>4 DEF Submit, input, fiche
  <2> QED BY <2>2, <2>3 DEF Goes
<1>5. ASSUME NEW r \in DOMAIN rows, Return(r)
      PROVE  Closes \/ Goes
  <2>1. DOMAIN rows' = DOMAIN rows /\ opening' = opening /\ loaded' = loaded
    BY <1>5 DEF Return, fiche
  <2>2. CASE StayOpen(form)
    BY <2>1, <2>2, StayMoves DEF StayOpen
  <2>3. CASE Close
    BY <2>1, <2>3 DEF Close, Closes
  <2>4. CASE /\ IsShown(r) /\ rows[r].state = "failed"
             /\ StayOpen([form EXCEPT !.saving = FALSE, !.error = TRUE])
    <3>1. /\ form \in Drafts(subject) /\ form' = [form EXCEPT !.saving = FALSE, !.error = TRUE]
          /\ IsOpen /\ form.opening = rows[r].opening /\ typed' = typed /\ keys' = keys
      BY <2>4, OpenForm DEF FormsInv, IsShown, IsOpen, StayOpen, input
    <3>2. /\ form' \in Drafts(subject)
          /\ form'.opening = form.opening /\ form'.editing = form.editing
          /\ form'.sign = form.sign
          /\ form'.lines = form.lines /\ form'.fields = form.fields
      BY <3>1 DEF Drafts
    <3> QED BY <1>5, <2>1, <2>4, <3>1, <3>2 DEF Goes
  <2> QED BY <1>5, <2>2, <2>3, <2>4 DEF Return
<1>6. CASE Refetch
  <2>1. loaded' = record /\ UNCHANGED <<subject, opening, keys, rows, record>>
    BY <1>6 DEF Refetch
  <2>2. CASE IsOpen /\ form.editing
    <3>1. form \in Drafts(subject) /\ subject \in DOMAIN FormOf /\ record \in Fields(subject)
      BY <2>2, OpenForm DEF FormsInv, FicheInv
    <3>2. form' = [form EXCEPT !.fields = ToFormValues(record)] /\ typed' = {}
      BY <1>6, <2>2 DEF Refetch
    <3>3. ToFormValues(record) \in Fields(subject)
      BY <3>1, FicheValues
    <3>4. /\ form' \in Drafts(subject)
          /\ form'.opening = form.opening /\ form'.editing = form.editing
          /\ form'.sign = form.sign /\ form'.saving = form.saving
          /\ form'.lines = form.lines /\ form'.fields = ToFormValues(record)
      BY <3>1, <3>2, <3>3 DEF Drafts
    <3> QED BY <2>1, <2>2, <3>2, <3>4 DEF Rereads
  <2>3. CASE ~(IsOpen /\ form.editing)
    <3>1. UNCHANGED <<form, input>>
      BY <1>6, <2>1, <2>3 DEF Refetch, input
    <3> QED BY <2>1, <2>3, <3>1, StayMoves
  <2> QED BY <2>2, <2>3
<1>7. CASE (\E r \in DOMAIN rows : Process(r)) \/ Replay
  BY <1>7, StayMoves DEF Process, Replay, fiche
<1>8. CASE \E applied \in BOOLEAN : \E state \in {"done", "failed", "pending"} : Serve(applied, state)
  BY <1>8, StayMoves DEF Serve
<1>9. CASE \/ \E x \in Names : ChangeFiche(x)
           \/ \E o \in Options : Archive(o)
           \/ RefetchOptions \/ ToggleNetwork \/ UNCHANGED vars
  BY <1>9, StayMoves DEF ChangeFiche, Archive, RefetchOptions, ToggleNetwork, vars, fiche
<1> QED BY <1>1, <1>2, <1>3, <1>4, <1>5, <1>6, <1>7, <1>8, <1>9 DEF Next

-----------------------------------------------------------------------------
(* The invariant is kept.                                                  *)

LEMMA WorldNext ==
  ASSUME FormsInv, [Next]_vars
  PROVE  listed' \subseteq Options /\ active' \subseteq listed' /\ online' \in BOOLEAN /\ changes' \in Nat
<1>0. listed \subseteq Options /\ active \subseteq listed /\ online \in BOOLEAN /\ changes \in Nat
  BY DEF FormsInv, FormsTyped
<1>1. ASSUME UNCHANGED <<lists, online, changes>>
      PROVE  /\ listed' \subseteq Options /\ active' \subseteq listed'
             /\ online' \in BOOLEAN /\ changes' \in Nat
  BY <1>0, <1>1 DEF lists
<1>2. CASE (\E editing \in BOOLEAN : Open(editing)) \/ Leave \/ Refetch \/ Submit \/ Replay
  BY <1>1, <1>2 DEF Open, Leave, Refetch, Submit, Replay
<1>3. CASE Inputs
  BY <1>1, <1>3, InputsMove DEF InputMove
<1>4. CASE \E r \in DOMAIN rows : Process(r) \/ Return(r)
  BY <1>1, <1>4 DEF Process, Return
<1>5. CASE \E applied \in BOOLEAN : \E state \in {"done", "failed", "pending"} : Serve(applied, state)
  BY <1>1, <1>5 DEF Serve
<1>6. CASE \E x \in Names : ChangeFiche(x)
  BY <1>0, <1>6 DEF ChangeFiche, lists
<1>7. CASE \E o \in Options : Archive(o)
  BY <1>0, <1>7 DEF Archive
<1>8. CASE RefetchOptions
  BY <1>0, <1>8 DEF RefetchOptions
<1>9. CASE ToggleNetwork
  BY <1>0, <1>9 DEF ToggleNetwork, lists
<1>10. CASE UNCHANGED vars
  BY <1>1, <1>10 DEF vars
<1> QED BY <1>2, <1>3, <1>4, <1>5, <1>6, <1>7, <1>8, <1>9, <1>10 DEF Next

LEMMA TypedNext ==
  ASSUME FormsInv, [Next]_vars
  PROVE  FormsTyped'
<1>1. subject' = subject /\ rows' \in Seq(Mutations(subject))
  BY RowsNext DEF RowsMove
<1>2. /\ form' \in Drafts(subject) \cup {Closed} /\ opening' \in Nat
      /\ typed' \subseteq Names /\ keys' \in Nat
  <2>1. CASE Closes
    BY <2>1 DEF Closes, FormsInv, FormsTyped
  <2>2. CASE Opens
    BY <2>2 DEF Opens, FormsInv, FormsTyped
  <2>3. CASE InputMove
    BY <2>3 DEF InputMove, FormsInv, FormsTyped
  <2>4. CASE Goes \/ Rereads
    BY <2>4 DEF Goes, Rereads, FormsInv, FormsTyped
  <2> QED BY <2>1, <2>2, <2>3, <2>4, FormNext
<1>3. Names' = Names
  BY <1>1 DEF Names
<1> QED BY <1>1, <1>2, <1>3, WorldNext DEF FormsTyped, FormsInv

LEMMA LinesNext ==
  ASSUME FormsInv, [Next]_vars
  PROVE  LinesInv' /\ SignIsShown'
<1>1. subject' = subject /\ subject \in DOMAIN FormOf
  BY RowsNext, OfferedAssumption DEF RowsMove, FormsInv, FormsTyped
<1>2. CASE Closes
  BY <1>2 DEF Closes, LinesInv, SignIsShown, IsOpen
<1>3. CASE Opens
  <2>1. form'.name = subject
    BY <1>3 DEF Opens, Drafts
  <2>2. Len(form'.lines) >= FormOf[subject].least /\ (subject = "movement" => Len(form'.lines) = 1)
    BY <1>1, <1>3, FormShapes, Movements DEF Opens
  <2>3. subject = "movement" => form'.fields.type = "IN" /\ form'.lines[1].first = 0 /\ form'.sign = 1
    BY <1>1, <1>3, Catalogue, Movements DEF Opens
  <2> QED BY <1>1, <2>1, <2>2, <2>3 DEF LinesInv, SignIsShown
<1>4. CASE InputMove
  BY <1>1, <1>4 DEF InputMove, LinesInv
<1>5. CASE Goes
  <2>1. form.name = subject /\ form'.name = subject
    BY <1>5, OpenForm DEF Goes, Drafts, FormsInv
  <2> QED BY <1>1, <1>5, <2>1 DEF Goes, FormsInv, LinesInv, SignIsShown
<1>6. CASE Rereads
  <2>1. form'.name = subject /\ subject # "movement"
    BY <1>6, Catalogue DEF Rereads, Drafts, FormsInv, FicheInv
  <2> QED BY <1>1, <1>6, <2>1 DEF Rereads, FormsInv, LinesInv, SignIsShown
<1> QED BY <1>2, <1>3, <1>4, <1>5, <1>6, FormNext

\* What an opening has sent is kept.
LEMMA SentRowsNext ==
  ASSUME FormsInv, [Next]_vars, opening' \in {opening, opening + 1}
  PROVE  /\ \A r \in DOMAIN rows' : rows'[r].opening \in 1 .. opening'
         /\ \A r, q \in DOMAIN rows' :
              rows'[r].opening = rows'[q].opening /\ r # q =>
                /\ rows'[r].state = "failed" \/ rows'[q].state = "failed"
                /\ rows'[r].step # "returned" =>
                     q < r /\ rows'[q].state = "failed" /\ rows'[q].step = "returned"
<1>1. /\ \A r \in DOMAIN rows : RowMove(r)
      /\ DOMAIN rows' = DOMAIN rows \/ Submit
  BY RowsNext DEF RowsMove
<1>2. opening \in Nat /\ rows \in Seq(Mutations(subject)) /\ Len(rows) \in Nat
  BY DEF FormsInv, FormsTyped
<1>3. ASSUME NEW r \in DOMAIN rows, NEW q \in DOMAIN rows,
             rows'[r].opening = rows'[q].opening, r # q
      PROVE  /\ rows'[r].state = "failed" \/ rows'[q].state = "failed"
             /\ rows'[r].step # "returned" =>
                  q < r /\ rows'[q].state = "failed" /\ rows'[q].step = "returned"
  BY <1>1, <1>3 DEF RowMove, FormsInv, OpeningInv
<1>4. \A r \in DOMAIN rows : rows'[r].opening \in 1 .. opening'
  BY <1>1, <1>2 DEF RowMove, FormsInv, OpeningInv
<1>5. CASE DOMAIN rows' = DOMAIN rows
  BY <1>3, <1>4, <1>5
<1>6. CASE Submit
  <2> DEFINE n == Len(rows) + 1
  <2>1. /\ DOMAIN rows = 1 .. Len(rows) /\ DOMAIN rows' = 1 .. n
        /\ rows'[n] = SentRow /\ \A r \in DOMAIN rows : rows'[r] = rows[r]
    BY <1>6, Sending
  <2>2. /\ form.opening = opening /\ opening' = opening /\ SentRow.opening = opening
        /\ \A r \in DOMAIN rows :
             rows[r].opening = opening => rows[r].state = "failed" /\ rows[r].step = "returned"
    BY <1>6 DEF Submit, CanPress, FormsInv, OpeningInv, SentRow
  <2>3. n \notin DOMAIN rows /\ DOMAIN rows' = DOMAIN rows \cup {n} /\ \A r \in DOMAIN rows : r < n
    BY <1>2, <2>1
  <2>4. opening \in 1 .. opening
    <3>1. opening > 0
      BY <1>6 DEF FormsInv, OpeningInv, Submit
    <3> QED BY <1>2, <3>1
  <2> HIDE DEF n
  <2>5. ASSUME NEW r \in DOMAIN rows', NEW q \in DOMAIN rows',
               rows'[r].opening = rows'[q].opening, r # q
        PROVE  /\ rows'[r].state = "failed" \/ rows'[q].state = "failed"
               /\ rows'[r].step # "returned" =>
                    q < r /\ rows'[q].state = "failed" /\ rows'[q].step = "returned"
    <3>1. CASE r \in DOMAIN rows /\ q \in DOMAIN rows
      BY <1>3, <2>5, <3>1
    <3>2. CASE r = n /\ q \in DOMAIN rows
      BY <2>1, <2>2, <2>3, <2>5, <3>2
    <3>3. CASE q = n /\ r \in DOMAIN rows
      BY <2>1, <2>2, <2>3, <2>5, <3>3
    <3> QED BY <2>3, <2>5, <3>1, <3>2, <3>3
  <2>6. \A r \in DOMAIN rows' : rows'[r].opening \in 1 .. opening'
    BY <1>4, <2>1, <2>2, <2>3, <2>4
  <2> QED BY <2>5, <2>6
<1> QED BY <1>1, <1>5, <1>6

LEMMA OpeningNext ==
  ASSUME FormsInv, [Next]_vars
  PROVE  OpeningInv'
<1>1. opening \in Nat /\ IsOpen => form.opening = opening
  BY DEF FormsInv, FormsTyped, OpeningInv
<1>2. opening' \in {opening, opening + 1}
  BY FormNext DEF Closes, Opens, InputMove, Goes, Rereads
<1>3. \A r \in DOMAIN rows : RowMove(r)
  BY RowsNext DEF RowsMove
<1>4. ASSUME IsOpen'
      PROVE  /\ form'.opening = opening' /\ opening' > 0
             /\ ~form'.saving => \A r \in DOMAIN rows' :
                  rows'[r].opening = opening' => rows'[r].state = "failed" /\ rows'[r].step = "returned"
  <2>1. CASE Closes
    BY <1>4, <2>1 DEF Closes, IsOpen
  <2>2. CASE Opens
    BY <2>2 DEF Opens, FormsInv, FormsTyped, OpeningInv
  <2>3. CASE InputMove \/ Rereads
    BY <2>3 DEF InputMove, Rereads, FormsInv, OpeningInv
  <2>4. CASE Goes
    <3>1. /\ form.opening = opening /\ form'.opening = opening /\ opening' = opening
          /\ opening > 0
      BY <2>4 DEF Goes, FormsInv, OpeningInv
    <3>2. CASE form'.saving = form.saving /\ DOMAIN rows' = DOMAIN rows
      BY <1>3, <2>4, <3>1, <3>2 DEF Goes, RowMove, FormsInv, OpeningInv
    <3>3. ASSUME NEW r \in DOMAIN rows, Return(r), rows[r].opening = form.opening,
                 rows[r].state = "failed"
          PROVE  \A q \in DOMAIN rows' :
                   rows'[q].opening = opening' => rows'[q].state = "failed" /\ rows'[q].step = "returned"
      <4>1. /\ rows' = [rows EXCEPT ![r].step = "returned"] /\ rows[r].step # "returned"
            /\ subject' = subject
        BY <3>3 DEF Return
      <4>2. /\ DOMAIN rows' = DOMAIN rows
            /\ \A q \in DOMAIN rows :
                 /\ rows'[q].state = rows[q].state
                 /\ rows'[q].step = IF q = r THEN "returned" ELSE rows[q].step
        BY <4>1, StepMoves DEF Steps
      <4>3. \A q \in DOMAIN rows :
              q # r /\ rows[q].opening = rows[r].opening =>
                rows[q].state = "failed" /\ rows[q].step = "returned"
        BY <4>1 DEF FormsInv, OpeningInv
      <4> QED BY <1>3, <3>1, <3>3, <4>2, <4>3 DEF RowMove
    <3> QED BY <2>4, <3>1, <3>2, <3>3 DEF Goes
  <2> QED BY <2>1, <2>2, <2>3, <2>4, FormNext
<1> QED BY <1>2, <1>4, SentRowsNext DEF OpeningInv

LEMMA PatchedFiche ==
  ASSUME NEW n, NEW f \in Fields(n), NEW body \in Fields(n)
  PROVE  /\ Patched(f, body) \in Fields(n)
         /\ \A x \in DOMAIN FormOf[n].fields : Patched(f, body)[x] = IF body[x] = Unset THEN f[x] ELSE body[x]
         /\ RateIsSet(n, f) /\ RateIsSet(n, body) => RateIsSet(n, Patched(f, body))
<1>1. DOMAIN f = DOMAIN FormOf[n].fields
  BY DEF Fields
<1>2. \A x \in DOMAIN FormOf[n].fields :
        /\ Patched(f, body)[x] = IF body[x] = Unset THEN f[x] ELSE body[x]
        /\ Patched(f, body)[x] \in Values
  BY <1>1 DEF Patched, Fields
<1>3. Patched(f, body) \in Fields(n)
  BY <1>1, <1>2 DEF Patched, Fields
<1> QED BY <1>2, <1>3 DEF RateIsSet

\* The fiche of the server, and what the device has of it.
LEMMA RecordNext ==
  ASSUME FormsInv, [Next]_vars
  PROVE  /\ record' \in IF subject \in Fiches THEN Fields(subject) ELSE {NoFiche}
         /\ record' # NoFiche => RateIsSet(subject, record')
         /\ loaded' \in {loaded, record}
<1>0. /\ record \in IF subject \in Fiches THEN Fields(subject) ELSE {NoFiche}
      /\ record # NoFiche => RateIsSet(subject, record)
  BY DEF FormsInv, FicheInv
<1>1. ASSUME UNCHANGED fiche
      PROVE  /\ record' \in IF subject \in Fiches THEN Fields(subject) ELSE {NoFiche}
             /\ record' # NoFiche => RateIsSet(subject, record')
             /\ loaded' \in {loaded, record}
  BY <1>0, <1>1 DEF fiche
<1>2. CASE (\E editing \in BOOLEAN : Open(editing)) \/ Leave \/ Submit \/ Replay
  BY <1>1, <1>2 DEF Open, Leave, Submit, Replay
<1>3. CASE Inputs
  BY <1>1, <1>3, InputsMove DEF InputMove
<1>4. CASE \E r \in DOMAIN rows : Process(r) \/ Return(r)
  BY <1>1, <1>4 DEF Process, Return
<1>5. ASSUME NEW applied \in BOOLEAN, NEW state \in {"done", "failed", "pending"},
             Serve(applied, state)
      PROVE  /\ record' \in IF subject \in Fiches THEN Fields(subject) ELSE {NoFiche}
             /\ record' # NoFiche => RateIsSet(subject, record')
             /\ loaded' \in {loaded, record}
  <2>1. /\ Oldest \in DOMAIN rows /\ rows[Oldest].state = "pending" /\ loaded' = loaded
        /\ record' = IF applied /\ rows[Oldest].editing THEN Patched(record, rows[Oldest].fields)
                     ELSE record
    BY <1>5, OldestWaits DEF Serve
  <2>2. CASE rows[Oldest].editing
    <3>1. /\ subject \in Fiches /\ rows[Oldest].fields \in Fields(subject)
          /\ RateIsSet(subject, rows[Oldest].fields)
      BY <2>1, <2>2 DEF FormsInv, RowsInv
    <3>2. record \in Fields(subject) /\ RateIsSet(subject, record)
      BY <1>0, <3>1, FichesAreThere
    <3>3. /\ Patched(record, rows[Oldest].fields) \in Fields(subject)
          /\ RateIsSet(subject, Patched(record, rows[Oldest].fields))
      BY <3>1, <3>2, PatchedFiche
    <3> QED BY <1>0, <2>1, <3>1, <3>3
  <2>3. CASE ~rows[Oldest].editing
    BY <1>0, <2>1, <2>3
  <2> QED BY <2>2, <2>3
<1>6. ASSUME NEW x \in Names, ChangeFiche(x)
      PROVE  /\ record' \in IF subject \in Fiches THEN Fields(subject) ELSE {NoFiche}
             /\ record' # NoFiche => RateIsSet(subject, record')
             /\ loaded' \in {loaded, record}
  <2>1. /\ record # NoFiche /\ record' = [record EXCEPT ![x] = "c"] /\ loaded' = loaded
    BY <1>6 DEF ChangeFiche
  <2>2. subject \in Fiches /\ record \in Fields(subject) /\ RateIsSet(subject, record)
    BY <1>0, <2>1
  <2>3. record' \in Fields(subject)
    BY <2>1, <2>2 DEF Fields, Values
  <2>4. \A y \in Names : record'[y] = IF y = x THEN "c" ELSE record[y]
    BY <2>1, <2>2 DEF Fields, Names
  <2>5. RateIsSet(subject, record')
    BY <2>2, <2>4 DEF RateIsSet, Names, Null, Unset
  <2> QED BY <2>1, <2>2, <2>3, <2>5
<1>7. CASE Refetch
  BY <1>0, <1>7 DEF Refetch
<1>8. CASE (\E o \in Options : Archive(o)) \/ RefetchOptions \/ ToggleNetwork \/ UNCHANGED vars
  BY <1>1, <1>8 DEF Archive, RefetchOptions, ToggleNetwork, vars
<1> QED BY <1>2, <1>3, <1>4, <1>5, <1>6, <1>7, <1>8 DEF Next

LEMMA FicheNext ==
  ASSUME FormsInv, [Next]_vars
  PROVE  FicheInv'
<1>1. subject' = subject /\ subject \in DOMAIN FormOf /\ Names' = Names
  BY RowsNext, OfferedAssumption DEF RowsMove, FormsInv, FormsTyped, Names
<1>2. /\ record' \in IF subject \in Fiches THEN Fields(subject) ELSE {NoFiche}
      /\ record' # NoFiche => RateIsSet(subject, record')
      /\ loaded' \in {loaded, record}
  BY RecordNext
<1>3. /\ loaded' \in {NoFiche} \cup (IF subject \in Fiches THEN Fields(subject) ELSE {})
      /\ loaded' # NoFiche => RateIsSet(subject, loaded')
  BY <1>2 DEF FormsInv, FicheInv
<1>4. ASSUME IsOpen'
      PROVE  /\ RateIsKnown(subject, form'.fields)
             /\ form'.editing => subject \in Fiches
             /\ form'.editing /\ loaded' # NoFiche =>
                  \A x \in Names \ typed' : form'.fields[x] = ToFormValues(loaded')[x]
  <2>1. CASE Closes
    BY <1>4, <2>1 DEF Closes, IsOpen
  <2>2. CASE Opens
    <3>1. RateIsKnown(subject, FormOf[subject].fields)
      BY <1>1, Rates DEF RateIsKnown, Null
    <3>2. loaded # NoFiche => loaded \in Fields(subject)
      BY DEF FormsInv, FicheInv
    <3>3. loaded # NoFiche => RateIsKnown(subject, ToFormValues(loaded))
      BY <1>1, <3>2, FicheValues
    <3> QED BY <2>2, <3>1, <3>3 DEF Opens, fiche
  <2>3. CASE InputMove
    BY <2>3 DEF InputMove, FormsInv, FicheInv, fiche
  <2>4. CASE Goes
    BY <2>4 DEF Goes, FormsInv, FicheInv
  <2>5. CASE Rereads
    <3>1. subject \in Fiches /\ record \in Fields(subject) /\ form'.editing
      BY <2>5 DEF Rereads, FormsInv, FicheInv
    <3>2. RateIsKnown(subject, ToFormValues(record))
      BY <1>1, <3>1, FicheValues
    <3> QED BY <2>5, <3>1, <3>2 DEF Rereads
  <2> QED BY <2>1, <2>2, <2>3, <2>4, <2>5, FormNext
<1> QED BY <1>1, <1>2, <1>3, <1>4 DEF FicheInv

LEMMA SentBody ==
  ASSUME NEW n \in DOMAIN FormOf, NEW f \in Fields(n), RateIsKnown(n, f)
  PROVE  /\ Body(n, f) \in Fields(n) /\ RateIsSet(n, Body(n, f))
         /\ \A x \in DOMAIN FormOf[n].fields :
              Body(n, f)[x] = IF f[x] = Unset /\ FormOf[n].schema[x] = "rate" THEN "default" ELSE f[x]
<1>1. DOMAIN f = DOMAIN FormOf[n].fields
  BY DEF Fields
<1>2. \A x \in DOMAIN FormOf[n].fields :
        /\ Body(n, f)[x] = IF f[x] = Unset /\ FormOf[n].schema[x] = "rate" THEN "default" ELSE f[x]
        /\ Body(n, f)[x] \in Values
  BY <1>1 DEF Body, Fields, Values
<1>3. Body(n, f) \in Fields(n)
  BY <1>1, <1>2 DEF Body, Fields
<1> QED BY <1>2, <1>3 DEF RateIsSet, RateIsKnown, Null, Unset

LEMMA RowsInvNext ==
  ASSUME FormsInv, [Next]_vars
  PROVE  RowsInv'
<1>1. /\ subject' = subject /\ subject \in DOMAIN FormOf /\ Names' = Names
      /\ \A r \in DOMAIN rows : RowMove(r)
      /\ DOMAIN rows' = DOMAIN rows \/ Submit
  BY RowsNext, OfferedAssumption DEF RowsMove, FormsInv, FormsTyped, Names
<1> DEFINE Fits(r) ==
      /\ rows'[r].editing => subject \in Fiches
      /\ rows'[r].state = "pending" =>
           /\ rows'[r].fields \in Fields(subject) /\ RateIsSet(subject, rows'[r].fields)
           /\ rows'[r].editing /\ rows'[r].base # NoFiche =>
                \A x \in Names \ rows'[r].typed : rows'[r].fields[x] \in {rows'[r].base[x], Unset}
<1>2. ASSUME NEW r \in DOMAIN rows
      PROVE  Fits(r)
  BY <1>1 DEF RowMove, FormsInv, RowsInv
<1>3. CASE Submit
  <2>1. /\ rows'[Len(rows) + 1] = SentRow /\ DOMAIN rows' = DOMAIN rows \cup {Len(rows) + 1}
    <3>1. /\ DOMAIN rows = 1 .. Len(rows) /\ DOMAIN rows' = 1 .. Len(rows) + 1
          /\ rows'[Len(rows) + 1] = SentRow
      BY <1>3, Sending
    <3>2. Len(rows) \in Nat
      BY DEF FormsInv, FormsTyped
    <3> QED BY <3>1, <3>2
  <2>2. /\ form \in Drafts(subject) /\ form.name = subject /\ form.fields \in Fields(subject)
        /\ RateIsKnown(subject, form.fields) /\ (form.editing => subject \in Fiches)
    BY <1>3, OpenForm DEF Submit, FormsInv, FicheInv, Drafts
  <2> DEFINE body == Body(subject, form.fields)
  <2>3. /\ body \in Fields(subject) /\ RateIsSet(subject, body)
        /\ \A x \in Names :
             body[x] = IF form.fields[x] = Unset /\ FormOf[subject].schema[x] = "rate"
                       THEN "default" ELSE form.fields[x]
    BY <1>1, <2>2, SentBody DEF Names
  <2>4. /\ SentRow.editing = form.editing /\ SentRow.fields = body /\ SentRow.typed = typed
        /\ SentRow.base = IF form.editing THEN loaded ELSE NoFiche
    BY <2>2 DEF SentRow
  <2> HIDE DEF body
  <2>5. ASSUME form.editing, loaded # NoFiche, NEW x \in Names \ typed
        PROVE  body[x] \in {loaded[x], Unset}
    <3>1. loaded \in Fields(subject) /\ RateIsSet(subject, loaded)
      BY <2>5 DEF FormsInv, FicheInv
    <3>2. form.fields[x] = ToFormValues(loaded)[x]
      BY <1>3, <2>5 DEF FormsInv, FicheInv, Submit
    <3>3. ToFormValues(loaded)[x] = IF loaded[x] = Null THEN Unset ELSE loaded[x]
      BY <1>1, <3>1, FicheValues DEF Names
    <3>4. FormOf[subject].schema[x] = "rate" => loaded[x] \notin {Null, Unset}
      BY <3>1 DEF RateIsSet, Names
    <3> QED BY <2>3, <3>2, <3>3, <3>4
  <2>6. Fits(Len(rows) + 1)
    BY <2>1, <2>2, <2>3, <2>4, <2>5
  <2> QED BY <1>1, <1>2, <2>1, <2>6 DEF RowsInv
<1>4. CASE DOMAIN rows' = DOMAIN rows
  BY <1>1, <1>2, <1>4 DEF RowsInv
<1> QED BY <1>1, <1>3, <1>4

LEMMA FormsInit == Init => FormsInv
<1> SUFFICES ASSUME Init PROVE FormsInv
  OBVIOUS
<1>1. /\ subject \in DOMAIN FormOf /\ form = Closed /\ opening = 0 /\ typed = {} /\ pass = {}
      /\ ~IsOpen
  BY OfferedAssumption DEF Init, IsOpen
<1>2. rows \in Seq(Mutations(subject)) /\ \A r \in DOMAIN rows : FALSE
  <2>1. rows = <<>>
    BY DEF Init
  <2>2. rows \in Seq(Mutations(subject)) /\ Len(rows) = 0
    BY <2>1
  <2> QED BY <2>2
<1>3. FormsTyped
  BY <1>1, <1>2 DEF Init, FormsTyped
<1>4. FicheInv
  <2>1. CASE subject \in Fiches
    <3>1. record = Stored(subject) /\ loaded \in {NoFiche, record}
      BY <2>1 DEF Init
    <3>2. Stored(subject) \in Fields(subject)
      BY <2>1, StoredFiche
    <3>3. ASSUME NEW x \in Names, FormOf[subject].schema[x] = "rate"
          PROVE  record[x] = "a"
      <4>1. x = "rate"
        BY <1>1, <3>3, Rates DEF Names
      <4> QED BY <3>1, <3>3, <4>1 DEF Stored, Names
    <3>4. RateIsSet(subject, record)
      BY <3>3 DEF RateIsSet, Null, Unset, Names
    <3> QED BY <1>1, <2>1, <3>1, <3>2, <3>4 DEF FicheInv
  <2>2. CASE subject \notin Fiches
    BY <1>1, <2>2 DEF Init, FicheInv
  <2> QED BY <2>1, <2>2
<1>5. LinesInv /\ PassInv /\ OpeningInv /\ RowsInv
  BY <1>1, <1>2 DEF LinesInv, PassInv, OpeningInv, RowsInv
<1>6. SignIsShown
  BY <1>1 DEF SignIsShown
<1> QED BY <1>3, <1>4, <1>5, <1>6 DEF FormsInv

LEMMA FormsNext == FormsInv /\ [Next]_vars => FormsInv'
<1> SUFFICES ASSUME FormsInv, [Next]_vars PROVE FormsInv'
  OBVIOUS
<1>1. PassInv'
  BY RowsNext DEF RowsMove
<1> QED BY <1>1, TypedNext, LinesNext, OpeningNext, FicheNext, RowsInvNext DEF FormsInv

LEMMA FormsInvariant == Spec => []FormsInv
BY FormsInit, FormsNext, PTL DEF Spec

-----------------------------------------------------------------------------
(* What holds of every behaviour.                                          *)

\* Whatever is typed, picked, sent, left and answered, the form, the rows and the lists keep
\* their shapes, and a form keeps the lines it starts with (the screens' useFieldArray).
THEOREM FormsTypes == Spec => []TypeOK
<1>1. FormsInv => TypeOK
  <2> SUFFICES ASSUME FormsInv PROVE TypeOK
    OBVIOUS
  <2>1. ASSUME IsOpen
        PROVE  /\ form.name = subject /\ form.opening = opening
               /\ form.sign \in {1, -1} /\ {form.editing, form.saving, form.error} \subseteq BOOLEAN
               /\ Len(form.lines) >= FormOf[subject].least
               /\ \A i \in DOMAIN form.lines : form.lines[i] \in LineOK
    <3>1. form \in Drafts(subject) /\ form.lines \in Seq(LineOK)
      BY <2>1, OpenForm DEF FormsInv, Drafts
    <3>2. \A i \in DOMAIN form.lines : form.lines[i] \in LineOK
      BY <3>1
    <3> QED BY <2>1, <3>1, <3>2 DEF FormsInv, Drafts, LinesInv, OpeningInv
  <2>2. ASSUME NEW r \in DOMAIN rows
        PROVE  /\ rows[r].state \in {"pending", "done", "failed"} /\ rows[r].step \in Steps
               /\ rows[r].step = "passing" => pass # {}
    <3>1. rows[r] \in Mutations(subject)
      BY DEF FormsInv, FormsTyped
    <3> QED BY <3>1 DEF Mutations, FormsInv, PassInv
  <2>3. typed \subseteq Names /\ pass \subseteq DOMAIN rows /\ listed \subseteq Options /\ active \subseteq listed
    BY DEF FormsInv, FormsTyped, PassInv
  <2> QED BY <2>1, <2>2, <2>3 DEF TypeOK, Steps
<1> QED BY <1>1, FormsInvariant, PTL

\* Whatever the order in which the type, the sign and the quantity of a movement are chosen, the
\* chip that is lit tells the sign of what is sent (StockMovementFormScreen.tsx:47-53, 104-111).
THEOREM SignsAreShown == Spec => []SignIsShown
<1>1. FormsInv => SignIsShown
  BY DEF FormsInv
<1> QED BY <1>1, FormsInvariant, PTL

\* A form that is sent again, by a user who was told that it had failed or who came back, has
\* only ever one mutation that may take effect (handleSubmit, assertMutationSucceeded).
THEOREM MutationsAreSentOnce == Spec => []OneMutationPerOpening
<1>1. FormsInv => OneMutationPerOpening
  <2> SUFFICES ASSUME FormsInv, NEW o \in 1 .. opening
               PROVE  Cardinality({r \in DOMAIN rows : rows[r].opening = o /\ rows[r].state # "failed"}) <= 1
    BY DEF OneMutationPerOpening
  <2> DEFINE S == {r \in DOMAIN rows : rows[r].opening = o /\ rows[r].state # "failed"}
  <2>1. \A r, q \in S : r = q
    BY DEF FormsInv, OpeningInv
  <2> HIDE DEF S
  <2>2. CASE S = {}
    <3>1. Cardinality(S) = 0
      BY <2>2, FS_EmptySet
    <3> QED BY <3>1 DEF S
  <2>3. ASSUME NEW r \in S
        PROVE  Cardinality(S) <= 1
    <3>1. S = {r}
      BY <2>1, <2>3
    <3>2. Cardinality({r}) = 1
      BY FS_Singleton
    <3> QED BY <3>1, <3>2
  <2> QED BY <2>2, <2>3 DEF S
<1> QED BY <1>1, FormsInvariant, PTL

\* Only what its user typed is changed by the PATCH of a fiche that was loaded when the form was
\* sent and has not changed since, though the body repeats every field (toFormValues).
THEOREM PatchesAreTyped == Spec => PatchesChangeWhatWasTyped
<1>1. ASSUME FormsInv, [Next]_vars, pass' # pass, pass # {}, rows[Oldest].base = record,
             NEW x \in DOMAIN record, record'[x] # record[x]
      PROVE  x \in rows[Oldest].typed
  <2>1. PICK applied \in BOOLEAN, state \in {"done", "failed", "pending"} : Serve(applied, state)
    <3>1. ~Inputs
      BY <1>1, InputsMove DEF InputMove
    <3> QED BY <1>1, <3>1 DEF Next, Open, Submit, Process, Return, Replay, Leave, Refetch, ChangeFiche,
              Archive, RefetchOptions, ToggleNetwork, vars
  <2>2. /\ rows[Oldest].editing /\ record' = Patched(record, rows[Oldest].fields)
    BY <1>1, <2>1 DEF Serve
  <2>3. Oldest \in DOMAIN rows /\ rows[Oldest].state = "pending"
    BY <1>1, OldestWaits
  <2>4. subject \in Fiches /\ rows[Oldest].fields \in Fields(subject) /\ record \in Fields(subject)
    BY <1>1, <2>2, <2>3 DEF FormsInv, RowsInv, FicheInv
  <2>5. record # NoFiche /\ x \in Names
    BY <2>4, FichesAreThere DEF Fields, Names
  <2>6. rows[Oldest].fields[x] # record[x] /\ rows[Oldest].fields[x] # Unset
    BY <1>1, <2>2, <2>4, <2>5, PatchedFiche DEF Names
  <2> QED BY <1>1, <2>2, <2>3, <2>5, <2>6 DEF FormsInv, RowsInv
<1>2. FormsInv /\ [Next]_vars =>
        [pass' # pass /\ pass # {} /\ rows[Oldest].base = record =>
           \A x \in DOMAIN record : record'[x] # record[x] => x \in rows[Oldest].typed]_vars
  BY <1>1
<1> QED BY <1>2, FormsInvariant, PTL DEF Spec, PatchesChangeWhatWasTyped

\* A form whose last mutation was refused while the device was online stays, and what was typed
\* with it, until its user leaves or a form opened before it goes back late (the catch of
\* onSubmit and the goBack before it, in every form).
THEOREM RefusalsKeepTheForm == Spec => RefusedFormsStay
<1>1. ASSUME FormsInv, [Next]_vars, IsOpen, form' = Closed, NEW r \in DOMAIN rows,
             rows[r].opening = form.opening, rows[r].online, rows[r].state = "failed",
             \A q \in DOMAIN rows : rows[q].opening = form.opening => q <= r
      PROVE  \/ rows' = rows
             \/ \E q \in DOMAIN rows :
                  /\ rows[q].opening < form.opening
                  /\ rows[q].step = "asserting" /\ rows'[q].step = "returned"
  <2>1. form \in Drafts(subject) /\ Closed \notin Drafts(subject)
    BY <1>1, OpenForm, FormTable DEF FormsInv, Drafts, Closed
  <2>2. ASSUME NEW s \in DOMAIN rows, Return(s)
        PROVE  /\ rows[s].opening < form.opening
               /\ rows[s].step = "asserting" /\ rows'[s].step = "returned"
    <3>1. [form EXCEPT !.saving = FALSE, !.error = TRUE] \in Drafts(subject)
      BY <2>1 DEF Drafts
    <3>2. form' # [form EXCEPT !.saving = FALSE, !.error = TRUE] /\ form' # form
      BY <1>1, <2>1, <3>1
    <3>3. rows[s].step = "asserting" /\ ~(rows[s].online /\ rows[s].state = "failed")
      BY <2>2, <3>2 DEF Return, StayOpen
    <3>4. rows \in Seq(Mutations(subject)) /\ DOMAIN rows = 1 .. Len(rows) /\ Len(rows) \in Nat
      BY <1>1 DEF FormsInv, FormsTyped
    <3>5. rows[s].opening # form.opening
      <4> SUFFICES ASSUME rows[s].opening = form.opening PROVE FALSE
        OBVIOUS
      <4>1. s # r /\ r < s /\ s <= r
        BY <1>1, <3>3 DEF FormsInv, OpeningInv
      <4> QED BY <1>1, <2>2, <3>4, <4>1
    <3>6. rows[s].opening \in 1 .. opening /\ form.opening = opening /\ opening \in Nat
      BY <1>1 DEF FormsInv, OpeningInv, FormsTyped
    <3>7. rows'[s].step = "returned"
      <4>1. rows' = [rows EXCEPT ![s].step = "returned"] /\ rows[s] \in Mutations(subject)
        BY <2>2, <3>4 DEF Return
      <4> QED BY <4>1 DEF Mutations
    <3> QED BY <3>3, <3>5, <3>6, <3>7
  <2>3. ~Submit
    <3>1. [form EXCEPT !.saving = TRUE, !.error = FALSE] \in Drafts(subject)
      BY <2>1 DEF Drafts
    <3> QED BY <1>1, <2>1, <3>1 DEF Submit
  <2>4. form' # form
    BY <1>1 DEF IsOpen
  <2>5. CASE Inputs
    BY <1>1, <2>5, InputsMove DEF InputMove
  <2>6. CASE (\E editing \in BOOLEAN : Open(editing)) \/ Leave \/ Refetch
    BY <2>6 DEF Open, Leave, Refetch
  <2>7. CASE \/ \E s \in DOMAIN rows : Process(s)
             \/ \E applied \in BOOLEAN : \E state \in {"done", "failed", "pending"} : Serve(applied, state)
    BY <2>4, <2>7 DEF Process, Serve
  <2>8. CASE \/ Replay \/ (\E x \in Names : ChangeFiche(x)) \/ (\E o \in Options : Archive(o))
             \/ RefetchOptions \/ ToggleNetwork \/ UNCHANGED vars
    BY <2>8 DEF Replay, ChangeFiche, Archive, RefetchOptions, ToggleNetwork, vars
  <2> QED BY <1>1, <2>2, <2>3, <2>5, <2>6, <2>7, <2>8 DEF Next
<1>2. FormsInv /\ [Next]_vars =>
        [IsOpen /\ form' = Closed =>
           \A r \in DOMAIN rows :
             /\ rows[r].opening = form.opening /\ rows[r].online /\ rows[r].state = "failed"
             /\ \A q \in DOMAIN rows : rows[q].opening = form.opening => q <= r
             => \/ rows' = rows
                \/ \E q \in DOMAIN rows :
                     /\ rows[q].opening < form.opening
                     /\ rows[q].step = "asserting" /\ rows'[q].step = "returned"]_vars
  BY <1>1
<1> QED BY <1>2, FormsInvariant, PTL DEF Spec, RefusedFormsStay

-----------------------------------------------------------------------------
(* The screens: what is reached from each button of Home.                  *)

\* The screens that are reached from each button of Home, the queries they show and the hooks
\* they call.
Part ==
  [ClientsList |-> {"ClientsList", "ClientForm"},
   SuppliersList |-> {"SuppliersList", "SupplierForm"},
   ProductsList |-> {"ProductsList", "ProductForm"},
   StockLevels |-> {"StockLevels", "StockMovementHistory", "StockMovementForm"},
   SalesList |-> {"SalesList", "SaleForm", "SaleDetail"},
   PurchasesList |-> {"PurchasesList", "PurchaseForm", "PurchaseDetail"},
   InvoicesList |-> {"InvoicesList", "InvoiceForm", "InvoiceDetail"},
   AccountsList |-> {"AccountsList", "AccountForm", "TrialBalance", "JournalEntriesList",
                     "JournalEntryForm", "JournalEntryDetail"},
   Reports |-> {"Reports"}]

ShownBy ==
  [ClientsList |-> {"customers", "customer"}, SuppliersList |-> {"suppliers", "supplier"},
   ProductsList |-> {"products", "product"}, StockLevels |-> {"levels", "movements"},
   SalesList |-> {"sales", "sale"}, PurchasesList |-> {"purchases", "purchase"},
   InvoicesList |-> {"invoices", "invoice"},
   AccountsList |-> {"accounts", "balance", "entries", "entry"},
   Reports |-> {"salesReport", "purchasesReport", "income"}]

Done ==
  [ClientsList |-> {"saveCustomer", "deactivateCustomer"},
   SuppliersList |-> {"saveSupplier", "deactivateSupplier"},
   ProductsList |-> {"saveProduct", "deactivateProduct"}, StockLevels |-> {"createMovement"},
   SalesList |-> {"createSale", "confirmSale", "cancelSale"},
   PurchasesList |-> {"createPurchase", "confirmPurchase", "cancelPurchase"},
   InvoicesList |-> {"createInvoice", "markPaid", "voidInvoice"},
   AccountsList |-> {"createAccount", "createEntry"}, Reports |-> {}]

\* The keys that are refreshed.
QueryKeys ==
  {"customers", "suppliers", "products", "stock", "stock-movements", "sales", "sale", "purchases",
   "purchase", "invoices", "invoice", "accounting-accounts", "accounting-trial-balance",
   "journal-entries"}

InSeq(x, s) == \E i \in DOMAIN s : s[i] = x

\* What every screen has.
Shape(s, r) ==
  /\ s \in DOMAIN Screen /\ s # "Home"
  /\ Screen[s].opens \subseteq Part[r] /\ Screen[s].shows \subseteq ShownBy[r]
  /\ Screen[s].does \subseteq Done[r]
  /\ Screen[s].first \in Screen[s].filters /\ Screen[s].filters \subseteq Statuses
  /\ Screen[s].kind \in {"list", "detail", "report", "form"}

LEMMA ScreenTable ==
  /\ Screen["ClientsList"] = ClientsList /\ Screen["SuppliersList"] = SuppliersList
  /\ Screen["ProductsList"] = ProductsList /\ Screen["StockLevels"] = StockLevels
  /\ Screen["StockMovementHistory"] = StockMovementHistory
  /\ Screen["SalesList"] = SalesList /\ Screen["PurchasesList"] = PurchasesList
  /\ Screen["InvoicesList"] = InvoicesList /\ Screen["AccountsList"] = AccountsList
  /\ Screen["JournalEntriesList"] = JournalEntriesList
  /\ Screen["SaleDetail"] = SaleDetail /\ Screen["PurchaseDetail"] = PurchaseDetail
  /\ Screen["InvoiceDetail"] = InvoiceDetail
  /\ Screen["JournalEntryDetail"] = JournalEntryDetail
  /\ Screen["TrialBalance"] = TrialBalance /\ Screen["Reports"] = Reports
  /\ Screen["ClientForm"] = FormScreen({"customer"}, "saveCustomer")
  /\ Screen["SupplierForm"] = FormScreen({"supplier"}, "saveSupplier")
  /\ Screen["ProductForm"] = FormScreen({"product"}, "saveProduct")
  /\ Screen["StockMovementForm"] = FormScreen({}, "createMovement")
  /\ Screen["SaleForm"] = FormScreen({}, "createSale")
  /\ Screen["PurchaseForm"] = FormScreen({}, "createPurchase")
  /\ Screen["InvoiceForm"] = FormScreen({}, "createInvoice")
  /\ Screen["AccountForm"] = FormScreen({}, "createAccount")
  /\ Screen["JournalEntryForm"] = FormScreen({}, "createEntry")
BY DEF Screen

LEMMA ScreenNames ==
  DOMAIN Screen =
    {"Home", "ClientsList", "SuppliersList", "ProductsList", "StockLevels",
     "StockMovementHistory", "SalesList", "PurchasesList", "InvoicesList", "AccountsList",
     "JournalEntriesList", "SaleDetail", "PurchaseDetail", "InvoiceDetail",
     "JournalEntryDetail", "TrialBalance", "Reports", "ClientForm", "SupplierForm",
     "ProductForm", "StockMovementForm", "SaleForm", "PurchaseForm", "InvoiceForm",
     "AccountForm", "JournalEntryForm"}
BY DEF Screen

LEMMA QueryNames ==
  Queries =
    {"customers", "customer", "suppliers", "supplier", "products", "product", "levels",
     "movements", "sales", "sale", "purchases", "purchase", "invoices", "invoice", "accounts",
     "balance", "entries", "entry", "salesReport", "purchasesReport", "income"}
BY DEF Queries, Query

LEMMA HomeIsAMenu ==
  /\ Screen["Home"].kind = "menu" /\ Screen["Home"].opens = Roots
  /\ Screen["Home"].shows = {} /\ Screen["Home"].does = {}
  /\ Screen["Home"].filters = {"all"} /\ Screen["Home"].first = "all"
BY DEF Screen, Leaf

LEMMA Parts ==
  ASSUME NEW r \in HomeScreen, NEW s \in Part[r]
  PROVE  Shape(s, r)
<1>1. CASE r = "ClientsList"
  BY <1>1, ScreenTable, ScreenNames DEF Part, ShownBy, Done, Shape, ClientsList, FormScreen,
     Leaf, Statuses
<1>2. CASE r = "SuppliersList"
  BY <1>2, ScreenTable, ScreenNames DEF Part, ShownBy, Done, Shape, SuppliersList, FormScreen,
     Leaf, Statuses
<1>3. CASE r = "ProductsList"
  BY <1>3, ScreenTable, ScreenNames DEF Part, ShownBy, Done, Shape, ProductsList, FormScreen,
     Leaf, Statuses
<1>4. CASE r = "StockLevels"
  BY <1>4, ScreenTable, ScreenNames DEF Part, ShownBy, Done, Shape, StockLevels,
     StockMovementHistory, FormScreen, Leaf, Statuses
<1>5. CASE r = "SalesList"
  BY <1>5, ScreenTable, ScreenNames DEF Part, ShownBy, Done, Shape, SalesList, SaleDetail,
     FormScreen, Leaf, Statuses
<1>6. CASE r = "PurchasesList"
  BY <1>6, ScreenTable, ScreenNames DEF Part, ShownBy, Done, Shape, PurchasesList,
     PurchaseDetail, FormScreen, Leaf, Statuses
<1>7. CASE r = "InvoicesList"
  BY <1>7, ScreenTable, ScreenNames DEF Part, ShownBy, Done, Shape, InvoicesList,
     InvoiceDetail, FormScreen, Leaf, Statuses
<1>8. CASE r = "AccountsList"
  <2>1. CASE s \in {"AccountsList", "JournalEntriesList"}
    BY <1>8, <2>1, ScreenTable, ScreenNames DEF Part, ShownBy, Done, Shape, AccountsList,
       JournalEntriesList, Statuses
  <2>2. CASE s \in {"AccountForm", "JournalEntryForm"}
    BY <1>8, <2>2, ScreenTable, ScreenNames DEF Part, ShownBy, Done, Shape, FormScreen, Leaf,
       Statuses
  <2>3. CASE s \in {"TrialBalance", "JournalEntryDetail"}
    BY <1>8, <2>3, ScreenTable, ScreenNames DEF Part, ShownBy, Done, Shape, TrialBalance,
       JournalEntryDetail, Leaf, Statuses
  <2> QED BY <1>8, <2>1, <2>2, <2>3 DEF Part
<1>9. CASE r = "Reports"
  BY <1>9, ScreenTable, ScreenNames DEF Part, ShownBy, Done, Shape, Reports, Leaf, Statuses
<1> QED BY <1>1, <1>2, <1>3, <1>4, <1>5, <1>6, <1>7, <1>8, <1>9 DEF HomeScreen

\* A list shows one query, and keeps its only filter, which hides no row, or has another.
LEMMA ListFilters ==
  ASSUME NEW s \in DOMAIN Screen, Screen[s].kind = "list"
  PROVE  /\ \E q \in Queries : Screen[s].shows = {q}
         /\ Screen[s].filters = {"all"} \/ \A f : Screen[s].filters # {f}
<1>1. s \in {"ClientsList", "SuppliersList", "ProductsList", "StockLevels",
     "StockMovementHistory", "SalesList", "PurchasesList", "InvoicesList", "AccountsList",
     "JournalEntriesList"}
  <2>1. CASE s \in {"SaleDetail", "PurchaseDetail", "InvoiceDetail", "JournalEntryDetail",
                    "TrialBalance", "Reports"}
    BY <2>1, ScreenTable DEF SaleDetail, PurchaseDetail, InvoiceDetail,
       JournalEntryDetail, TrialBalance, Reports, Leaf
  <2>2. CASE s \in {"ClientForm", "SupplierForm", "ProductForm", "StockMovementForm", "SaleForm",
                    "PurchaseForm", "InvoiceForm", "AccountForm", "JournalEntryForm"}
    BY <2>2, ScreenTable DEF FormScreen, Leaf
  <2> QED BY <2>1, <2>2, HomeIsAMenu, ScreenNames
<1>2. Screen[s].filters \in {{"open", "settled"}, {"all", "open"}, {"all"}}
  BY <1>1, ScreenTable DEF ClientsList, SuppliersList, ProductsList, StockLevels,
     StockMovementHistory, SalesList, PurchasesList, InvoicesList, AccountsList,
     JournalEntriesList
<1>3. \E q \in Queries : Screen[s].shows = {q}
  BY <1>1, ScreenTable, QueryNames DEF ClientsList, SuppliersList, ProductsList,
     StockLevels, StockMovementHistory, SalesList, PurchasesList, InvoicesList,
     AccountsList, JournalEntriesList
<1> QED BY <1>2, <1>3

\* Nothing is opened from a detail, and nothing from a form.  What the actions of a detail change
\* is its document, whose key they refresh.
LEMMA Details ==
  ASSUME NEW s \in DOMAIN Screen, Screen[s].kind = "detail"
  PROVE  /\ Screen[s].opens = {} /\ \E q \in Queries : Screen[s].shows = {q}
         /\ \A op \in Screen[s].does : \A q \in Screen[s].shows :
              InSeq(Query[q].key, Hook[op].refreshes)
<1>1. s \in {"SaleDetail", "PurchaseDetail", "InvoiceDetail", "JournalEntryDetail"}
  <2>1. CASE s \in {"ClientsList", "SuppliersList", "ProductsList", "StockLevels",
     "StockMovementHistory", "SalesList", "PurchasesList", "InvoicesList", "AccountsList",
     "JournalEntriesList"}
    BY <2>1, ScreenTable DEF ClientsList, SuppliersList, ProductsList, StockLevels,
     StockMovementHistory, SalesList, PurchasesList, InvoicesList, AccountsList,
     JournalEntriesList
  <2>2. CASE s \in {"ClientForm", "SupplierForm", "ProductForm", "StockMovementForm", "SaleForm",
                    "PurchaseForm", "InvoiceForm", "AccountForm", "JournalEntryForm"}
    BY <2>2, ScreenTable DEF FormScreen, Leaf
  <2>3. CASE s \in {"TrialBalance", "Reports"}
    BY <2>3, ScreenTable DEF TrialBalance, Reports, Leaf
  <2> QED BY <2>1, <2>2, <2>3, HomeIsAMenu, ScreenNames
<1>2. Screen[s].opens = {} /\ \E q \in Queries : Screen[s].shows = {q}
  BY <1>1, ScreenTable, QueryNames DEF SaleDetail, PurchaseDetail, InvoiceDetail,
     JournalEntryDetail, Leaf
<1>3. ASSUME NEW op \in Screen[s].does, NEW q \in Screen[s].shows
      PROVE  InSeq(Query[q].key, Hook[op].refreshes)
  <2>1. CASE s = "SaleDetail"
    BY <2>1, <1>3, ScreenTable DEF SaleDetail, Leaf, Query, UseSale, Hook,
       UseConfirmSale, UseCancelSale, InSeq
  <2>2. CASE s = "PurchaseDetail"
    BY <2>2, <1>3, ScreenTable DEF PurchaseDetail, Leaf, Query, UsePurchase, Hook,
       UseConfirmPurchase, UseCancelPurchase, InSeq
  <2>3. CASE s = "InvoiceDetail"
    BY <2>3, <1>3, ScreenTable DEF InvoiceDetail, Leaf, Query, UseInvoice, Hook,
       UseMarkInvoicePaid, UseVoidInvoice, InSeq
  <2>4. CASE s = "JournalEntryDetail"
    BY <2>4, <1>3, ScreenTable DEF JournalEntryDetail, Leaf
  <2> QED BY <1>1, <2>1, <2>2, <2>3, <2>4
<1> QED BY <1>2, <1>3

LEMMA HookNames ==
  DOMAIN Hook = UNION {Done[r] : r \in HomeScreen}
BY DEF Hook, Done, HomeScreen

LEMMA Refreshes ==
  ASSUME NEW op \in DOMAIN Hook
  PROVE  Hook[op].refreshes \in Seq(QueryKeys) /\ Hook[op].refreshes # <<>>
<1> DEFINE Ones == {"customers", "suppliers", "products", "sales", "purchases", "invoices"}
           Twos == {<<"stock", "stock-movements">>, <<"sales", "sale">>,
                    <<"purchases", "purchase">>, <<"invoices", "invoice">>,
                    <<"accounting-accounts", "accounting-trial-balance">>}
           Threes == {<<"journal-entries", "accounting-accounts", "accounting-trial-balance">>}
           Fours == {<<"sales", "sale", "stock", "stock-movements">>,
                     <<"purchases", "purchase", "stock", "stock-movements">>}
<1>1. Hook[op].refreshes \in {<<a>> : a \in Ones} \cup Twos \cup Threes \cup Fours
  BY DEF Hook, UseSaveCustomer, UseDeactivateCustomer, UseSaveSupplier,
     UseDeactivateSupplier, UseSaveProduct, UseDeactivateProduct, UseCreateStockMovement,
     UseCreateSale, UseConfirmSale, UseCancelSale, UseCreatePurchase,
     UseConfirmPurchase, UseCancelPurchase, UseCreateInvoice, UseMarkInvoicePaid,
     UseVoidInvoice, UseCreateAccount, UseCreateJournalEntry
<1>2. \A a \in Ones : <<a>> \in Seq(QueryKeys) /\ <<a>> # <<>>
  BY DEF QueryKeys
<1>3. /\ {"stock", "stock-movements", "sales", "sale", "purchases", "purchase", "invoices",
          "invoice", "accounting-accounts", "accounting-trial-balance"} \subseteq QueryKeys
      /\ "journal-entries" \in QueryKeys
  BY DEF QueryKeys
<1>4. /\ <<"stock", "stock-movements">> \in Seq(QueryKeys)
      /\ <<"sales", "sale">> \in Seq(QueryKeys)
      /\ <<"purchases", "purchase">> \in Seq(QueryKeys)
      /\ <<"invoices", "invoice">> \in Seq(QueryKeys)
      /\ <<"accounting-accounts", "accounting-trial-balance">> \in Seq(QueryKeys)
  BY <1>3
<1>5. /\ <<"journal-entries", "accounting-accounts", "accounting-trial-balance">>
            \in Seq(QueryKeys)
      /\ <<"sales", "sale", "stock", "stock-movements">> \in Seq(QueryKeys)
      /\ <<"purchases", "purchase", "stock", "stock-movements">> \in Seq(QueryKeys)
  BY <1>3
<1>6. \A s \in Twos \cup Threes \cup Fours : s # <<>>
  OBVIOUS
<1> QED BY <1>1, <1>2, <1>4, <1>5, <1>6

\* What a hook changes is read, on the screens it may be called from, under the keys it refreshes.
LEMMA HooksCover ==
  ASSUME NEW r \in HomeScreen, NEW op \in Done[r], NEW q \in ShownBy[r],
         Query[q].reads \cap Hook[op].changes # {}
  PROVE  InSeq(Query[q].key, Hook[op].refreshes)
<1>1. CASE r = "ClientsList"
  BY <1>1 DEF Done, ShownBy, Query, UseCustomers, UseCustomer, Hook, UseSaveCustomer,
     UseDeactivateCustomer, InSeq
<1>2. CASE r = "SuppliersList"
  BY <1>2 DEF Done, ShownBy, Query, UseSuppliers, UseSupplier, Hook, UseSaveSupplier,
     UseDeactivateSupplier, InSeq
<1>3. CASE r = "ProductsList"
  BY <1>3 DEF Done, ShownBy, Query, UseProducts, UseProduct, Hook, UseSaveProduct,
     UseDeactivateProduct, InSeq
<1>4. CASE r = "StockLevels"
  BY <1>4 DEF Done, ShownBy, Query, UseStockLevels, UseStockMovements, Hook,
     UseCreateStockMovement, InSeq
<1>5. CASE r = "SalesList"
  BY <1>5 DEF Done, ShownBy, Query, UseSales, UseSale, Hook, UseCreateSale,
     UseConfirmSale, UseCancelSale, InSeq
<1>6. CASE r = "PurchasesList"
  BY <1>6 DEF Done, ShownBy, Query, UsePurchases, UsePurchase, Hook, UseCreatePurchase,
     UseConfirmPurchase, UseCancelPurchase, InSeq
<1>7. CASE r = "InvoicesList"
  BY <1>7 DEF Done, ShownBy, Query, UseInvoices, UseInvoice, Hook, UseCreateInvoice,
     UseMarkInvoicePaid, UseVoidInvoice, InSeq
<1>8. CASE r = "AccountsList"
  BY <1>8 DEF Done, ShownBy, Query, UseAccounts, UseTrialBalance, UseJournalEntries,
     UseJournalEntry, Hook, UseCreateAccount, UseCreateJournalEntry, InSeq
<1>9. CASE r = "Reports"
  BY <1>9 DEF Done
<1> QED BY <1>1, <1>2, <1>3, <1>4, <1>5, <1>6, <1>7, <1>8, <1>9 DEF HomeScreen

LEMMA ShownAndDone ==
  ASSUME NEW r \in HomeScreen
  PROVE  ShownBy[r] \subseteq Queries /\ Done[r] \subseteq DOMAIN Hook
BY HookNames, QueryNames DEF ShownBy, HomeScreen

-----------------------------------------------------------------------------
(* The invariant.                                                          *)

AllKeys == [query : Queries, filter : Statuses, page : Nat \ {0}]

Data ==
  [total : 0 .. Cardinality(Items), active : SUBSET Items, misses : BOOLEAN, late : BOOLEAN]

Entries ==
  [has : BOOLEAN, data : Data, failed : BOOLEAN, fetch : {"none", "paused", "asked", "read"},
   read : Data]

Frames ==
  [screen : DOMAIN Screen, page : Nat \ {0}, filter : Statuses, last : SUBSET AllKeys,
   asking : SUBSET Items, waits : Nat, applied : BOOLEAN]

HookSteps == {"queued", "passing", "asserting", "refetching", "ending", "refused", "ended"}

Writes ==
  [op : DOMAIN Hook \cup {"none"}, rows : SUBSET Items, step : HookSteps,
   left : Seq(QueryKeys), awaits : SUBSET AllKeys,
   state : {"pending", "applied", "failed", "none"}]

ViewsTyped ==
  /\ root \in Roots /\ stack \in Seq(Frames) /\ DOMAIN cache \subseteq AllKeys
  /\ open \subseteq Items /\ writes \in Seq(Writes) /\ batch \subseteq Nat /\ owner \in Nat
  /\ sync \in BOOLEAN /\ isOnline \in BOOLEAN /\ faults \in Nat /\ gestures \in Nat

\* The stack is a way from Home through the screens of one button.
StackInv ==
  /\ stack # <<>> /\ stack[1].screen = "Home"
  /\ \A i \in DOMAIN stack :
       /\ stack[i].screen \in {"Home"} \cup Part[root]
       /\ stack[i].waits \in 0 .. Len(writes)
       /\ stack[i].filter \in Screen[stack[i].screen].filters
       /\ i > 1 => stack[i].screen \in Screen[stack[i - 1].screen].opens

\* An entry of the cache: the list of a filter that hides nothing has every row.
Sound(k, c) ==
  /\ c \in Entries
  /\ ~c.has => c.data = Nothing
  /\ c.fetch # "read" => c.read = Nothing
  /\ k.filter = "all" /\ c.has => c.data.total = Cardinality(Items)
  /\ k.filter = "all" /\ c.fetch = "read" => c.read.total = Cardinality(Items)

\* What is in the cache is of the queries of that button, and what screens show is in it.
CacheInv ==
  /\ \A k \in DOMAIN cache : k.query \in ShownBy[root] /\ Sound(k, cache[k])
  /\ \A i \in DOMAIN stack : Keys(stack[i]) \cup stack[i].last \subseteq DOMAIN cache

\* A pass has pending writes, one hook at most awaits it, and what is left of a write that
\* nobody waits for is nothing.
QueueInv ==
  /\ batch \subseteq PendingMutations /\ (batch = {} => owner = 0 /\ ~sync)
  /\ owner \in 0 .. Len(writes)
  /\ \A w \in DOMAIN writes :
       /\ writes[w].state # "none" => writes[w].op \in Done[root]
       /\ writes[w].state = "none" => writes[w].step = "ended"
       /\ writes[w].step = "passing" <=> owner = w
       /\ writes[w].step = "refetching" => writes[w].left # <<>>

\* A hook awaits fetches that are not over.
AwaitsInv ==
  \A w \in DOMAIN writes : \A k \in writes[w].awaits :
    k \in DOMAIN cache /\ cache[k].fetch # "none"

\* The hook of a write that has been applied has yet to invalidate a key.
Due(w, k) ==
  \/ /\ writes[w].step \in {"passing", "asserting"} /\ writes[w].state = "applied"
     /\ InSeq(Query[k.query].key, Hook[writes[w].op].refreshes)
  \/ writes[w].step = "refetching" /\ InSeq(Query[k.query].key, Tail(writes[w].left))

Covered(k) == sync \/ \E w \in DOMAIN writes : Due(w, k)

\* What is about to be shown misses a write, and no invalidation came since it was answered.
WillMiss(c) == c.read.misses /\ ~c.read.late

\* What is shown does, and is not being read again.
Misses(c) == c.data.misses /\ ~c.failed /\ ~c.data.late /\ c.fetch = "none"

\* What a screen shows, or is about to show, without a write of the user will be invalidated.
ShownInv ==
  \A k \in DOMAIN cache :
    WillMiss(cache[k]) \/ (k \in Mounted /\ Misses(cache[k])) => Covered(k)

\* A list whose rows cannot leave it is on a page of them.
Fixed(s) == Screen[s].kind = "list" /\ Screen[s].filters = {"all"}

PageInv == \A i \in DOMAIN stack : Fixed(stack[i].screen) => stack[i].page <= Cardinality(Items)

IsDetail(i) == Screen[stack[i].screen].kind = "detail"

\* A detail waits for a hook that has not returned, and that acts on its document.
WaitsInv ==
  \A i \in DOMAIN stack : IsDetail(i) /\ stack[i].waits # 0 =>
    /\ writes[stack[i].waits].step # "ended"
    /\ writes[stack[i].waits].op \in Screen[stack[i].screen].does
    /\ writes[stack[i].waits].rows = {Followed}

\* A detail that has acted shows its document.
SeenInv ==
  \A i \in DOMAIN stack : IsDetail(i) /\ (stack[i].waits # 0 \/ stack[i].applied) =>
    \A k \in Keys(stack[i]) : cache[k].has

\* What is shown has the document settled or in error, or is being read again and will.
Settling(c) ==
  /\ Followed \notin c.read.active
  /\ c.fetch # "none" \/ c.failed \/ Followed \notin c.data.active

\* A detail whose action has been applied has its document settled, or waits for the hook that
\* will invalidate it.
ActionInv ==
  \A i \in DOMAIN stack : IsDetail(i) /\ stack[i].applied =>
    /\ Followed \notin open
    /\ \A k \in Keys(stack[i]) :
         Settling(cache[k]) \/ (stack[i].waits # 0 /\ Due(stack[i].waits, k))

ViewsInv ==
  /\ ViewsTyped /\ StackInv /\ CacheInv /\ QueueInv /\ AwaitsInv
  /\ ShownInv /\ PageInv /\ WaitsInv /\ SeenInv /\ ActionInv

-----------------------------------------------------------------------------
(* Screens and their keys.                                                 *)

LEMMA Frame ==
  ASSUME ViewsAssumption, ViewsTyped, StackInv, NEW i \in DOMAIN stack
  PROVE  /\ stack[i] \in Frames /\ stack[i].screen \in DOMAIN Screen
         /\ Screen[stack[i].screen].shows \subseteq ShownBy[root] \cap Queries
         /\ Screen[stack[i].screen].does \subseteq Done[root] \cap DOMAIN Hook
         /\ Screen[stack[i].screen].opens \subseteq Part[root] \cup Roots
         /\ Screen[stack[i].screen].filters \subseteq Statuses
<1>1. root \in HomeScreen /\ stack[i] \in Frames
  BY DEF ViewsTyped, ViewsAssumption
<1>2. CASE stack[i].screen = "Home"
  BY <1>1, <1>2, HomeIsAMenu, ScreenNames DEF Statuses
<1>3. CASE stack[i].screen \in Part[root]
  BY <1>1, <1>3, Parts, ShownAndDone DEF Shape
<1> QED BY <1>1, <1>2, <1>3 DEF StackInv

LEMMA TopFrame ==
  ASSUME ViewsAssumption, ViewsTyped, StackInv
  PROVE  /\ Len(stack) \in Nat \ {0} /\ Len(stack) \in DOMAIN stack
         /\ DOMAIN stack = 1 .. Len(stack) /\ Top = stack[Len(stack)] /\ Top \in Frames
BY DEF ViewsTyped, StackInv, Top

LEMMA DetailsAreLast ==
  ASSUME ViewsAssumption, ViewsTyped, StackInv, NEW i \in DOMAIN stack, IsDetail(i)
  PROVE  i = Len(stack)
<1>1. stack[i].screen \in DOMAIN Screen /\ Len(stack) \in Nat
  BY Frame DEF ViewsTyped
<1>2. Screen[stack[i].screen].opens = {}
  BY <1>1, Details DEF IsDetail
<1>3. ASSUME i # Len(stack)
      PROVE  FALSE
  <2>1. i + 1 \in DOMAIN stack /\ i + 1 > 1 /\ (i + 1) - 1 = i
    BY <1>1, <1>3 DEF ViewsTyped
  <2>2. stack[i + 1].screen \in Screen[stack[(i + 1) - 1].screen].opens
    BY <2>1 DEF StackInv
  <2> QED BY <1>2, <2>1, <2>2
<1> QED BY <1>3

LEMMA FrameKeys ==
  ASSUME NEW e
  PROVE  /\ \A k \in Keys(e) : /\ k.query \in Screen[e.screen].shows /\ k.filter = e.filter
                               /\ k.page = e.page
         /\ \A q \in Screen[e.screen].shows :
              [query |-> q, filter |-> e.filter, page |-> e.page] \in Keys(e)
BY DEF Keys

\* The keys of a frame are those of its screen, its filter and its page.
LEMMA SameKeys ==
  ASSUME NEW e, NEW f, f.screen = e.screen, f.filter = e.filter, f.page = e.page
  PROVE  Keys(f) = Keys(e)
BY DEF Keys

LEMMA MountedKeys ==
  /\ \A k \in Mounted : \E i \in DOMAIN stack : k \in Keys(stack[i])
  /\ \A i \in DOMAIN stack : Keys(stack[i]) \subseteq Mounted
BY DEF Mounted

LEMMA MountedIsCached ==
  ASSUME CacheInv
  PROVE  Mounted \subseteq DOMAIN cache
BY MountedKeys DEF CacheInv

LEMMA NextMounted ==
  /\ \A k \in Mounted' : \E i \in DOMAIN stack' : k \in Keys(stack'[i])
  /\ \A i \in DOMAIN stack' : Keys(stack'[i]) \subseteq Mounted'
BY DEF Mounted, Keys

\* A list shows one query, a detail shows one document.
LEMMA OneKey ==
  ASSUME NEW e \in Frames, Screen[e.screen].kind \in {"list", "detail"}
  PROVE  /\ Listed(e) \in Keys(e) /\ \A k \in Keys(e) : k = Listed(e)
<1>1. e.screen \in DOMAIN Screen
  BY DEF Frames
<1>2. PICK q \in Queries : Screen[e.screen].shows = {q}
  BY <1>1, ListFilters, Details
<1>3. Keys(e) = {[query |-> q, filter |-> e.filter, page |-> e.page]}
  BY <1>2 DEF Keys
<1> QED BY <1>3 DEF Listed

\* What a screen shows may be asked for.
LEMMA TypedKeys ==
  ASSUME ViewsAssumption, NEW e \in Frames, NEW r \in HomeScreen,
         Screen[e.screen].shows \subseteq ShownBy[r]
  PROVE  \A k \in Keys(e) : k \in AllKeys /\ k.query \in ShownBy[r]
<1>1. e.page \in Nat \ {0} /\ e.filter \in Statuses
  BY DEF Frames
<1>2. ShownBy[r] \subseteq Queries
  BY ShownAndDone
<1> QED BY <1>1, <1>2 DEF Keys, AllKeys

-----------------------------------------------------------------------------
(* Entries of the cache.                                                   *)

LEMMA SameSets ==
  ASSUME NEW S
  PROVE  (IsFiniteSet(S) <=> IsFiniteSet(S)) /\ Cardinality(S) = Cardinality(S)
BY DEF IsFiniteSet, IsFiniteSet, Cardinality, Cardinality

LEMMA NothingIsData ==
  ASSUME ViewsAssumption
  PROVE  /\ Nothing \in Data /\ Nothing.misses = FALSE /\ Nothing.active = {}
         /\ Nothing.total = 0 /\ Nothing.late = FALSE
         /\ Cardinality(Items) \in Nat /\ Cardinality(Items) >= 1 /\ Cardinality(Items) # 0
<1>1. Cardinality(Items) \in Nat /\ IsFiniteSet(Items)
  BY SameSets, FS_CardinalityType DEF ViewsAssumption
<1>2. Cardinality(Items) # 0
  BY <1>1, FS_EmptySet DEF ViewsAssumption
<1> QED BY <1>1, <1>2 DEF Nothing, Data

LEMMA NoDataIsSound ==
  ASSUME ViewsAssumption, NEW k
  PROVE  /\ Sound(k, NoData) /\ ~WillMiss(NoData) /\ ~Misses(NoData)
         /\ NoData.has = FALSE /\ NoData.failed = FALSE /\ NoData.fetch = "none"
         /\ NoData.read = Nothing /\ NoData.data = Nothing
BY NothingIsData DEF Sound, NoData, None, Entries, WillMiss, Misses

\* What becomes of an entry in a step that tells it of no write: it misses none that it did not,
\* and it stays on the way to the document settled.
EntryStep(k, c, d) ==
  /\ Sound(k, d)
  /\ c.has => d.has
  /\ WillMiss(d) => WillMiss(c)
  /\ Misses(d) => Misses(c) \/ WillMiss(c)
  /\ Followed \notin open /\ Settling(c) => Settling(d)

LEMMA KeptEntry ==
  ASSUME NEW k, NEW c, Sound(k, c)
  PROVE  EntryStep(k, c, c)
BY DEF EntryStep

LEMMA RestartedEntry ==
  ASSUME ViewsAssumption, NEW k, NEW c, Sound(k, c), NEW b \in BOOLEAN
  PROVE  LET d == Fetching(c, b) IN
         /\ EntryStep(k, c, d) /\ d.fetch \in {"asked", "paused"} /\ d.read = Nothing
         /\ d.has = c.has /\ ~WillMiss(d) /\ ~Misses(d) /\ (c.has => Settling(d))
<1> DEFINE d == Fetching(c, b)
<1>1. /\ d.has = c.has /\ d.data = c.data /\ d.failed = (c.failed /\ c.has)
      /\ d.fetch \in {"asked", "paused"} /\ d.read = Nothing /\ d \in Entries
  BY NothingIsData DEF Fetching, Entries, Sound
<1> HIDE DEF d
<1>2. Sound(k, d) /\ ~WillMiss(d) /\ ~Misses(d) /\ Settling(d)
  BY <1>1, NothingIsData DEF Sound, WillMiss, Misses, Settling
<1> QED BY <1>1, <1>2 DEF EntryStep, d

\* The answer on its way has been given before an invalidation.
Marked(c) == [c EXCEPT !.read.late = c.read.misses]

LEMMA SameLate ==
  ASSUME NEW x \in Data, x.late = FALSE
  PROVE  [x EXCEPT !.late = FALSE] = x
BY DEF Data

LEMMA MarkedEntry ==
  ASSUME ViewsAssumption, NEW k, NEW c, Sound(k, c)
  PROVE  LET d == Marked(c) IN
         /\ EntryStep(k, c, d) /\ ~WillMiss(d) /\ d.has = c.has /\ d.fetch = c.fetch
         /\ Misses(d) => Misses(c)
<1> DEFINE d == Marked(c)
           r == [c.read EXCEPT !.late = c.read.misses]
<1>1. c \in Entries /\ c.read \in Data /\ c.data \in Data
  BY DEF Sound, Entries
<1>2. /\ r \in Data /\ r.total = c.read.total /\ r.active = c.read.active
      /\ r.misses = c.read.misses /\ r.late = c.read.misses
  BY <1>1 DEF Data
<1>3. c.read = Nothing => r = Nothing
  <2> SUFFICES ASSUME c.read = Nothing
               PROVE  r = Nothing
    OBVIOUS
  <2>1. r = [c.read EXCEPT !.late = FALSE]
    BY NothingIsData
  <2> QED BY <1>1, <2>1, SameLate, NothingIsData
<1>4. d = [c EXCEPT !.read = r]
  BY <1>1 DEF Marked, Entries
<1> HIDE DEF r
<1>5. /\ d \in Entries /\ d.has = c.has /\ d.data = c.data /\ d.failed = c.failed
      /\ d.fetch = c.fetch /\ d.read = r
  BY <1>1, <1>2, <1>4 DEF Entries
<1> HIDE DEF d
<1>6. Sound(k, d)
  BY <1>2, <1>3, <1>5 DEF Sound
<1> QED BY <1>2, <1>5, <1>6 DEF EntryStep, WillMiss, Misses, Settling, d

-----------------------------------------------------------------------------
(* Steps of the cache.                                                     *)

\* Invalidated, an entry is read again, or what it is about to show is known to be late.
LEMMA InvalidatedEntry ==
  ASSUME ViewsAssumption, NEW c, NEW ks, NEW b \in BOOLEAN, NEW k \in DOMAIN c, Sound(k, c[k])
  PROVE  LET d == Invalidated(c, ks, b)[k] IN
         /\ EntryStep(k, c[k], d) /\ d.has = c[k].has
         /\ c[k].fetch # "none" => d.fetch # "none"
         /\ k \notin ks => d = c[k]
         /\ k \in ks => ~WillMiss(d) /\ ~(k \in Mounted /\ Misses(d))
         /\ k \in ks \cap Mounted => d.fetch # "none" /\ (c[k].has => Settling(d))
<1> DEFINE d == Invalidated(c, ks, b)[k]
<1>1. CASE k \notin ks
  <2>1. d = c[k]
    BY <1>1 DEF Invalidated
  <2> QED BY <1>1, <2>1, KeptEntry
<1>2. CASE k \in ks /\ k \in Mounted /\ (c[k].has \/ c[k].fetch = None)
  <2>1. d = Fetching(c[k], b)
    BY <1>2 DEF Invalidated
  <2> QED BY <1>2, <2>1, RestartedEntry
<1>3. CASE k \in ks /\ ~(k \in Mounted /\ (c[k].has \/ c[k].fetch = None))
  <2>1. d = Marked(c[k])
    BY <1>3 DEF Invalidated, Marked
  <2>2. /\ EntryStep(k, c[k], d) /\ ~WillMiss(d) /\ d.has = c[k].has /\ d.fetch = c[k].fetch
        /\ Misses(d) => Misses(c[k])
    BY <2>1, MarkedEntry
  <2>3. k \in Mounted => ~c[k].has /\ c[k].fetch # "none"
    BY <1>3 DEF None
  <2> QED BY <1>3, <2>2, <2>3 DEF Misses
<1> QED BY <1>1, <1>2, <1>3

\* What is observed is being fetched.
LEMMA ObservedEntries ==
  ASSUME ViewsAssumption, ViewsInv, NEW ks \in SUBSET AllKeys
  PROVE  /\ DOMAIN Observed(ks) = DOMAIN cache \cup ks
         /\ \A k \in DOMAIN cache :
              /\ EntryStep(k, cache[k], Observed(ks)[k])
              /\ cache[k].fetch # "none" => Observed(ks)[k].fetch # "none"
         /\ \A k \in ks \ DOMAIN cache :
              Sound(k, Observed(ks)[k]) /\ ~WillMiss(Observed(ks)[k])
         /\ \A k \in ks : ~Misses(Observed(ks)[k])
<1>1. DOMAIN Observed(ks) = DOMAIN cache \cup ks
  BY DEF Observed
<1>2. isOnline \in BOOLEAN
  BY DEF ViewsInv, ViewsTyped
<1>3. ASSUME NEW k \in DOMAIN cache
      PROVE  /\ EntryStep(k, cache[k], Observed(ks)[k])
             /\ cache[k].fetch # "none" => Observed(ks)[k].fetch # "none"
             /\ k \in ks => ~Misses(Observed(ks)[k])
  <2>1. Sound(k, cache[k])
    BY DEF ViewsInv, CacheInv
  <2>2. CASE k \in ks /\ cache[k].fetch = None
    <3>1. Observed(ks)[k] = Fetching(cache[k], isOnline)
      BY <2>2 DEF Observed
    <3> QED BY <1>2, <2>1, <3>1, RestartedEntry
  <2>3. CASE ~(k \in ks /\ cache[k].fetch = None)
    <3>1. Observed(ks)[k] = cache[k]
      BY <2>3 DEF Observed
    <3> QED BY <2>1, <2>3, <3>1, KeptEntry DEF Misses, None
  <2> QED BY <2>2, <2>3
<1>4. ASSUME NEW k \in ks \ DOMAIN cache
      PROVE  /\ Sound(k, Observed(ks)[k]) /\ ~WillMiss(Observed(ks)[k])
             /\ ~Misses(Observed(ks)[k])
  <2>1. Observed(ks)[k] = Fetching(NoData, isOnline)
    BY <1>4 DEF Observed
  <2>2. Sound(k, NoData)
    BY NoDataIsSound
  <2> QED BY <1>2, <2>1, <2>2, RestartedEntry DEF EntryStep
<1> QED BY <1>1, <1>3, <1>4

-----------------------------------------------------------------------------
(* What keeps each part of the invariant.                                  *)

LEMMA CacheNext ==
  ASSUME ViewsInv, root' = root, DOMAIN cache \subseteq DOMAIN cache',
         \A k \in DOMAIN cache : EntryStep(k, cache[k], cache'[k]),
         \A k \in DOMAIN cache' \ DOMAIN cache :
           k \in AllKeys /\ k.query \in ShownBy[root] /\ Sound(k, cache'[k]),
         \A i \in DOMAIN stack' :
           Keys(stack'[i]) \cup stack'[i].last \subseteq DOMAIN cache'
  PROVE  CacheInv' /\ DOMAIN cache' \subseteq AllKeys
<1>1. \A k \in DOMAIN cache' : k.query \in ShownBy[root'] /\ Sound(k, cache'[k])
  BY DEF ViewsInv, CacheInv, EntryStep
<1>2. CacheInv'
  BY <1>1 DEF CacheInv, Sound, Keys
<1> QED BY <1>2 DEF ViewsInv, ViewsTyped

LEMMA ShownNext ==
  ASSUME ViewsInv, DOMAIN cache \subseteq DOMAIN cache',
         \A k \in DOMAIN cache : EntryStep(k, cache[k], cache'[k]),
         \A k \in DOMAIN cache' \ DOMAIN cache : ~WillMiss(cache'[k]),
         \A k \in Mounted' \ Mounted : ~Misses(cache'[k]),
         \A k \in DOMAIN cache : Covered(k) =>
           \/ Covered(k)'
           \/ ~WillMiss(cache'[k]) /\ ~(k \in Mounted /\ Misses(cache'[k]))
  PROVE  ShownInv'
<1>1. Mounted \subseteq DOMAIN cache
  BY MountedIsCached DEF ViewsInv
<1>2. ASSUME NEW k \in DOMAIN cache',
             WillMiss(cache'[k]) \/ (k \in Mounted' /\ Misses(cache'[k]))
      PROVE  Covered(k)'
  <2>1. k \in DOMAIN cache
    BY <1>1, <1>2
  <2>2. k \in Mounted' /\ Misses(cache'[k]) => k \in Mounted
    BY <1>2
  <2>3. WillMiss(cache[k]) \/ (k \in Mounted /\ Misses(cache[k]))
    BY <1>2, <2>1, <2>2 DEF EntryStep
  <2>4. Covered(k)
    BY <2>1, <2>3 DEF ViewsInv, ShownInv
  <2> QED BY <1>2, <2>1, <2>2, <2>4
<1>3. \A k : WillMiss(cache[k])' <=> WillMiss(cache'[k])
  BY DEF WillMiss
<1>4. \A k : Misses(cache[k])' <=> Misses(cache'[k])
  BY DEF Misses
<1> QED BY <1>2, <1>3, <1>4 DEF ShownInv

LEMMA PageNext ==
  ASSUME ViewsAssumption, ViewsInv,
         \A i \in DOMAIN stack' :
           \/ stack'[i].page = 1
           \/ /\ i \in DOMAIN stack /\ stack'[i].page = stack[i].page
              /\ stack'[i].screen = stack[i].screen
  PROVE  PageInv'
BY NothingIsData, SameSets DEF ViewsInv, PageInv, Fixed

LEMMA WaitsNext ==
  ASSUME ViewsAssumption, ViewsInv,
         \A i \in DOMAIN stack' : IsDetail(i)' /\ stack'[i].waits # 0 =>
           /\ i \in DOMAIN stack /\ stack'[i].screen = stack[i].screen
           /\ stack'[i].waits = stack[i].waits
           /\ writes'[stack[i].waits].op = writes[stack[i].waits].op
           /\ writes'[stack[i].waits].rows = writes[stack[i].waits].rows
           /\ writes'[stack[i].waits].step # "ended"
  PROVE  WaitsInv'
BY DEF WaitsInv, ViewsInv, IsDetail

LEMMA SeenNext ==
  ASSUME ViewsInv,
         \A k \in DOMAIN cache : EntryStep(k, cache[k], cache'[k]),
         \A i \in DOMAIN stack' :
           IsDetail(i)' /\ (stack'[i].waits # 0 \/ stack'[i].applied) =>
             /\ i \in DOMAIN stack /\ stack'[i].screen = stack[i].screen
             /\ Keys(stack'[i]) = Keys(stack[i]) /\ (stack[i].waits # 0 \/ stack[i].applied)
  PROVE  SeenInv'
<1>1. ASSUME NEW i \in DOMAIN stack', IsDetail(i)', stack'[i].waits # 0 \/ stack'[i].applied,
             NEW k \in Keys(stack'[i])
      PROVE  cache'[k].has
  <2>1. IsDetail(i) /\ i \in DOMAIN stack /\ k \in Keys(stack[i])
    BY <1>1 DEF IsDetail
  <2>2. cache[k].has
    BY <1>1, <2>1 DEF ViewsInv, SeenInv
  <2>3. k \in DOMAIN cache
    BY <2>1 DEF ViewsInv, CacheInv
  <2> QED BY <2>2, <2>3 DEF EntryStep
<1> QED BY <1>1 DEF SeenInv, Keys

\* A detail whose action had been applied.
LEMMA ActionKept ==
  ASSUME ViewsAssumption, ViewsInv, open' \subseteq open,
         \A k \in DOMAIN cache : EntryStep(k, cache[k], cache'[k]),
         NEW i \in DOMAIN stack, IsDetail(i), stack[i].applied, NEW n,
         n = stack[i].waits \/ \A k : ~Due(stack[i].waits, k),
         \A w \in DOMAIN writes, k \in Mounted :
           Due(w, k) /\ cache[k].has => Due(w, k)' \/ Settling(cache'[k])
  PROVE  /\ Followed \notin open'
         /\ \A k \in Keys(stack[i]) :
              Settling(cache'[k]) \/ (n # 0 /\ Due(n, k)')
<1>1. Followed \notin open
  BY DEF ViewsInv, ActionInv
<1>2. ASSUME NEW k \in Keys(stack[i])
      PROVE  Settling(cache'[k]) \/ (n # 0 /\ Due(n, k)')
  <2>1. k \in DOMAIN cache /\ k \in Mounted
    BY <1>2, MountedKeys DEF ViewsInv, CacheInv
  <2>2. CASE Settling(cache[k])
    BY <1>1, <2>1, <2>2 DEF EntryStep
  <2>3. CASE stack[i].waits # 0 /\ Due(stack[i].waits, k)
    <3>1. stack[i].waits \in DOMAIN writes
      BY <2>3 DEF ViewsInv, ViewsTyped, StackInv
    <3>2. n = stack[i].waits
      BY <2>3
    <3>3. PICK w \in DOMAIN writes : w = n
      BY <3>1, <3>2
    <3>4. Due(w, k) /\ cache[k].has
      BY <1>2, <2>3, <3>2, <3>3 DEF ViewsInv, SeenInv
    <3>5. Due(w, k)' \/ Settling(cache'[k])
      BY <2>1, <3>4
    <3>6. Due(w, k)' => Due(n, k)'
      BY <3>3 DEF Due
    <3> QED BY <2>3, <3>2, <3>5, <3>6
  <2>4. Settling(cache[k]) \/ (stack[i].waits # 0 /\ Due(stack[i].waits, k))
    BY <1>2 DEF ViewsInv, ActionInv
  <2> QED BY <2>2, <2>3, <2>4
<1> QED BY <1>1, <1>2

LEMMA ActionFrames ==
  ASSUME \A i \in DOMAIN stack' : IsDetail(i)' /\ stack'[i].applied =>
           \A n : n = stack'[i].waits =>
             /\ Followed \notin open'
             /\ \A k \in Keys(stack'[i]) : Settling(cache'[k]) \/ (n # 0 /\ Due(n, k)')
  PROVE  ActionInv'
<1>1. ASSUME NEW i \in DOMAIN stack', IsDetail(i)', stack'[i].applied, NEW k \in Keys(stack'[i])
      PROVE  Settling(cache'[k]) \/ (stack'[i].waits # 0 /\ Due(stack[i].waits, k)')
  <2>1. PICK n : n = stack'[i].waits
    OBVIOUS
  <2>2. Settling(cache'[k]) \/ (n # 0 /\ Due(n, k)')
    BY <1>1, <2>1
  <2>3. Due(n, k)' => Due(stack[i].waits, k)'
    BY <2>1 DEF Due
  <2> QED BY <2>1, <2>2, <2>3
<1> QED BY <1>1 DEF ActionInv, Settling, Keys

LEMMA ActionNext ==
  ASSUME ViewsAssumption, ViewsInv, open' \subseteq open,
         \A k \in DOMAIN cache : EntryStep(k, cache[k], cache'[k]),
         \A i \in DOMAIN stack' : IsDetail(i)' /\ stack'[i].applied =>
           /\ i \in DOMAIN stack /\ stack'[i].screen = stack[i].screen /\ stack[i].applied
           /\ Keys(stack'[i]) = Keys(stack[i])
           /\ stack'[i].waits = stack[i].waits \/ \A k : ~Due(stack[i].waits, k),
         \A w \in DOMAIN writes, k \in Mounted :
           Due(w, k) /\ cache[k].has => Due(w, k)' \/ Settling(cache'[k])
  PROVE  ActionInv'
<1>1. ASSUME NEW i \in DOMAIN stack', IsDetail(i)', stack'[i].applied,
             NEW n, n = stack'[i].waits
      PROVE  /\ Followed \notin open'
             /\ \A k \in Keys(stack'[i]) : Settling(cache'[k]) \/ (n # 0 /\ Due(n, k)')
  <2>1. /\ i \in DOMAIN stack /\ IsDetail(i) /\ stack[i].applied
        /\ Keys(stack'[i]) = Keys(stack[i])
    BY <1>1 DEF IsDetail
  <2>2. n = stack[i].waits \/ \A k : ~Due(stack[i].waits, k)
    BY <1>1
  <2> QED BY <2>1, <2>2, ActionKept
<1> QED BY <1>1, ActionFrames

-----------------------------------------------------------------------------
(* Fetches.                                                                *)

LEMMA TypedWrite ==
  ASSUME ViewsTyped, NEW w \in DOMAIN writes
  PROVE  /\ w \in Nat /\ w \in 1 .. Len(writes) /\ Len(writes) \in Nat /\ w # 0
         /\ writes[w] \in Writes /\ writes[w].step \in HookSteps
<1>1. writes[w] \in Writes
  BY DEF ViewsTyped
<1>2. w \in 1 .. Len(writes) /\ Len(writes) \in Nat
  BY DEF ViewsTyped
<1>3. writes[w].step \in HookSteps
  BY <1>1 DEF Writes
<1> QED BY <1>1, <1>2, <1>3

\* Steps that leave the screens and the queue alone, but for what hooks await.
LEMMA FetchNext ==
  ASSUME ViewsAssumption, ViewsInv,
         UNCHANGED <<root, stack, open, batch, owner, sync, isOnline, gestures>>,
         faults' \in Nat, DOMAIN cache' = DOMAIN cache,
         \A k \in DOMAIN cache : EntryStep(k, cache[k], cache'[k]),
         writes' \in Seq(Writes), Len(writes') = Len(writes),
         \A w \in DOMAIN writes :
           /\ writes'[w].op = writes[w].op /\ writes'[w].rows = writes[w].rows
           /\ writes'[w].state = writes[w].state /\ writes'[w].left = writes[w].left
           /\ writes'[w].step = writes[w].step,
         AwaitsInv'
  PROVE  ViewsInv'
<1>1. DOMAIN writes' = DOMAIN writes
  BY DEF ViewsInv, ViewsTyped
<1>2. CacheInv' /\ DOMAIN cache' \subseteq AllKeys
  BY CacheNext DEF ViewsInv, CacheInv
<1>3. ViewsTyped' /\ StackInv'
  BY <1>2 DEF ViewsInv, ViewsTyped, StackInv
<1>4. QueueInv'
  BY <1>1 DEF ViewsInv, QueueInv, PendingMutations
<1>5. \A w \in DOMAIN writes : \A k : Due(w, k)' <=> Due(w, k)
  BY <1>1 DEF Due
<1>6. \A k : Covered(k)' <=> Covered(k)
  BY <1>1, <1>5 DEF Covered
<1>7. Mounted' = Mounted
  BY DEF Mounted, Keys
<1>8. ShownInv'
  BY <1>6, <1>7, ShownNext
<1>9. PageInv' /\ SeenInv'
  BY PageNext, SeenNext DEF IsDetail
<1>10. WaitsInv'
  <2>1. \A i \in DOMAIN stack : stack[i].waits # 0 => stack[i].waits \in DOMAIN writes
    BY DEF ViewsInv, StackInv, ViewsTyped
  <2> QED BY <2>1, WaitsNext, ZenonT(40) DEF ViewsInv, WaitsInv, IsDetail
<1>11. ActionInv'
  BY <1>5, ActionNext DEF IsDetail
<1> QED BY <1>2, <1>3, <1>4, <1>8, <1>9, <1>10, <1>11 DEF ViewsInv

LEMMA DisconnectMoves ==
  ASSUME ViewsAssumption, ViewsInv, Disconnect
  PROVE  ViewsInv'
<1>1. UNCHANGED <<root, stack, cache, open, writes, batch, owner, sync, gestures>>
  BY DEF Disconnect, queue
<1>2. isOnline' \in BOOLEAN
  BY DEF Disconnect
<1>3. faults' \in Nat
  BY DEF Disconnect, ViewsInv, ViewsTyped
<1>4. ViewsTyped'
  BY <1>1, <1>2, <1>3 DEF ViewsInv, ViewsTyped
<1>5. StackInv' /\ CacheInv' /\ QueueInv' /\ AwaitsInv'
  BY <1>1 DEF ViewsInv, StackInv, CacheInv, QueueInv, AwaitsInv, PendingMutations, Keys, Sound
<1>6. PageInv' /\ WaitsInv' /\ SeenInv'
  BY <1>1 DEF ViewsInv, PageInv, WaitsInv, SeenInv, IsDetail, Keys
<1>7. ShownInv'
  BY <1>1 DEF ViewsInv, ShownInv, Covered, Due, Mounted, Keys, WillMiss, Misses
<1>8. ActionInv'
  BY <1>1 DEF ViewsInv, ActionInv, Due, Settling, IsDetail, Keys
<1> QED BY <1>4, <1>5, <1>6, <1>7, <1>8 DEF ViewsInv

\* What is read keeps no row that is settled, and every row when no filter hides one.
LEMMA WhatIsRead ==
  ASSUME ViewsAssumption, ViewsInv, NEW k \in DOMAIN cache
  PROVE  /\ Reads(k) \in Data /\ ~Reads(k).misses /\ Reads(k).active \subseteq open
         /\ k.filter = "all" => Reads(k).total = Cardinality(Items)
<1> DEFINE kept == Matching(k.filter)
<1>1. k.filter \in Statuses
  BY DEF ViewsInv, ViewsTyped, AllKeys
<1>2. kept \subseteq Items /\ (k.filter = "all" => kept = Items)
  BY <1>1 DEF Matching, Statuses, ViewsInv, ViewsTyped
<1>3. IsFiniteSet(Items)
  BY SameSets DEF ViewsAssumption
<1>4. Cardinality(kept) \in 0 .. Cardinality(Items)
  BY <1>2, <1>3, FS_Subset, FS_CardinalityType, NothingIsData
<1>5. Reads(k) = [Nothing EXCEPT !.total = Cardinality(kept), !.active = kept \cap open]
  <2>1. Cardinality(kept) = Cardinality(kept)
    BY SameSets
  <2> QED BY <2>1 DEF Reads
<1> HIDE DEF kept
<1> QED BY <1>2, <1>4, <1>5 DEF Nothing, Data

LEMMA AnswerMoves ==
  ASSUME ViewsAssumption, ViewsInv, NEW k \in DOMAIN cache, Answer(k)
  PROVE  ViewsInv'
<1>1. /\ UNCHANGED <<root, stack, open, writes, batch, owner, sync, isOnline, faults, gestures>>
      /\ cache[k].fetch = "asked"
      /\ cache' = [cache EXCEPT ![k].fetch = "read", ![k].read = Reads(k)]
  BY DEF Answer, queue, world
<1>2. /\ Reads(k) \in Data /\ ~Reads(k).misses /\ Reads(k).active \subseteq open
      /\ k.filter = "all" => Reads(k).total = Cardinality(Items)
  BY WhatIsRead
<1>3. Sound(k, cache[k]) /\ cache[k] \in Entries
  BY DEF ViewsInv, CacheInv, Sound
<1>4. /\ DOMAIN cache' = DOMAIN cache /\ \A p \in DOMAIN cache \ {k} : cache'[p] = cache[p]
      /\ cache'[k] = [cache[k] EXCEPT !.fetch = "read", !.read = Reads(k)]
  BY <1>1
<1>5. /\ cache'[k] \in Entries /\ cache'[k].has = cache[k].has
      /\ cache'[k].data = cache[k].data /\ cache'[k].failed = cache[k].failed
      /\ cache'[k].fetch = "read" /\ cache'[k].read = Reads(k)
  BY <1>2, <1>3, <1>4 DEF Entries
<1>6. EntryStep(k, cache[k], cache'[k])
  BY <1>2, <1>3, <1>5 DEF EntryStep, Sound, WillMiss, Misses, Settling
<1>7. \A p \in DOMAIN cache : EntryStep(p, cache[p], cache'[p])
  BY <1>4, <1>6, KeptEntry DEF ViewsInv, CacheInv
<1>8. AwaitsInv'
  BY <1>1, <1>4, <1>5 DEF ViewsInv, AwaitsInv
<1>9. writes' \in Seq(Writes) /\ faults' \in Nat
  BY <1>1 DEF ViewsInv, ViewsTyped
<1> QED BY <1>1, <1>4, <1>7, <1>8, <1>9, FetchNext

\* A fetch is over.
LEMMA SettlesMoves ==
  ASSUME ViewsAssumption, ViewsInv, NEW k \in DOMAIN cache, NEW d, Settles(k, d),
         EntryStep(k, cache[k], d), faults' \in Nat
  PROVE  ViewsInv'
<1> DEFINE told(w) == [writes[w] EXCEPT !.awaits = writes[w].awaits \ {k}]
<1>1. /\ UNCHANGED <<root, stack, open, batch, owner, sync, isOnline, gestures>>
      /\ cache' = [cache EXCEPT ![k] = d]
      /\ writes' = [w \in DOMAIN writes |-> told(w)]
  BY DEF Settles
<1>2. \A p \in DOMAIN cache : EntryStep(p, cache[p], cache'[p]) /\ (p # k => cache'[p] = cache[p])
  BY <1>1, KeptEntry DEF ViewsInv, CacheInv
<1>3. ASSUME NEW w \in DOMAIN writes
      PROVE  /\ told(w) \in Writes /\ told(w).op = writes[w].op /\ told(w).rows = writes[w].rows
             /\ told(w).state = writes[w].state /\ told(w).left = writes[w].left
             /\ told(w).step = writes[w].step /\ told(w).awaits = writes[w].awaits \ {k}
  <2>1. writes[w] \in Writes
    BY TypedWrite DEF ViewsInv
  <2> QED BY <2>1 DEF Writes
<1> HIDE DEF told
<1>4. writes \in Seq(Writes) /\ DOMAIN writes = 1 .. Len(writes) /\ Len(writes) \in Nat
  BY DEF ViewsInv, ViewsTyped
<1>5. writes' \in [1 .. Len(writes) -> Writes]
  BY <1>1, <1>3, <1>4
<1>6. writes' \in Seq(Writes) /\ Len(writes') = Len(writes)
  BY <1>4, <1>5
<1>7. AwaitsInv'
  <2>1. ASSUME NEW w \in DOMAIN writes', NEW p \in writes'[w].awaits
        PROVE  p \in DOMAIN cache' /\ cache'[p].fetch # "none"
    <3>1. w \in DOMAIN writes /\ p \in writes[w].awaits /\ p # k
      BY <1>1, <1>3, <2>1
    <3>2. p \in DOMAIN cache /\ cache[p].fetch # "none"
      BY <3>1 DEF ViewsInv, AwaitsInv
    <3> QED BY <1>1, <1>2, <3>1, <3>2
  <2> QED BY <2>1 DEF AwaitsInv
<1>8. DOMAIN cache' = DOMAIN cache
  BY <1>1
<1> QED BY <1>1, <1>2, <1>3, <1>6, <1>7, <1>8, FetchNext

LEMMA ReceiveMoves ==
  ASSUME ViewsAssumption, ViewsInv, NEW k \in DOMAIN cache, Receive(k)
  PROVE  ViewsInv'
<1> DEFINE d == [NoData EXCEPT !.has = TRUE, !.data = cache[k].read]
<1>1. cache[k].fetch = "read" /\ Settles(k, d) /\ faults' = faults
  BY DEF Receive
<1>2. Sound(k, cache[k]) /\ cache[k] \in Entries /\ cache[k].read \in Data
  BY DEF ViewsInv, CacheInv, Sound, Entries
<1>3. NoData \in Entries /\ NoData.failed = FALSE /\ NoData.fetch = "none" /\ NoData.read = Nothing
  BY NoDataIsSound DEF Sound
<1>4. /\ d \in Entries /\ d.has /\ d.data = cache[k].read /\ ~d.failed
      /\ d.fetch = "none" /\ d.read = Nothing
  BY <1>2, <1>3 DEF Entries
<1> HIDE DEF d
<1>5. EntryStep(k, cache[k], d)
  BY <1>1, <1>2, <1>4, NothingIsData DEF EntryStep, Sound, WillMiss, Misses, Settling
<1>6. faults' \in Nat
  BY <1>1 DEF ViewsInv, ViewsTyped
<1> QED BY <1>1, <1>5, <1>6, SettlesMoves

LEMMA FailMoves ==
  ASSUME ViewsAssumption, ViewsInv, NEW k \in DOMAIN cache, FailToFetch(k)
  PROVE  ViewsInv'
<1> DEFINE d == [cache[k] EXCEPT !.fetch = "none", !.failed = TRUE, !.read = Nothing]
<1>1. Settles(k, d) /\ faults' = faults + 1
  BY DEF FailToFetch, None
<1>2. Sound(k, cache[k]) /\ cache[k] \in Entries
  BY DEF ViewsInv, CacheInv, Sound
<1>3. /\ d \in Entries /\ d.has = cache[k].has /\ d.data = cache[k].data /\ d.failed
      /\ d.fetch = "none" /\ d.read = Nothing
  BY <1>2, NothingIsData DEF Entries
<1> HIDE DEF d
<1>4. EntryStep(k, cache[k], d)
  BY <1>2, <1>3, NothingIsData DEF EntryStep, Sound, WillMiss, Misses, Settling
<1>5. faults' \in Nat
  BY <1>1 DEF ViewsInv, ViewsTyped
<1> QED BY <1>1, <1>4, <1>5, SettlesMoves

-----------------------------------------------------------------------------
(* Gestures on the screens.                                                *)

LEMMA GestureMoves ==
  ASSUME ViewsInv, Gesture
  PROVE  UNCHANGED <<root, sync, isOnline, faults>> /\ gestures' \in Nat
BY DEF Gesture, ViewsInv, ViewsTyped

LEMMA LocalFrame ==
  ASSUME ViewsAssumption, ViewsInv, NEW e \in Frames, Local(e)
  PROVE  /\ stack' \in Seq(Frames) /\ Len(stack') = Len(stack) /\ DOMAIN stack' = DOMAIN stack
         /\ stack'[Len(stack)] = e
         /\ \A i \in DOMAIN stack : i # Len(stack) => stack'[i] = stack[i]
<1>1. stack \in Seq(Frames) /\ Len(stack) \in DOMAIN stack
  BY TopFrame DEF ViewsInv, ViewsTyped
<1> QED BY <1>1 DEF Local

LEMMA TopIsFiltered ==
  ASSUME ViewsAssumption, ViewsInv
  PROVE  Top.filter \in Screen[Top.screen].filters
BY TopFrame DEF ViewsInv, StackInv

\* The frame of the screen shown changes, on the same screen.
LEMMA StackNext ==
  ASSUME ViewsAssumption, ViewsInv, NEW e \in Frames, Local(e), root' = root,
         e.screen = Top.screen, e.filter \in Screen[e.screen].filters,
         Len(writes') \in Nat, Len(writes) <= Len(writes'), e.waits \in 0 .. Len(writes')
  PROVE  StackInv' /\ Mounted' \subseteq Mounted \cup Keys(e)
<1>1. /\ stack' \in Seq(Frames) /\ Len(stack') = Len(stack) /\ DOMAIN stack' = DOMAIN stack
      /\ stack'[Len(stack)] = e
      /\ \A i \in DOMAIN stack : i # Len(stack) => stack'[i] = stack[i]
  BY LocalFrame
<1>2. /\ Len(stack) \in DOMAIN stack /\ Top = stack[Len(stack)] /\ DOMAIN stack = 1 .. Len(stack)
      /\ Len(stack) \in Nat \ {0}
  BY TopFrame DEF ViewsInv
<1>3. \A i \in DOMAIN stack : stack'[i].screen = stack[i].screen
  BY <1>1, <1>2
<1>4. Mounted' \subseteq Mounted \cup Keys(e)
  <2>1. ASSUME NEW k \in Mounted'
        PROVE  k \in Mounted \cup Keys(e)
    <3>1. PICK i \in DOMAIN stack' : k \in Keys(stack'[i])
      BY NextMounted
    <3>2. CASE i = Len(stack)
      BY <1>1, <3>1, <3>2
    <3>3. CASE i # Len(stack)
      BY <1>1, <3>1, <3>3, MountedKeys
    <3> QED BY <3>2, <3>3
  <2> QED BY <2>1
<1>5. ASSUME NEW i \in DOMAIN stack
      PROVE  /\ stack'[i].screen \in {"Home"} \cup Part[root']
             /\ stack'[i].waits \in 0 .. Len(writes')
             /\ stack'[i].filter \in Screen[stack'[i].screen].filters
             /\ i > 1 => stack'[i].screen \in Screen[stack'[i - 1].screen].opens
  <2>1. /\ stack[i].screen \in {"Home"} \cup Part[root]
        /\ stack[i].waits \in 0 .. Len(writes)
        /\ stack[i].filter \in Screen[stack[i].screen].filters
        /\ i > 1 => stack[i].screen \in Screen[stack[i - 1].screen].opens
    BY DEF ViewsInv, StackInv
  <2>2. Len(writes) \in Nat
    BY DEF ViewsInv, ViewsTyped
  <2>3. stack'[i].waits \in 0 .. Len(writes')
    BY <1>1, <2>1, <2>2
  <2>4. stack'[i].filter \in Screen[stack'[i].screen].filters
    BY <1>1, <2>1
  <2>5. i > 1 => i - 1 \in DOMAIN stack
    BY <1>2
  <2> QED BY <1>3, <2>1, <2>3, <2>4, <2>5
<1>6. stack' # <<>> /\ stack'[1].screen = "Home"
  <2>1. 1 \in DOMAIN stack /\ stack[1].screen = "Home"
    BY <1>2 DEF ViewsInv, StackInv
  <2> QED BY <1>1, <1>2, <1>3, <2>1
<1> QED BY <1>1, <1>4, <1>5, <1>6 DEF StackInv

\* What a frame shows is in the cache.
LEMMA FramesAreCached ==
  ASSUME ViewsAssumption, ViewsInv, NEW e \in Frames, Local(e),
         DOMAIN cache \subseteq DOMAIN cache',
         Keys(e) \cup e.last \subseteq DOMAIN cache'
  PROVE  \A i \in DOMAIN stack' : Keys(stack'[i]) \cup stack'[i].last \subseteq DOMAIN cache'
BY LocalFrame DEF ViewsInv, CacheInv

LEMMA AskingMoves ==
  ASSUME ViewsAssumption, ViewsInv, Gesture, NEW S \in SUBSET Items,
         Local([Top EXCEPT !.asking = S]), UNCHANGED <<cache, open, writes, batch, owner>>
  PROVE  ViewsInv'
<1> DEFINE e == [Top EXCEPT !.asking = S]
<1>1. Top \in Frames /\ Top = stack[Len(stack)] /\ Len(stack) \in DOMAIN stack
  BY TopFrame DEF ViewsInv
<1>2. /\ e \in Frames /\ e.screen = Top.screen /\ e.page = Top.page /\ e.last = Top.last
      /\ e.filter = Top.filter /\ e.waits = Top.waits /\ e.applied = Top.applied
  BY <1>1 DEF Frames
<1>3. Local(e)
  OBVIOUS
<1> HIDE DEF e
<1>4. /\ stack' \in Seq(Frames) /\ Len(stack') = Len(stack) /\ DOMAIN stack' = DOMAIN stack
      /\ stack'[Len(stack)] = e
      /\ \A i \in DOMAIN stack : i # Len(stack) => stack'[i] = stack[i]
  BY <1>2, <1>3, LocalFrame
<1>5. UNCHANGED <<root, sync, isOnline, faults>> /\ gestures' \in Nat
  BY GestureMoves
<1>6. StackInv'
  <2>1. e.filter \in Screen[e.screen].filters /\ e.waits \in 0 .. Len(writes)
    BY <1>1, <1>2 DEF ViewsInv, StackInv
  <2>2. Len(writes) \in Nat /\ Len(writes') = Len(writes)
    BY DEF ViewsInv, ViewsTyped
  <2> QED BY <1>2, <1>3, <1>5, <2>1, <2>2, StackNext
<1>7. \A i \in DOMAIN stack :
        /\ stack'[i].screen = stack[i].screen /\ stack'[i].page = stack[i].page
        /\ stack'[i].filter = stack[i].filter /\ stack'[i].last = stack[i].last
        /\ stack'[i].waits = stack[i].waits /\ stack'[i].applied = stack[i].applied
  BY <1>1, <1>2, <1>4
<1>8. \A i \in DOMAIN stack : Keys(stack'[i]) = Keys(stack[i])
  BY <1>7, SameKeys
<1>9. Mounted' = Mounted
  BY <1>4, <1>8, MountedKeys, NextMounted
<1>10. \A k \in DOMAIN cache : EntryStep(k, cache[k], cache'[k])
  BY KeptEntry DEF ViewsInv, CacheInv
<1>11. CacheInv'
  <2>1. \A i \in DOMAIN stack' : Keys(stack'[i]) \cup stack'[i].last \subseteq DOMAIN cache'
    BY <1>4, <1>7, <1>8 DEF ViewsInv, CacheInv
  <2> QED BY <1>5, <1>10, <2>1, CacheNext
<1>12. ViewsTyped'
  BY <1>4, <1>5 DEF ViewsInv, ViewsTyped
<1>13. QueueInv' /\ AwaitsInv'
  BY <1>5 DEF ViewsInv, QueueInv, AwaitsInv, PendingMutations
<1>14. \A w, k : Due(w, k)' <=> Due(w, k)
  BY DEF Due
<1>15. \A k : Covered(k)' <=> Covered(k)
  BY <1>5, <1>14 DEF Covered
<1>16. ShownInv'
  BY <1>9, <1>10, <1>15, ShownNext
<1>17. PageInv' /\ SeenInv'
  BY <1>4, <1>7, <1>8, <1>10, PageNext, SeenNext DEF IsDetail
<1>18. WaitsInv'
  BY <1>4, <1>7, ZenonT(40) DEF ViewsInv, WaitsInv, IsDetail
<1>19. ActionInv'
  BY <1>4, <1>7, <1>8, <1>10, <1>14, ActionNext DEF IsDetail
<1> QED BY <1>6, <1>11, <1>12, <1>13, <1>16, <1>17, <1>18, <1>19 DEF ViewsInv

LEMMA AskMoves ==
  ASSUME ViewsAssumption, ViewsInv, NEW i \in Items, Ask(i)
  PROVE  ViewsInv'
<1>1. /\ Gesture /\ Local([Top EXCEPT !.asking = {i}])
      /\ UNCHANGED <<cache, open, writes, batch, owner>>
  BY DEF Ask, queue
<1> QED BY <1>1, AskingMoves

LEMMA RenounceMoves ==
  ASSUME ViewsAssumption, ViewsInv, Renounce
  PROVE  ViewsInv'
<1>1. /\ Gesture /\ Local([Top EXCEPT !.asking = {}])
      /\ UNCHANGED <<cache, open, writes, batch, owner>>
  BY DEF Renounce, queue
<1> QED BY <1>1, AskingMoves

\* A screen is left.
LEMMA PopStack ==
  ASSUME ViewsAssumption, ViewsInv, Len(stack) > 1, UNCHANGED <<root, cache, sync>>,
         stack' = SubSeq(stack, 1, Len(stack) - 1), Len(writes') = Len(writes),
         \A w \in DOMAIN writes : \A k : Due(w, k) => Due(w, k)',
         DOMAIN writes' = DOMAIN writes
  PROVE  /\ stack' \in Seq(Frames) /\ StackInv' /\ CacheInv' /\ PageInv' /\ SeenInv' /\ ShownInv'
         /\ \A i \in DOMAIN stack' : i \in DOMAIN stack /\ stack'[i] = stack[i]
         /\ \A k \in DOMAIN cache : EntryStep(k, cache[k], cache'[k])
<1>1. /\ stack \in Seq(Frames) /\ Len(stack) \in Nat \ {0} /\ DOMAIN stack = 1 .. Len(stack)
      /\ Top = stack[Len(stack)] /\ Len(stack) \in DOMAIN stack
  BY TopFrame DEF ViewsInv, ViewsTyped
<1>2. /\ stack' \in Seq(Frames) /\ Len(stack') = Len(stack) - 1
      /\ DOMAIN stack' = 1 .. Len(stack) - 1
      /\ \A i \in DOMAIN stack' : i \in DOMAIN stack /\ stack'[i] = stack[i]
  <2>1. 1 \in Nat /\ Len(stack) - 1 \in Nat /\ Len(stack) - 1 <= Len(stack)
    BY <1>1
  <2>2. /\ stack' \in Seq(Frames) /\ Len(stack') = Len(stack) - 1
        /\ \A i \in 1 .. Len(stack) - 1 : stack'[i] = stack[i]
    BY <1>1, <2>1
  <2> QED BY <1>1, <2>1, <2>2
<1>3. Mounted' \subseteq Mounted
  BY <1>2, MountedKeys, NextMounted
<1>4. \A k \in DOMAIN cache : EntryStep(k, cache[k], cache'[k])
  BY KeptEntry DEF ViewsInv, CacheInv
<1>5. CacheInv'
  <2>1. \A i \in DOMAIN stack' : Keys(stack'[i]) \cup stack'[i].last \subseteq DOMAIN cache'
    BY <1>2 DEF ViewsInv, CacheInv
  <2> QED BY <1>4, <2>1, CacheNext
<1>6. PageInv' /\ SeenInv'
  BY <1>2, <1>4, PageNext, SeenNext DEF IsDetail
<1>7. \A k : Covered(k) => Covered(k)'
  BY DEF Covered
<1>8. ShownInv'
  BY <1>3, <1>4, <1>7, ShownNext
<1>9. StackInv'
  <2>1. stack' # <<>> /\ stack'[1].screen = "Home"
    <3>1. 1 \in DOMAIN stack'
      BY <1>1, <1>2
    <3>2. stack[1].screen = "Home"
      BY DEF ViewsInv, StackInv
    <3>3. stack'[1].screen = "Home"
      BY <1>2, <3>1, <3>2
    <3>4. stack' # <<>>
      <4>1. Len(stack') # 0
        BY <1>1, <1>2
      <4> QED BY <4>1
    <3> QED BY <3>3, <3>4
  <2>2. \A i \in DOMAIN stack' : i > 1 => i - 1 \in DOMAIN stack'
    BY <1>1, <1>2
  <2> QED BY <1>2, <2>1, <2>2 DEF ViewsInv, StackInv
<1> QED BY <1>2, <1>4, <1>5, <1>6, <1>8, <1>9

LEMMA BackMoves ==
  ASSUME ViewsAssumption, ViewsInv, Back
  PROVE  ViewsInv'
<1>1. /\ UNCHANGED <<cache, open, writes, batch, owner>> /\ Len(stack) > 1
      /\ stack' = SubSeq(stack, 1, Len(stack) - 1)
  BY DEF Back, queue
<1>2. UNCHANGED <<root, sync, isOnline, faults>> /\ gestures' \in Nat
  BY GestureMoves DEF Back
<1>3. \A w, k : Due(w, k)' <=> Due(w, k)
  BY <1>1 DEF Due
<1>4. /\ stack' \in Seq(Frames) /\ StackInv' /\ CacheInv' /\ PageInv' /\ SeenInv' /\ ShownInv'
      /\ \A i \in DOMAIN stack' : i \in DOMAIN stack /\ stack'[i] = stack[i]
      /\ \A k \in DOMAIN cache : EntryStep(k, cache[k], cache'[k])
  BY <1>1, <1>2, <1>3, PopStack
<1>5. ViewsTyped'
  BY <1>1, <1>2, <1>4 DEF ViewsInv, ViewsTyped
<1>6. QueueInv' /\ AwaitsInv'
  BY <1>1, <1>2 DEF ViewsInv, QueueInv, AwaitsInv, PendingMutations
<1>7. WaitsInv'
  BY <1>1, <1>4 DEF ViewsInv, WaitsInv, IsDetail
<1>8. ActionInv'
  BY <1>1, <1>3, <1>4, ActionNext DEF IsDetail
<1> QED BY <1>4, <1>5, <1>6, <1>7, <1>8 DEF ViewsInv

LEMMA RootIsPart ==
  ASSUME NEW r \in HomeScreen
  PROVE  r \in Part[r]
BY DEF HomeScreen, Part

\* Steps in which a screen comes to observe keys.
LEMMA ObservedNext ==
  ASSUME ViewsAssumption, ViewsInv, Gesture, UNCHANGED <<open, writes, batch, owner>>,
         NEW e \in Frames, e.screen \in Part[root],
         cache' = Observed(Keys(e)),
         Mounted' \subseteq Mounted \cup Keys(e),
         \A i \in DOMAIN stack' :
           Keys(stack'[i]) \cup stack'[i].last \subseteq DOMAIN cache \cup Keys(e)
  PROVE  /\ CacheInv' /\ DOMAIN cache' \subseteq AllKeys /\ ShownInv' /\ QueueInv' /\ AwaitsInv'
         /\ \A k \in DOMAIN cache : EntryStep(k, cache[k], cache'[k])
         /\ \A w, k : Due(w, k)' <=> Due(w, k)
<1>1. UNCHANGED <<root, sync, isOnline, faults>>
  BY GestureMoves
<1>2. root \in HomeScreen
  BY DEF ViewsInv, ViewsTyped, ViewsAssumption
<1>3. \A k \in Keys(e) : k \in AllKeys /\ k.query \in ShownBy[root]
  <2>1. Screen[e.screen].shows \subseteq ShownBy[root]
    BY <1>2, Parts DEF Shape
  <2> QED BY <1>2, <2>1, TypedKeys
<1> DEFINE ks == Keys(e)
<1>4. ks \in SUBSET AllKeys
  BY <1>3
<1>5. cache' = Observed(ks)
  OBVIOUS
<1> HIDE DEF ks
<1>6. /\ DOMAIN cache' = DOMAIN cache \cup ks
      /\ \A k \in DOMAIN cache :
           /\ EntryStep(k, cache[k], cache'[k])
           /\ cache[k].fetch # "none" => cache'[k].fetch # "none"
      /\ \A k \in ks \ DOMAIN cache : Sound(k, cache'[k]) /\ ~WillMiss(cache'[k])
      /\ \A k \in ks : ~Misses(cache'[k])
  BY <1>4, <1>5, ObservedEntries
<1>7. CacheInv' /\ DOMAIN cache' \subseteq AllKeys
  BY <1>1, <1>3, <1>6, CacheNext DEF ks
<1>8. \A w, k : Due(w, k)' <=> Due(w, k)
  BY DEF Due
<1>9. \A k : Covered(k)' <=> Covered(k)
  BY <1>1, <1>8 DEF Covered
<1>10. ShownInv'
  <2>1. \A k \in DOMAIN cache' \ DOMAIN cache : ~WillMiss(cache'[k])
    BY <1>6
  <2>2. \A k \in Mounted' \ Mounted : ~Misses(cache'[k])
    BY <1>6 DEF ks
  <2> QED BY <1>6, <1>9, <2>1, <2>2, ShownNext
<1>11. QueueInv' /\ AwaitsInv'
  BY <1>1, <1>6 DEF ViewsInv, QueueInv, AwaitsInv, PendingMutations
<1> QED BY <1>6, <1>7, <1>8, <1>10, <1>11

LEMMA NavigateMoves ==
  ASSUME ViewsAssumption, ViewsInv, NEW s, Navigate(s)
  PROVE  ViewsInv'
<1> DEFINE e == Mount(s)
<1>1. /\ UNCHANGED <<open, writes, batch, owner>> /\ Gesture
      /\ s \in Screen[Top.screen].opens /\ (On("menu") => s = root)
      /\ stack' = Append(stack, e) /\ cache' = Observed(Keys(e))
  BY DEF Navigate, queue
<1>2. UNCHANGED <<root, sync, isOnline, faults>> /\ gestures' \in Nat
  BY <1>1, GestureMoves
<1>3. /\ Top = stack[Len(stack)] /\ Len(stack) \in DOMAIN stack /\ stack \in Seq(Frames)
      /\ Len(stack) \in Nat \ {0}
  BY TopFrame DEF ViewsInv, ViewsTyped
<1>4. root \in HomeScreen /\ root \in Roots
  BY DEF ViewsInv, ViewsTyped, ViewsAssumption
<1>5. s \in Part[root]
  <2>1. CASE Top.screen = "Home"
    BY <1>1, <1>4, <2>1, HomeIsAMenu, RootIsPart DEF On
  <2>2. CASE Top.screen # "Home"
    <3>1. Top.screen \in Part[root]
      BY <1>3, <2>2 DEF ViewsInv, StackInv
    <3> QED BY <1>1, <1>4, <3>1, Parts DEF Shape
  <2> QED BY <2>1, <2>2
<1>6. s \in DOMAIN Screen /\ Screen[s].first \in Screen[s].filters \cap Statuses
  BY <1>4, <1>5, Parts DEF Shape
<1>7. /\ e \in Frames /\ e.screen = s /\ e.page = 1 /\ e.last = {}
      /\ e.filter = Screen[s].first /\ e.waits = 0 /\ ~e.applied
  BY <1>6 DEF Mount, Frames
<1> HIDE DEF e
<1>8. /\ stack' \in Seq(Frames) /\ DOMAIN stack = 1 .. Len(stack)
      /\ DOMAIN stack' = 1 .. Len(stack) + 1
      /\ stack'[Len(stack) + 1] = e
      /\ \A i \in DOMAIN stack : i \in DOMAIN stack' /\ stack'[i] = stack[i]
  BY <1>1, <1>3, <1>7
<1>9. \A i \in DOMAIN stack' : i \in DOMAIN stack \/ i = Len(stack) + 1
  BY <1>3, <1>8
<1>10. Mounted' \subseteq Mounted \cup Keys(e)
  <2>1. ASSUME NEW k \in Mounted'
        PROVE  k \in Mounted \cup Keys(e)
    <3>1. PICK i \in DOMAIN stack' : k \in Keys(stack'[i])
      BY NextMounted
    <3> QED BY <1>8, <1>9, <3>1, MountedKeys
  <2> QED BY <2>1
<1>11. \A i \in DOMAIN stack' :
         Keys(stack'[i]) \cup stack'[i].last \subseteq DOMAIN cache \cup Keys(e)
  BY <1>7, <1>8, <1>9 DEF ViewsInv, CacheInv
<1>12. /\ CacheInv' /\ DOMAIN cache' \subseteq AllKeys /\ ShownInv' /\ QueueInv' /\ AwaitsInv'
       /\ \A k \in DOMAIN cache : EntryStep(k, cache[k], cache'[k])
       /\ \A w, k : Due(w, k)' <=> Due(w, k)
  BY <1>1, <1>5, <1>7, <1>10, <1>11, ObservedNext
<1>13. ViewsTyped'
  BY <1>1, <1>2, <1>8, <1>12 DEF ViewsInv, ViewsTyped
<1>14. StackInv'
  <2>1. stack' # <<>> /\ stack'[1].screen = "Home"
    BY <1>3, <1>8 DEF ViewsInv, StackInv
  <2>2. ASSUME NEW i \in DOMAIN stack
        PROVE  /\ stack'[i].screen \in {"Home"} \cup Part[root]
               /\ stack'[i].waits \in 0 .. Len(writes)
               /\ stack'[i].filter \in Screen[stack'[i].screen].filters
               /\ i > 1 => stack'[i].screen \in Screen[stack'[i - 1].screen].opens
    <3>1. i > 1 => i - 1 \in DOMAIN stack
      BY <1>3, <1>8
    <3> QED BY <1>8, <3>1, SMTT(30) DEF ViewsInv, StackInv
  <2>3. LET i == Len(stack) + 1 IN
          /\ stack'[i].screen \in {"Home"} \cup Part[root]
          /\ stack'[i].waits \in 0 .. Len(writes)
          /\ stack'[i].filter \in Screen[stack'[i].screen].filters
          /\ stack'[i].screen \in Screen[stack'[i - 1].screen].opens
    <3>1. (Len(stack) + 1) - 1 = Len(stack) /\ stack'[Len(stack)] = Top
      BY <1>3, <1>8
    <3>2. 0 \in 0 .. Len(writes)
      BY DEF ViewsInv, ViewsTyped
    <3> QED BY <1>1, <1>5, <1>6, <1>7, <1>8, <3>1, <3>2
  <2> QED BY <1>1, <1>2, <1>9, <2>1, <2>2, <2>3 DEF StackInv
<1>15. PageInv'
  BY <1>7, <1>8, <1>9, PageNext
<1>16. SeenInv'
  BY <1>7, <1>8, <1>9, <1>12, SeenNext DEF IsDetail
<1>17. WaitsInv'
  BY <1>1, <1>7, <1>8, <1>9 DEF ViewsInv, WaitsInv, IsDetail
<1>18. ActionInv'
  BY <1>1, <1>7, <1>8, <1>9, <1>12, ActionNext DEF IsDetail
<1> QED BY <1>12, <1>13, <1>14, <1>15, <1>16, <1>17, <1>18 DEF ViewsInv

\* A list is shown on another page or with another filter.
LEMMA RekeyMoves ==
  ASSUME ViewsAssumption, ViewsInv, NEW f \in Screen[Top.screen].filters,
         NEW page \in Nat \ {0}, page <= Cardinality(Items), On("list"), Rekey(f, page)
  PROVE  ViewsInv'
<1> DEFINE last == IF cache[Listed(Top)].has THEN {Listed(Top)} ELSE Top.last
           e == [Top EXCEPT !.filter = f, !.page = page, !.last = last]
<1>1. /\ UNCHANGED <<open, writes, batch, owner>> /\ Local(e) /\ Gesture
      /\ cache' = Observed(Keys(e))
  BY DEF Rekey, queue
<1>2. UNCHANGED <<root, sync, isOnline, faults>> /\ gestures' \in Nat
  BY <1>1, GestureMoves
<1>3. /\ Top = stack[Len(stack)] /\ Len(stack) \in DOMAIN stack /\ Top \in Frames
  BY TopFrame DEF ViewsInv
<1>4. f \in Statuses /\ Top.screen \in Part[root]
  <2>1. Top.screen \in {"Home"} \cup Part[root] /\ Top.screen # "Home"
    BY <1>3, HomeIsAMenu DEF ViewsInv, StackInv, On
  <2> QED BY <1>3, <2>1, Frame DEF ViewsInv
<1>5. last \subseteq DOMAIN cache
  BY <1>3, OneKey DEF On, ViewsInv, CacheInv
<1> HIDE DEF last
<1>6. /\ e \in Frames /\ e.screen = Top.screen /\ e.waits = Top.waits /\ e.page = page
      /\ e.filter = f /\ e.last = last
  <2>1. last \in SUBSET AllKeys
    BY <1>5 DEF ViewsInv, ViewsTyped
  <2> QED BY <1>3, <1>4, <2>1 DEF Frames
<1> HIDE DEF e
<1>7. /\ stack' \in Seq(Frames) /\ Len(stack') = Len(stack) /\ DOMAIN stack' = DOMAIN stack
      /\ stack'[Len(stack)] = e
      /\ \A i \in DOMAIN stack : i # Len(stack) => stack'[i] = stack[i]
  BY <1>1, <1>6, LocalFrame
<1>8. StackInv' /\ Mounted' \subseteq Mounted \cup Keys(e)
  <2>1. e.waits \in 0 .. Len(writes)
    BY <1>3, <1>6 DEF ViewsInv, StackInv
  <2>2. Len(writes) \in Nat /\ Len(writes') = Len(writes)
    BY <1>1 DEF ViewsInv, ViewsTyped
  <2> QED BY <1>1, <1>2, <1>6, <2>1, <2>2, StackNext
<1>9. \A i \in DOMAIN stack' :
        Keys(stack'[i]) \cup stack'[i].last \subseteq DOMAIN cache \cup Keys(e)
  BY <1>5, <1>6, <1>7 DEF ViewsInv, CacheInv
<1>10. /\ CacheInv' /\ DOMAIN cache' \subseteq AllKeys /\ ShownInv' /\ QueueInv' /\ AwaitsInv'
       /\ \A k \in DOMAIN cache : EntryStep(k, cache[k], cache'[k])
       /\ \A w, k : Due(w, k)' <=> Due(w, k)
  BY <1>1, <1>4, <1>6, <1>8, <1>9, ObservedNext
<1>11. ViewsTyped'
  BY <1>1, <1>2, <1>7, <1>10 DEF ViewsInv, ViewsTyped
<1>12. PageInv'
  <2>1. ASSUME NEW i \in DOMAIN stack', Fixed(stack'[i].screen)
        PROVE  stack'[i].page <= Cardinality(Items)
    BY <1>6, <1>7, <2>1 DEF ViewsInv, PageInv
  <2> QED BY <2>1, SameSets DEF PageInv
<1>13. \A i \in DOMAIN stack' : ~IsDetail(i)'
  <2>1. \A i \in DOMAIN stack : ~IsDetail(i)
    BY <1>3, DetailsAreLast DEF ViewsInv, IsDetail, On
  <2>2. \A i \in DOMAIN stack : stack'[i].screen = stack[i].screen
    BY <1>3, <1>6, <1>7
  <2> QED BY <1>7, <2>1, <2>2 DEF IsDetail
<1>14. WaitsInv' /\ SeenInv' /\ ActionInv'
  BY <1>13 DEF WaitsInv, SeenInv, ActionInv
<1> QED BY <1>8, <1>10, <1>11, <1>12, <1>14 DEF ViewsInv

LEMMA FilterMoves ==
  ASSUME ViewsAssumption, ViewsInv, NEW f \in Statuses, Filter(f)
  PROVE  ViewsInv'
<1>1. On("list") /\ f \in Screen[Top.screen].filters /\ Rekey(f, 1)
  BY DEF Filter
<1>2. Cardinality(Items) \in Nat /\ Cardinality(Items) # 0
  BY NothingIsData
<1>3. \A n \in Nat : n # 0 => 1 <= n
  OBVIOUS
<1>4. 1 \in Nat \ {0} /\ 1 <= Cardinality(Items)
  BY <1>2, <1>3
<1> QED BY <1>1, <1>4, RekeyMoves

\* The rows shown are in the cache.
LEMMA ShownIsCached ==
  ASSUME ViewsAssumption, ViewsInv, On("list"), NEW k \in Shown(Top)
  PROVE  /\ k \in DOMAIN cache /\ cache[k] \in Entries /\ cache[k].data.total \in Nat
         /\ cache[k].data.total <= Cardinality(Items)
<1>1. /\ Top = stack[Len(stack)] /\ Len(stack) \in DOMAIN stack /\ Top \in Frames
  BY TopFrame DEF ViewsInv
<1>2. Listed(Top) \in DOMAIN cache /\ Top.last \subseteq DOMAIN cache
  BY <1>1, OneKey DEF On, ViewsInv, CacheInv
<1>3. k \in DOMAIN cache /\ cache[k] \in Entries
  BY <1>2 DEF Shown, ViewsInv, CacheInv, Sound
<1>4. cache[k].data.total \in 0 .. Cardinality(Items)
  BY <1>3 DEF Entries, Data
<1> QED BY <1>3, <1>4, NothingIsData

LEMMA TurnMoves ==
  ASSUME ViewsAssumption, ViewsInv, NEW page \in Nat, Turn(page)
  PROVE  ViewsInv'
<1>1. On("list") /\ Rekey(Top.filter, page)
  BY DEF Turn
<1>2. PICK k \in Shown(Top) : page \in 1 .. Pages(cache[k].data.total)
  BY DEF Turn
<1>3. cache[k].data.total \in Nat /\ cache[k].data.total <= Cardinality(Items)
  BY <1>1, ShownIsCached
<1>4. Pages(cache[k].data.total) \in Nat /\ Pages(cache[k].data.total) <= Cardinality(Items)
  BY <1>3, NothingIsData DEF Pages
<1>5. Cardinality(Items) \in Nat
  BY NothingIsData
<1>6. page # 0 /\ page <= Pages(cache[k].data.total)
  BY <1>2, <1>4
<1>7. page \in Nat \ {0} /\ page <= Cardinality(Items)
  BY <1>4, <1>5, <1>6
<1> QED BY <1>1, <1>7, TopIsFiltered, RekeyMoves

-----------------------------------------------------------------------------
(* Writes.                                                                 *)

\* The screen shown queues a write and waits for its hook; a detail does so when it waits for
\* none and shows its document.
LEMMA QueueMoves ==
  ASSUME ViewsAssumption, ViewsInv, Gesture, NEW op \in Done[root], NEW S \in SUBSET Items,
         Queue(op, S), Local([Top EXCEPT !.waits = Len(writes) + 1]),
         UNCHANGED <<cache, open, batch, owner>>,
         On("detail") =>
           /\ op \in Screen[Top.screen].does /\ S = {Followed} /\ Top.waits = 0
           /\ \A k \in Keys(Top) : cache[k].has
  PROVE  ViewsInv'
<1> DEFINE e == [Top EXCEPT !.waits = Len(writes) + 1]
           n == Len(writes) + 1
           new == [op |-> op, rows |-> S, state |-> "pending", left |-> <<>>, awaits |-> {},
                   step |-> IF isOnline THEN "queued" ELSE "ending"]
<1>1. /\ writes \in Seq(Writes) /\ Len(writes) \in Nat /\ n \in Nat /\ owner \in 0 .. Len(writes)
      /\ root \in HomeScreen
  BY DEF ViewsInv, ViewsTyped, QueueInv, ViewsAssumption
<1>2. /\ Top \in Frames /\ Top = stack[Len(stack)] /\ Len(stack) \in DOMAIN stack
  BY TopFrame DEF ViewsInv
<1>3. /\ e \in Frames /\ e.screen = Top.screen /\ e.page = Top.page /\ e.last = Top.last
      /\ e.filter = Top.filter /\ e.waits = n /\ e.applied = Top.applied
  BY <1>1, <1>2 DEF Frames
<1>4. /\ new.op = op /\ new.rows = S /\ new.state = "pending" /\ new.step \in {"queued", "ending"}
      /\ new.awaits = {}
  OBVIOUS
<1>5. new \in Writes
  <2>1. op \in DOMAIN Hook /\ <<>> \in Seq(QueryKeys)
    BY <1>1, ShownAndDone
  <2>2. new.step \in HookSteps
    BY DEF HookSteps
  <2> QED BY <2>1, <2>2 DEF Writes
<1>6. Local(e) /\ writes' = Append(writes, new)
  BY DEF Queue
<1> HIDE DEF e, new
<1>7. /\ writes' \in Seq(Writes) /\ Len(writes') = n /\ DOMAIN writes' = 1 .. n
      /\ DOMAIN writes = 1 .. Len(writes) /\ writes'[n] = new
      /\ \A w \in DOMAIN writes : w \in DOMAIN writes' /\ writes'[w] = writes[w]
      /\ \A w \in DOMAIN writes' : w \in DOMAIN writes \/ w = n
  BY <1>1, <1>5, <1>6
<1>8. /\ stack' \in Seq(Frames) /\ DOMAIN stack' = DOMAIN stack /\ stack'[Len(stack)] = e
      /\ \A i \in DOMAIN stack : i # Len(stack) => stack'[i] = stack[i]
  BY <1>3, <1>6, LocalFrame
<1>9. UNCHANGED <<root, sync, isOnline, faults>> /\ gestures' \in Nat
  BY GestureMoves
<1>10. StackInv'
  <2>1. e.filter \in Screen[e.screen].filters /\ e.waits \in 0 .. Len(writes')
    BY <1>1, <1>3, <1>7, TopIsFiltered
  <2>2. Len(writes') \in Nat /\ Len(writes) <= Len(writes')
    BY <1>1, <1>7
  <2> QED BY <1>3, <1>6, <1>9, <2>1, <2>2, StackNext
<1>11. \A i \in DOMAIN stack :
         /\ stack'[i].screen = stack[i].screen /\ stack'[i].page = stack[i].page
         /\ stack'[i].filter = stack[i].filter /\ stack'[i].last = stack[i].last
         /\ stack'[i].applied = stack[i].applied
  BY <1>2, <1>3, <1>8
<1>12. \A i \in DOMAIN stack : Keys(stack'[i]) = Keys(stack[i])
  BY <1>11, SameKeys
<1>13. Mounted' = Mounted
  BY <1>8, <1>12, MountedKeys, NextMounted
<1>14. ViewsTyped'
  BY <1>7, <1>8, <1>9 DEF ViewsInv, ViewsTyped
<1>15. \A k \in DOMAIN cache : EntryStep(k, cache[k], cache'[k])
  BY KeptEntry DEF ViewsInv, CacheInv
<1>16. CacheInv'
  <2>1. \A i \in DOMAIN stack' : Keys(stack'[i]) \cup stack'[i].last \subseteq DOMAIN cache'
    BY <1>8, <1>11, <1>12 DEF ViewsInv, CacheInv
  <2> QED BY <1>9, <1>15, <2>1, CacheNext
<1>17. QueueInv'
  <2>1. PendingMutations \subseteq PendingMutations'
    BY <1>7 DEF PendingMutations
  <2>2. owner' \in 0 .. Len(writes') /\ owner' # n
    BY <1>1, <1>7
  <2>3. ASSUME NEW w \in DOMAIN writes'
        PROVE  /\ writes'[w].state # "none" => writes'[w].op \in Done[root']
               /\ writes'[w].state = "none" => writes'[w].step = "ended"
               /\ writes'[w].step = "passing" <=> owner' = w
               /\ writes'[w].step = "refetching" => writes'[w].left # <<>>
    <3>1. CASE w = n
      BY <1>4, <1>7, <1>9, <2>2, <3>1
    <3>2. CASE w \in DOMAIN writes
      BY <1>7, <1>9, <3>2 DEF ViewsInv, QueueInv
    <3> QED BY <1>7, <2>3, <3>1, <3>2
  <2> QED BY <1>9, <2>1, <2>2, <2>3 DEF ViewsInv, QueueInv
<1>18. AwaitsInv'
  BY <1>4, <1>7 DEF ViewsInv, AwaitsInv
<1>19. \A w \in DOMAIN writes : \A k : Due(w, k) => Due(w, k)'
  BY <1>7 DEF Due
<1>20. \A k : Covered(k) => Covered(k)'
  BY <1>7, <1>9, <1>19 DEF Covered
<1>21. ShownInv'
  BY <1>13, <1>15, <1>20, ShownNext
<1>22. PageInv'
  BY <1>8, <1>11, PageNext
<1>23. \A i \in DOMAIN stack' : IsDetail(i)' => i = Len(stack) /\ IsDetail(i) /\ On("detail")
  BY <1>2, <1>8, <1>11, DetailsAreLast DEF ViewsInv, IsDetail, On
<1>24. WaitsInv'
  <2>1. ASSUME NEW i \in DOMAIN stack', IsDetail(i)'
        PROVE  /\ writes'[stack'[i].waits].step # "ended"
               /\ writes'[stack'[i].waits].op \in Screen[stack'[i].screen].does
               /\ writes'[stack'[i].waits].rows = {Followed}
    BY <1>3, <1>4, <1>7, <1>8, <1>23, <2>1
  <2> QED BY <2>1 DEF WaitsInv
<1>25. SeenInv'
  <2>1. ASSUME NEW i \in DOMAIN stack', IsDetail(i)', NEW k \in Keys(stack'[i])
        PROVE  cache'[k].has
    BY <1>2, <1>8, <1>12, <1>23, <2>1
  <2> QED BY <2>1 DEF SeenInv, Keys
<1>26. ActionInv'
  <2>1. ASSUME NEW i \in DOMAIN stack', IsDetail(i)', stack'[i].applied, NEW m,
               m = stack'[i].waits
        PROVE  /\ Followed \notin open'
               /\ \A k \in Keys(stack'[i]) : Settling(cache'[k]) \/ (m # 0 /\ Due(m, k)')
    <3>1. /\ IsDetail(i) /\ i \in DOMAIN stack /\ stack[i].applied /\ stack[i].waits = 0
          /\ Keys(stack'[i]) = Keys(stack[i])
      BY <1>2, <1>8, <1>11, <1>12, <1>23, <2>1
    <3>2. Followed \notin open /\ \A k \in Keys(stack[i]) : Settling(cache[k])
      BY <3>1 DEF ViewsInv, ActionInv
    <3> QED BY <3>1, <3>2
  <2> QED BY <2>1, ActionFrames
<1> QED BY <1>10, <1>14, <1>16, <1>17, <1>18, <1>21, <1>22, <1>24, <1>25, <1>26 DEF ViewsInv

LEMMA SaveMoves ==
  ASSUME ViewsAssumption, ViewsInv, Save
  PROVE  ViewsInv'
<1>1. PICK op \in Screen[Top.screen].does : Queue(op, {})
  BY DEF Save
<1>2. /\ Gesture /\ On("form") /\ Local([Top EXCEPT !.waits = Len(writes) + 1])
      /\ UNCHANGED <<cache, open, batch, owner>>
  BY DEF Save
<1>3. op \in Done[root]
  BY TopFrame, Frame DEF ViewsInv
<1>4. ~On("detail")
  BY <1>2 DEF On
<1> QED BY <1>1, <1>2, <1>3, <1>4, QueueMoves

\* A detail that offers an action after another was applied waits to read its document.
LEMMA OffersOnce ==
  ASSUME ViewsAssumption, ViewsInv, On("detail"), Top.waits = 0, Top.applied,
         \A k \in Keys(Top) : ShowsOpen(k) /\ ~IsFetching(k)
  PROVE  \E k \in Keys(Top) : cache[k].fetch = "paused"
<1>1. Top = stack[Len(stack)] /\ Len(stack) \in DOMAIN stack /\ Top \in Frames
  BY TopFrame DEF ViewsInv
<1>2. PICK k \in Keys(Top) : TRUE
  BY <1>1, OneKey DEF On
<1>3. Settling(cache[k])
  BY <1>1 DEF ViewsInv, ActionInv, IsDetail, On
<1>4. cache[k].fetch # "none" /\ cache[k].fetch \notin {"asked", "read"}
  BY <1>3 DEF Settling, ShowsOpen, IsFetching
<1>5. cache[k].fetch \in {"none", "paused", "asked", "read"}
  BY <1>1 DEF ViewsInv, CacheInv, Sound, Entries
<1> QED BY <1>4, <1>5

LEMMA ActMoves ==
  ASSUME ViewsAssumption, ViewsInv, NEW op \in DOMAIN Hook, Act(op)
  PROVE  ViewsInv'
<1>1. /\ Gesture /\ On("detail") /\ Local([Top EXCEPT !.waits = Len(writes) + 1])
      /\ UNCHANGED <<cache, open, batch, owner>> /\ Queue(op, {Followed})
      /\ op \in Screen[Top.screen].does /\ Top.waits = 0
      /\ \A k \in Keys(Top) : cache[k].has
  BY DEF Act, ShowsOpen
<1>2. op \in Done[root] /\ {Followed} \in SUBSET Items
  BY <1>1, TopFrame, Frame DEF ViewsInv, ViewsAssumption
<1> QED BY <1>1, <1>2, QueueMoves

LEMMA DeactivateMoves ==
  ASSUME ViewsAssumption, ViewsInv, NEW op \in DOMAIN Hook, Deactivate(op)
  PROVE  ViewsInv'
<1>1. PICK i \in Top.asking : Queue(op, {i})
  BY DEF Deactivate
<1>2. /\ Gesture /\ On("list") /\ Local([Top EXCEPT !.waits = Len(writes) + 1])
      /\ UNCHANGED <<cache, open, batch, owner>> /\ op \in Screen[Top.screen].does
  BY DEF Deactivate
<1>3. op \in Done[root] /\ Top \in Frames
  BY <1>2, TopFrame, Frame DEF ViewsInv
<1>4. {i} \in SUBSET Items
  BY <1>3 DEF Frames
<1>5. ~On("detail")
  BY <1>2 DEF On
<1> QED BY <1>1, <1>2, <1>3, <1>4, <1>5, QueueMoves

-----------------------------------------------------------------------------
(* Passes, and the hooks that wait for them.                               *)

\* Steps of the queue that leave the screens and the cache alone.
LEMMA WritesNext ==
  ASSUME ViewsAssumption, ViewsInv,
         UNCHANGED <<root, stack, cache, open, sync, isOnline, faults, gestures>>,
         writes' \in Seq(Writes), Len(writes') = Len(writes), batch' \subseteq Nat, owner' \in Nat,
         QueueInv',
         \A w \in DOMAIN writes :
           /\ writes'[w].op = writes[w].op /\ writes'[w].rows = writes[w].rows
           /\ writes'[w].awaits = writes[w].awaits
           /\ writes[w].step # "ended" => writes'[w].step # "ended"
           /\ \A k : Due(w, k) => Due(w, k)'
  PROVE  ViewsInv'
<1>1. ViewsTyped'
  BY DEF ViewsInv, ViewsTyped
<1>2. DOMAIN writes' = DOMAIN writes
  BY DEF ViewsInv, ViewsTyped
<1>3. StackInv' /\ CacheInv' /\ AwaitsInv'
  BY <1>2 DEF ViewsInv, StackInv, CacheInv, AwaitsInv, Keys, Sound
<1>4. Mounted' = Mounted
  BY DEF Mounted, Keys
<1>5. \A k \in DOMAIN cache : EntryStep(k, cache[k], cache'[k])
  BY KeptEntry DEF ViewsInv, CacheInv
<1>6. \A k : Covered(k) => Covered(k)'
  BY <1>2 DEF Covered
<1>7. ShownInv'
  BY <1>4, <1>5, <1>6, ShownNext
<1>8. PageInv' /\ SeenInv'
  BY <1>5, PageNext, SeenNext DEF IsDetail
<1>9. WaitsInv'
  <2>1. \A i \in DOMAIN stack : stack[i].waits # 0 => stack[i].waits \in DOMAIN writes
    BY DEF ViewsInv, StackInv, ViewsTyped
  <2> QED BY <2>1, WaitsNext DEF ViewsInv, WaitsInv, IsDetail
<1>10. ActionInv'
  BY <1>5, ActionNext DEF IsDetail
<1> QED BY <1>1, <1>3, <1>7, <1>8, <1>9, <1>10 DEF ViewsInv

LEMMA PendingWrites ==
  ASSUME ViewsTyped
  PROVE  PendingMutations \subseteq Nat
BY TypedWrite DEF PendingMutations

LEMMA HookProcessMoves ==
  ASSUME ViewsAssumption, ViewsInv, NEW w \in DOMAIN writes, ProcessQueue(w)
  PROVE  ViewsInv'
<1>1. /\ UNCHANGED <<root, stack, cache, open, sync, isOnline, faults, gestures>>
      /\ writes[w].step = "queued"
  BY DEF ProcessQueue, world
<1>2. PICK t \in {"passing", "asserting"} :
        /\ writes' = [writes EXCEPT ![w].step = t]
        /\ t = "passing" =>
             batch = {} /\ PendingMutations # {} /\ batch' = PendingMutations /\ owner' = w
        /\ t = "asserting" => UNCHANGED <<batch, owner>>
  BY DEF ProcessQueue
<1>3. /\ writes \in Seq(Writes) /\ w \in 1 .. Len(writes) /\ writes[w] \in Writes
      /\ PendingMutations \subseteq Nat /\ owner \in 0 .. Len(writes) /\ Len(writes) \in Nat
  BY TypedWrite, PendingWrites DEF ViewsInv, ViewsTyped, QueueInv
<1>4. [writes[w] EXCEPT !.step = t] \in Writes
  BY <1>2, <1>3 DEF Writes, HookSteps
<1>5. /\ writes' \in Seq(Writes) /\ Len(writes') = Len(writes) /\ DOMAIN writes' = DOMAIN writes
      /\ writes'[w] = [writes[w] EXCEPT !.step = t]
      /\ \A p \in DOMAIN writes : p # w => writes'[p] = writes[p]
  BY <1>2, <1>3, <1>4
<1>6. \A p \in DOMAIN writes :
        /\ writes'[p].op = writes[p].op /\ writes'[p].rows = writes[p].rows
        /\ writes'[p].state = writes[p].state /\ writes'[p].awaits = writes[p].awaits
  BY <1>3, <1>5 DEF Writes
<1>7. writes'[w].step = t
  BY <1>3, <1>5 DEF Writes
<1>8. batch' \subseteq Nat /\ owner' \in 0 .. Len(writes')
  BY <1>2, <1>3, <1>5 DEF ViewsInv, ViewsTyped
<1>9. QueueInv'
  <2>1. PendingMutations' = PendingMutations
    BY <1>5, <1>6 DEF PendingMutations
  <2>2. batch' \subseteq PendingMutations' /\ (batch' = {} => owner' = 0 /\ ~sync')
    BY <1>1, <1>2, <2>1 DEF ViewsInv, QueueInv
  <2>3. batch = {} => owner = 0
    BY DEF ViewsInv, QueueInv
  <2>4. ASSUME NEW p \in DOMAIN writes'
        PROVE  writes'[p].step = "passing" <=> owner' = p
    <3>1. writes[p].step = "passing" <=> owner = p
      BY <1>5, <2>4 DEF ViewsInv, QueueInv
    <3>2. p # 0
      BY <1>5, <2>4, TypedWrite DEF ViewsInv
    <3> QED BY <1>1, <1>2, <1>5, <1>7, <2>3, <2>4, <3>1, <3>2
  <2>5. ASSUME NEW p \in DOMAIN writes'
        PROVE  /\ writes'[p].state # "none" => writes'[p].op \in Done[root']
               /\ writes'[p].state = "none" => writes'[p].step = "ended"
               /\ writes'[p].step = "refetching" => writes'[p].left # <<>>
    BY <1>1, <1>2, <1>5, <1>6, <1>7, <2>5 DEF ViewsInv, QueueInv
  <2> QED BY <1>8, <2>2, <2>4, <2>5 DEF QueueInv
<1>10. ASSUME NEW p \in DOMAIN writes
       PROVE  /\ writes[p].step # "ended" => writes'[p].step # "ended"
              /\ \A k : Due(p, k) => Due(p, k)'
  BY <1>1, <1>2, <1>5, <1>7 DEF Due
<1>11. owner' \in Nat
  BY <1>8, <1>5, <1>3
<1> QED BY <1>1, <1>5, <1>6, <1>8, <1>9, <1>10, <1>11, WritesNext

LEMMA TimerMoves ==
  ASSUME ViewsAssumption, ViewsInv, TimerFires
  PROVE  ViewsInv'
<1>1. /\ UNCHANGED <<root, stack, cache, open, sync, isOnline, faults, gestures, writes, owner>>
      /\ batch = {} /\ PendingMutations # {} /\ batch' = PendingMutations
  BY DEF TimerFires, world
<1>2. batch' \subseteq Nat /\ owner' \in Nat /\ writes' \in Seq(Writes)
  BY <1>1, PendingWrites DEF ViewsInv, ViewsTyped
<1>3. QueueInv'
  BY <1>1 DEF ViewsInv, QueueInv, PendingMutations
<1>4. \A w, k : Due(w, k) => Due(w, k)'
  BY <1>1 DEF Due
<1> QED BY <1>1, <1>2, <1>3, <1>4, WritesNext

-----------------------------------------------------------------------------
(* Invalidations.                                                          *)

LEMMA NextKey ==
  ASSUME NEW s \in Seq(QueryKeys), NEW x, InSeq(x, s)
  PROVE  s # <<>> /\ (x = Head(s) \/ InSeq(x, Tail(s)))
<1>1. PICK i \in DOMAIN s : s[i] = x
  BY DEF InSeq
<1>2. Len(s) \in Nat /\ i \in 1 .. Len(s) /\ s # <<>>
  BY <1>1
<1>3. CASE i = 1
  BY <1>1, <1>2, <1>3
<1>4. CASE i # 1
  <2>1. i - 1 \in DOMAIN Tail(s) /\ Tail(s)[i - 1] = s[i]
    BY <1>2, <1>4
  <2> QED BY <1>1, <1>2, <2>1 DEF InSeq
<1> QED BY <1>3, <1>4

\* The hook of a write goes on to its next key.
LEMMA RefreshMoves ==
  ASSUME ViewsAssumption, ViewsInv, NEW w \in DOMAIN writes, NEW left \in Seq(QueryKeys),
         Refresh(w, left), writes[w].step \in {"asserting", "refetching"},
         \A k \in DOMAIN cache : Due(w, k) => InSeq(Query[k.query].key, left)
  PROVE  ViewsInv'
<1> DEFINE t == IF left = <<>> THEN "ending" ELSE "refetching"
           ks == IF left = <<>> THEN {} ELSE KeyedBy(Head(left))
           as == IF left = <<>> THEN {}
                 ELSE {k \in KeyedBy(Head(left)) \cap Mounted : cache'[k].fetch # "paused"}
<1>1. /\ UNCHANGED <<root, stack, open, batch, owner, sync, isOnline, faults, gestures>>
      /\ cache' = IF left = <<>> THEN cache ELSE Invalidated(cache, KeyedBy(Head(left)), isOnline)
      /\ writes' = [writes EXCEPT ![w].left = left, ![w].step = t, ![w].awaits = as]
  BY DEF Refresh, world
<1>2. /\ writes \in Seq(Writes) /\ w \in 1 .. Len(writes) /\ writes[w] \in Writes
      /\ DOMAIN cache \subseteq AllKeys /\ isOnline \in BOOLEAN
  BY TypedWrite DEF ViewsInv, ViewsTyped
<1>3. /\ t \in HookSteps /\ t \in {"ending", "refetching"} /\ (t = "refetching" => left # <<>>)
      /\ left # <<>> => t = "refetching"
  BY DEF HookSteps
<1>4. /\ ks \subseteq DOMAIN cache /\ as \subseteq ks \cap Mounted
      /\ left # <<>> => \A k \in DOMAIN cache : Query[k.query].key = Head(left) => k \in ks
      /\ left = <<>> => ks = {}
  BY DEF KeyedBy
<1>5. ASSUME left # <<>>
      PROVE  cache' = Invalidated(cache, ks, isOnline)
  BY <1>1, <1>5
<1> HIDE DEF t, ks, as
<1>6. as \in SUBSET AllKeys
  BY <1>2, <1>4
<1> DEFINE x == [writes[w] EXCEPT !.left = left, !.step = t, !.awaits = as]
<1>7. /\ x \in Writes /\ x.step = t /\ x.left = left /\ x.op = writes[w].op
      /\ x.rows = writes[w].rows /\ x.state = writes[w].state /\ x.awaits = as
  BY <1>2, <1>3, <1>6 DEF Writes
<1>8. writes' = [writes EXCEPT ![w] = x]
  BY <1>1, <1>2
<1> HIDE DEF x
<1>9. /\ writes' \in Seq(Writes) /\ Len(writes') = Len(writes) /\ DOMAIN writes' = DOMAIN writes
      /\ writes'[w] = x /\ \A p \in DOMAIN writes : p # w => writes'[p] = writes[p]
  BY <1>2, <1>7, <1>8
<1>10. Mounted' = Mounted
  BY <1>1 DEF Mounted, Keys
<1>11. DOMAIN cache' = DOMAIN cache
  BY <1>1 DEF Invalidated
<1>12. ASSUME NEW k \in DOMAIN cache
       PROVE  /\ EntryStep(k, cache[k], cache'[k])
              /\ cache[k].fetch # "none" => cache'[k].fetch # "none"
              /\ k \in ks => /\ ~WillMiss(cache'[k]) /\ ~(k \in Mounted /\ Misses(cache'[k]))
                             /\ k \in Mounted => /\ cache'[k].fetch # "none"
                                                 /\ cache[k].has => Settling(cache'[k])
  <2>1. Sound(k, cache[k])
    BY DEF ViewsInv, CacheInv
  <2>2. CASE left # <<>>
    <3>1. cache'[k] = Invalidated(cache, ks, isOnline)[k]
      BY <1>5, <2>2
    <3> QED BY <1>2, <2>1, <3>1, InvalidatedEntry
  <2>3. CASE left = <<>>
    <3>1. cache'[k] = cache[k] /\ k \notin ks
      BY <1>1, <1>4, <2>3
    <3> QED BY <2>1, <3>1, KeptEntry
  <2> QED BY <2>2, <2>3
<1>13. CacheInv' /\ DOMAIN cache' \subseteq AllKeys
  <2>1. \A i \in DOMAIN stack' : Keys(stack'[i]) \cup stack'[i].last \subseteq DOMAIN cache'
    BY <1>1, <1>11 DEF ViewsInv, CacheInv
  <2> QED BY <1>1, <1>11, <1>12, <2>1, CacheNext
<1>14. ViewsTyped'
  BY <1>1, <1>9, <1>13 DEF ViewsInv, ViewsTyped
<1>15. StackInv'
  BY <1>1, <1>9 DEF ViewsInv, StackInv
<1>16. QueueInv'
  <2>1. PendingMutations' = PendingMutations
    BY <1>7, <1>9 DEF PendingMutations
  <2>2. ASSUME NEW p \in DOMAIN writes
        PROVE  /\ writes'[p].state # "none" => writes'[p].op \in Done[root]
               /\ writes'[p].state = "none" => writes'[p].step = "ended"
               /\ writes'[p].step = "passing" <=> owner = p
               /\ writes'[p].step = "refetching" => writes'[p].left # <<>>
    <3>1. /\ writes[p].state # "none" => writes[p].op \in Done[root]
          /\ writes[p].state = "none" => writes[p].step = "ended"
          /\ writes[p].step = "passing" <=> owner = p
          /\ writes[p].step = "refetching" => writes[p].left # <<>>
      BY DEF ViewsInv, QueueInv
    <3> QED BY <1>3, <1>7, <1>9, <3>1
  <2> QED BY <1>1, <1>9, <2>1, <2>2 DEF ViewsInv, QueueInv
<1>17. AwaitsInv'
  <2>1. ASSUME NEW p \in DOMAIN writes', NEW k \in writes'[p].awaits
        PROVE  k \in DOMAIN cache' /\ cache'[k].fetch # "none"
    <3>1. CASE p = w
      BY <1>4, <1>7, <1>9, <1>11, <1>12, <2>1, <3>1
    <3>2. CASE p # w
      <4>1. k \in DOMAIN cache /\ cache[k].fetch # "none"
        BY <1>9, <2>1, <3>2 DEF ViewsInv, AwaitsInv
      <4> QED BY <1>11, <1>12, <4>1
    <3> QED BY <3>1, <3>2
  <2> QED BY <2>1 DEF AwaitsInv
<1>18. ASSUME NEW k \in DOMAIN cache, Due(w, k)
       PROVE  Due(w, k)' \/ k \in ks
  <2>1. left # <<>> /\ (Query[k.query].key = Head(left) \/ InSeq(Query[k.query].key, Tail(left)))
    BY <1>18, NextKey
  <2>2. CASE Query[k.query].key = Head(left)
    BY <1>4, <2>1, <2>2
  <2>3. CASE InSeq(Query[k.query].key, Tail(left))
    BY <1>3, <1>7, <1>9, <2>1, <2>3 DEF Due
  <2> QED BY <2>1, <2>2, <2>3
<1>19. \A p \in DOMAIN writes : p # w => \A k : Due(p, k) => Due(p, k)'
  BY <1>9 DEF Due
<1>20. ASSUME NEW k \in DOMAIN cache, Covered(k)
       PROVE  Covered(k)' \/ k \in ks
  <2>1. CASE sync
    BY <1>1, <2>1 DEF Covered
  <2>2. CASE ~sync
    <3>1. PICK p \in DOMAIN writes : Due(p, k)
      BY <1>20, <2>2 DEF Covered
    <3>2. CASE p = w
      BY <1>9, <1>18, <3>1, <3>2 DEF Covered
    <3>3. CASE p # w
      BY <1>9, <1>19, <3>1, <3>3 DEF Covered
    <3> QED BY <3>2, <3>3
  <2> QED BY <2>1, <2>2
<1>21. ShownInv'
  BY <1>10, <1>11, <1>12, <1>20, ShownNext
<1>22. PageInv' /\ SeenInv'
  BY <1>1, <1>12, PageNext, SeenNext DEF IsDetail
<1>23. WaitsInv'
  <2>1. \A i \in DOMAIN stack : stack[i].waits # 0 => stack[i].waits \in DOMAIN writes
    BY DEF ViewsInv, StackInv, ViewsTyped
  <2>2. \A p \in DOMAIN writes :
          /\ writes'[p].op = writes[p].op /\ writes'[p].rows = writes[p].rows
          /\ writes[p].step # "ended" => writes'[p].step # "ended"
    BY <1>3, <1>7, <1>9
  <2> QED BY <1>1, <2>1, <2>2, WaitsNext DEF ViewsInv, WaitsInv, IsDetail
<1>24. ActionInv'
  <2>1. ASSUME NEW p \in DOMAIN writes, NEW k \in Mounted, Due(p, k), cache[k].has
        PROVE  Due(p, k)' \/ Settling(cache'[k])
    <3>1. k \in DOMAIN cache
      BY MountedIsCached DEF ViewsInv
    <3>2. CASE p = w
      BY <1>12, <1>18, <2>1, <3>1, <3>2
    <3>3. CASE p # w
      BY <1>19, <2>1, <3>3
    <3> QED BY <3>2, <3>3
  <2> QED BY <1>1, <1>12, <2>1, ActionNext DEF IsDetail
<1> QED BY <1>13, <1>14, <1>15, <1>16, <1>17, <1>21, <1>22, <1>23, <1>24 DEF ViewsInv

LEMMA AssertMoves ==
  ASSUME ViewsAssumption, ViewsInv, NEW w \in DOMAIN writes, AssertSucceeded(w)
  PROVE  ViewsInv'
<1>1. writes[w].step = "asserting" /\ writes[w] \in Writes
  BY TypedWrite DEF AssertSucceeded, ViewsInv
<1>2. CASE writes[w].state = "failed"
  <2>1. /\ writes' = [writes EXCEPT ![w].step = "refused"]
        /\ UNCHANGED <<root, stack, cache, open, batch, owner, sync, isOnline, faults, gestures>>
    BY <1>2 DEF AssertSucceeded, world
  <2>2. writes \in Seq(Writes) /\ w \in 1 .. Len(writes) /\ "refused" \in HookSteps
    BY TypedWrite DEF ViewsInv, ViewsTyped, HookSteps
  <2>3. [writes[w] EXCEPT !.step = "refused"] \in Writes
    BY <1>1, <2>2 DEF Writes
  <2>4. /\ writes' \in Seq(Writes) /\ Len(writes') = Len(writes)
        /\ DOMAIN writes' = DOMAIN writes
        /\ writes'[w] = [writes[w] EXCEPT !.step = "refused"]
        /\ \A p \in DOMAIN writes : p # w => writes'[p] = writes[p]
    BY <2>1, <2>2, <2>3
  <2>5. /\ writes'[w].step = "refused" /\ writes'[w].op = writes[w].op
        /\ writes'[w].rows = writes[w].rows /\ writes'[w].state = writes[w].state
        /\ writes'[w].awaits = writes[w].awaits
    BY <1>1, <2>4 DEF Writes
  <2>6. batch' \subseteq Nat /\ owner' \in Nat
    BY <2>1 DEF ViewsInv, ViewsTyped
  <2>7. QueueInv'
    <3>1. PendingMutations' = PendingMutations
      BY <2>4, <2>5 DEF PendingMutations
    <3>2. ASSUME NEW p \in DOMAIN writes
          PROVE  /\ writes'[p].state # "none" => writes'[p].op \in Done[root]
                 /\ writes'[p].state = "none" => writes'[p].step = "ended"
                 /\ writes'[p].step = "passing" <=> owner = p
                 /\ writes'[p].step = "refetching" => writes'[p].left # <<>>
      <4>1. /\ writes[p].state # "none" => writes[p].op \in Done[root]
            /\ writes[p].state = "none" => writes[p].step = "ended"
            /\ writes[p].step = "passing" <=> owner = p
            /\ writes[p].step = "refetching" => writes[p].left # <<>>
        BY DEF ViewsInv, QueueInv
      <4> QED BY <1>1, <2>4, <2>5, <4>1
    <3> QED BY <2>1, <2>4, <3>1, <3>2 DEF ViewsInv, QueueInv
  <2>8. ASSUME NEW p \in DOMAIN writes
        PROVE  /\ writes'[p].op = writes[p].op /\ writes'[p].rows = writes[p].rows
               /\ writes'[p].awaits = writes[p].awaits
               /\ writes[p].step # "ended" => writes'[p].step # "ended"
               /\ \A k : Due(p, k) => Due(p, k)'
    BY <1>1, <1>2, <2>1, <2>4, <2>5 DEF Due
  <2> QED BY <2>1, <2>4, <2>6, <2>7, <2>8, WritesNext
<1>3. CASE writes[w].state # "failed"
  <2>1. Refresh(w, Hook[writes[w].op].refreshes)
    BY <1>3 DEF AssertSucceeded
  <2>2. writes[w].op \in DOMAIN Hook
    <3>1. writes[w].op \in Done[root] /\ root \in HomeScreen
      BY <1>1 DEF ViewsInv, QueueInv, ViewsTyped, ViewsAssumption
    <3> QED BY <3>1, ShownAndDone
  <2>3. Hook[writes[w].op].refreshes \in Seq(QueryKeys)
    BY <2>2, Refreshes
  <2>4. \A k \in DOMAIN cache :
          Due(w, k) => InSeq(Query[k.query].key, Hook[writes[w].op].refreshes)
    BY <1>1 DEF Due
  <2> QED BY <1>1, <2>1, <2>3, <2>4, RefreshMoves
<1> QED BY <1>2, <1>3

LEMMA RefreshedMoves ==
  ASSUME ViewsAssumption, ViewsInv, NEW w \in DOMAIN writes, Refreshed(w)
  PROVE  ViewsInv'
<1>1. writes[w].step = "refetching" /\ Refresh(w, Tail(writes[w].left))
  BY DEF Refreshed
<1>2. writes[w].left \in Seq(QueryKeys) /\ writes[w].left # <<>>
  <2>1. writes[w] \in Writes
    BY TypedWrite DEF ViewsInv
  <2> QED BY <1>1, <2>1 DEF Writes, ViewsInv, QueueInv
<1>3. Tail(writes[w].left) \in Seq(QueryKeys)
  BY <1>2
<1>4. \A k \in DOMAIN cache : Due(w, k) => InSeq(Query[k.query].key, Tail(writes[w].left))
  BY <1>1 DEF Due
<1> QED BY <1>1, <1>3, <1>4, RefreshMoves

\* What is left of a write that nobody waits for.
LEMMA GoneWrite ==
  ASSUME NEW x \in Writes
  PROVE  /\ Gone(x) \in Writes /\ Gone(x).step = x.step /\ Gone(x).left = x.left
         /\ Gone(x).awaits = x.awaits
         /\ x.step # "ended" \/ x.state = "pending" => Gone(x) = x
         /\ x.step = "ended" /\ x.state # "pending" =>
              Gone(x).op = "none" /\ Gone(x).rows = {} /\ Gone(x).state = "none"
BY DEF Gone, None, Writes

LEMMA FinishMoves ==
  ASSUME ViewsAssumption, ViewsInv, NEW w \in DOMAIN writes, Finish(w)
  PROVE  ViewsInv'
<1> DEFINE over == [writes[w] EXCEPT !.step = "ended"]
           refused == writes[w].step = "refused"
           pops == Sends(writes[w].op) /\ ~refused /\ Len(stack) > 1
           Returned(e) == IF e.waits # w THEN e
                          ELSE [e EXCEPT !.waits = 0, !.asking = IF refused THEN @ ELSE {}]
<1>1. /\ UNCHANGED <<root, cache, open, batch, owner, sync, isOnline, faults, gestures>>
      /\ writes[w].step \in {"ending", "refused"}
      /\ writes' = [writes EXCEPT ![w] = Gone(over)]
      /\ stack' = IF pops THEN SubSeq(stack, 1, Len(stack) - 1)
                  ELSE [i \in DOMAIN stack |-> Returned(stack[i])]
  BY DEF Finish, world
<1>2. /\ writes \in Seq(Writes) /\ w \in 1 .. Len(writes) /\ writes[w] \in Writes
      /\ stack \in Seq(Frames) /\ w # 0
  BY TypedWrite DEF ViewsInv, ViewsTyped
<1>3. /\ over \in Writes /\ over.step = "ended" /\ over.state = writes[w].state
      /\ over.op = writes[w].op /\ over.awaits = writes[w].awaits
  <2>1. "ended" \in HookSteps
    BY DEF HookSteps
  <2> QED BY <1>2, <2>1 DEF Writes
<1> HIDE DEF over
<1>4. /\ Gone(over) \in Writes /\ Gone(over).step = "ended"
      /\ Gone(over).awaits = writes[w].awaits
      /\ over.state = "pending" => Gone(over) = over
      /\ over.state # "pending" => Gone(over).op = "none" /\ Gone(over).state = "none"
  BY <1>3, GoneWrite
<1>5. /\ writes' \in Seq(Writes) /\ Len(writes') = Len(writes) /\ DOMAIN writes' = DOMAIN writes
      /\ writes'[w] = Gone(over)
      /\ \A p \in DOMAIN writes : p # w => writes'[p] = writes[p]
  <2>1. writes' = [writes EXCEPT ![w] = Gone(over)]
    BY <1>1
  <2> QED BY <1>2, <1>4, <2>1
<1>6. QueueInv'
  <2>1. PendingMutations' = PendingMutations
    BY <1>3, <1>4, <1>5 DEF PendingMutations
  <2>2. ASSUME NEW p \in DOMAIN writes
        PROVE  /\ writes'[p].state # "none" => writes'[p].op \in Done[root]
               /\ writes'[p].state = "none" => writes'[p].step = "ended"
               /\ writes'[p].step = "passing" <=> owner = p
               /\ writes'[p].step = "refetching" => writes'[p].left # <<>>
    <3>1. /\ writes[p].state # "none" => writes[p].op \in Done[root]
          /\ writes[p].step = "passing" <=> owner = p
          /\ writes[p].state = "none" => writes[p].step = "ended"
          /\ writes[p].step = "refetching" => writes[p].left # <<>>
      BY DEF ViewsInv, QueueInv
    <3> QED BY <1>1, <1>3, <1>4, <1>5, <3>1
  <2> QED BY <1>1, <1>5, <2>1, <2>2 DEF ViewsInv, QueueInv
<1>7. AwaitsInv'
  BY <1>1, <1>4, <1>5 DEF ViewsInv, AwaitsInv
<1>8. \A k : ~Due(w, k)
  BY <1>1 DEF Due
<1>9. \A p \in DOMAIN writes : \A k : Due(p, k) => Due(p, k)'
  BY <1>5, <1>8 DEF Due
<1>10. \A k : Covered(k) => Covered(k)'
  BY <1>1, <1>5, <1>9 DEF Covered
<1>11. /\ Len(stack) \in Nat \ {0} /\ Len(stack) \in DOMAIN stack /\ Top = stack[Len(stack)]
       /\ DOMAIN stack = 1 .. Len(stack)
  BY TopFrame DEF ViewsInv
<1>12. CASE pops
  <2>1. stack' = SubSeq(stack, 1, Len(stack) - 1) /\ Len(stack) > 1
    BY <1>1, <1>12
  <2>2. /\ stack' \in Seq(Frames) /\ StackInv' /\ CacheInv' /\ PageInv' /\ SeenInv' /\ ShownInv'
        /\ \A i \in DOMAIN stack' : i \in DOMAIN stack /\ stack'[i] = stack[i]
    BY <1>1, <1>5, <1>9, <2>1, PopStack
  <2>3. ViewsTyped'
    BY <1>1, <1>5, <2>2 DEF ViewsInv, ViewsTyped
  <2>4. Len(stack') = Len(stack) - 1
    <3>1. Len(stack) - 1 \in Nat /\ Len(stack) - 1 <= Len(stack)
      BY <1>11
    <3> QED BY <1>2, <2>1, <3>1
  <2>5. \A i \in DOMAIN stack' : i # Len(stack)
    BY <1>11, <2>2, <2>4
  <2>6. \A i \in DOMAIN stack' : ~IsDetail(i)'
    BY <2>2, <2>5, DetailsAreLast DEF ViewsInv, IsDetail
  <2>7. WaitsInv' /\ ActionInv'
    BY <2>6 DEF WaitsInv, ActionInv
  <2> QED BY <1>6, <1>7, <2>2, <2>3, <2>7 DEF ViewsInv
<1>13. CASE ~pops
  <2>1. stack' = [i \in DOMAIN stack |-> Returned(stack[i])]
    BY <1>1, <1>13
  <2>2. ASSUME NEW i \in DOMAIN stack
        PROVE  /\ Returned(stack[i]) \in Frames /\ Returned(stack[i]).screen = stack[i].screen
               /\ Returned(stack[i]).page = stack[i].page
               /\ Returned(stack[i]).filter = stack[i].filter
               /\ Returned(stack[i]).last = stack[i].last
               /\ Returned(stack[i]).applied = stack[i].applied
               /\ stack[i].waits # w => Returned(stack[i]).waits = stack[i].waits
               /\ stack[i].waits = w => Returned(stack[i]).waits = 0
    <3>1. stack[i] \in Frames
      BY <1>2, <2>2
    <3> QED BY <3>1 DEF Frames
  <2> HIDE DEF Returned
  <2>3. /\ stack' \in Seq(Frames) /\ Len(stack') = Len(stack) /\ DOMAIN stack' = DOMAIN stack
        /\ \A i \in DOMAIN stack : stack'[i] = Returned(stack[i])
    <3>1. stack' \in [1 .. Len(stack) -> Frames]
      BY <1>11, <2>1, <2>2
    <3>2. stack' \in Seq(Frames)
      BY <1>11, <3>1
    <3>3. DOMAIN stack' = DOMAIN stack
      BY <2>1
    <3>4. Len(stack') = Len(stack)
      BY <1>11, <3>2, <3>3
    <3> QED BY <2>1, <3>2, <3>3, <3>4
  <2>4. \A i \in DOMAIN stack :
          /\ stack'[i].screen = stack[i].screen /\ stack'[i].page = stack[i].page
          /\ stack'[i].filter = stack[i].filter /\ stack'[i].last = stack[i].last
          /\ stack'[i].applied = stack[i].applied
    BY <2>2, <2>3
  <2>5. \A i \in DOMAIN stack : Keys(stack'[i]) = Keys(stack[i])
    BY <2>4, SameKeys
  <2>6. Mounted' = Mounted
    BY <2>3, <2>5, MountedKeys, NextMounted
  <2>7. \A k \in DOMAIN cache : EntryStep(k, cache[k], cache'[k])
    BY <1>1, KeptEntry DEF ViewsInv, CacheInv
  <2>8. ViewsTyped'
    BY <1>1, <1>5, <2>3 DEF ViewsInv, ViewsTyped
  <2>9. StackInv'
    <3>1. ASSUME NEW i \in DOMAIN stack
          PROVE  /\ stack'[i].screen \in {"Home"} \cup Part[root']
                 /\ stack'[i].waits \in 0 .. Len(writes')
                 /\ stack'[i].filter \in Screen[stack'[i].screen].filters
                 /\ i > 1 => stack'[i].screen \in Screen[stack'[i - 1].screen].opens
      <4>1. /\ stack[i].screen \in {"Home"} \cup Part[root]
            /\ stack[i].waits \in 0 .. Len(writes)
            /\ stack[i].filter \in Screen[stack[i].screen].filters
            /\ i > 1 => stack[i].screen \in Screen[stack[i - 1].screen].opens
        BY DEF ViewsInv, StackInv
      <4>2. i > 1 => i - 1 \in DOMAIN stack
        BY <1>11, <3>1
      <4>3. stack'[i].waits \in 0 .. Len(writes')
        BY <1>2, <1>5, <2>2, <2>3, <4>1
      <4> QED BY <1>1, <2>4, <4>1, <4>2, <4>3
    <3>2. stack' # <<>> /\ stack'[1].screen = "Home"
      <4>1. 1 \in DOMAIN stack /\ stack[1].screen = "Home"
        BY <1>11 DEF ViewsInv, StackInv
      <4> QED BY <1>11, <2>3, <2>4, <4>1
    <3> QED BY <2>3, <3>1, <3>2 DEF StackInv
  <2>10. CacheInv'
    <3>1. \A i \in DOMAIN stack' : Keys(stack'[i]) \cup stack'[i].last \subseteq DOMAIN cache'
      BY <1>1, <2>3, <2>4, <2>5 DEF ViewsInv, CacheInv
    <3> QED BY <1>1, <2>7, <3>1, CacheNext
  <2>11. ShownInv'
    BY <1>1, <1>10, <2>6, <2>7, ShownNext
  <2>12. PageInv'
    BY <2>3, <2>4, PageNext
  <2>13. \A i \in DOMAIN stack : stack'[i].waits # 0 => stack'[i].waits = stack[i].waits
    BY <2>2, <2>3
  <2>14. SeenInv'
    BY <2>3, <2>4, <2>5, <2>7, <2>13, SeenNext DEF IsDetail
  <2>15. WaitsInv'
    <3>1. ASSUME NEW i \in DOMAIN stack', IsDetail(i)', stack'[i].waits # 0
          PROVE  /\ i \in DOMAIN stack /\ stack'[i].screen = stack[i].screen
                 /\ stack'[i].waits = stack[i].waits /\ stack[i].waits # w
                 /\ stack[i].waits \in DOMAIN writes
      BY <1>2, <2>2, <2>3, <3>1 DEF ViewsInv, StackInv
    <3>2. ASSUME NEW i \in DOMAIN stack', IsDetail(i)', stack'[i].waits # 0
          PROVE  /\ i \in DOMAIN stack /\ stack'[i].screen = stack[i].screen
                 /\ stack'[i].waits = stack[i].waits
                 /\ writes'[stack[i].waits].op = writes[stack[i].waits].op
                 /\ writes'[stack[i].waits].rows = writes[stack[i].waits].rows
                 /\ writes'[stack[i].waits].step # "ended"
      BY <1>5, <3>1, <3>2 DEF ViewsInv, WaitsInv, IsDetail
    <3> QED BY <3>2, WaitsNext
  <2>16. ActionInv'
    <3>1. \A i \in DOMAIN stack' : IsDetail(i)' /\ stack'[i].applied =>
            /\ i \in DOMAIN stack /\ stack'[i].screen = stack[i].screen /\ stack[i].applied
            /\ Keys(stack'[i]) = Keys(stack[i])
            /\ stack'[i].waits = stack[i].waits \/ \A k : ~Due(stack[i].waits, k)
      BY <1>8, <2>2, <2>3, <2>4, <2>5
    <3>2. open' \subseteq open
      BY <1>1
    <3> QED BY <1>9, <2>7, <3>1, <3>2, ActionNext
  <2> QED BY <1>6, <1>7, <2>8, <2>9, <2>10, <2>11, <2>12, <2>14, <2>15, <2>16 DEF ViewsInv
<1> QED BY <1>12, <1>13

-----------------------------------------------------------------------------
(* The network, and the passes.                                            *)

LEMMA NextEntry ==
  ASSUME NEW k, NEW c, NEW d, NEW e, EntryStep(k, c, d), EntryStep(k, d, e)
  PROVE  EntryStep(k, c, e)
BY DEF EntryStep

LEMMA ReconnectMoves ==
  ASSUME ViewsAssumption, ViewsInv, Reconnect
  PROVE  ViewsInv'
<1> DEFINE resumed == [k \in DOMAIN cache |->
             IF cache[k].fetch = "paused" \/ (k \in Mounted /\ cache[k].fetch = None)
             THEN Fetching(cache[k], TRUE) ELSE cache[k]]
<1>1. /\ UNCHANGED <<root, stack, open, writes, owner, faults, gestures>> /\ isOnline' = TRUE
      /\ \/ /\ batch = {} /\ PendingMutations # {} /\ batch' = PendingMutations /\ sync' = TRUE
            /\ cache' = resumed
         \/ cache' = Invalidated(resumed, DOMAIN cache, TRUE) /\ UNCHANGED <<batch, sync>>
  BY DEF Reconnect
<1>0. TRUE \in BOOLEAN
  OBVIOUS
<1>2. DOMAIN resumed = DOMAIN cache
  OBVIOUS
<1>3. ASSUME NEW k \in DOMAIN cache
      PROVE  /\ EntryStep(k, cache[k], resumed[k]) /\ Sound(k, resumed[k])
             /\ cache[k].fetch # "none" => resumed[k].fetch # "none"
  <2>1. Sound(k, cache[k])
    BY DEF ViewsInv, CacheInv
  <2>2. CASE cache[k].fetch = "paused" \/ (k \in Mounted /\ cache[k].fetch = None)
    <3>1. resumed[k] = Fetching(cache[k], TRUE)
      BY <2>2
    <3> HIDE DEF resumed
    <3>2. /\ EntryStep(k, cache[k], Fetching(cache[k], TRUE))
          /\ Fetching(cache[k], TRUE).fetch \in {"asked", "paused"}
      BY <1>0, <2>1, RestartedEntry
    <3> QED BY <3>1, <3>2 DEF EntryStep
  <2>3. CASE ~(cache[k].fetch = "paused" \/ (k \in Mounted /\ cache[k].fetch = None))
    <3>1. resumed[k] = cache[k]
      BY <2>3
    <3> HIDE DEF resumed
    <3> QED BY <2>1, <3>1, KeptEntry
  <2> QED BY <2>2, <2>3
<1> HIDE DEF resumed
<1>4. DOMAIN cache' = DOMAIN cache
  BY <1>1, <1>2 DEF Invalidated
<1>5. ASSUME NEW k \in DOMAIN cache
      PROVE  /\ EntryStep(k, cache[k], cache'[k])
             /\ cache[k].fetch # "none" => cache'[k].fetch # "none"
  <2>1. CASE cache' = resumed
    BY <1>3, <2>1
  <2>2. CASE cache' = Invalidated(resumed, DOMAIN cache, TRUE)
    <3>1. k \in DOMAIN resumed /\ Sound(k, resumed[k])
      BY <1>2, <1>3
    <3>2. PICK ks : ks = DOMAIN cache
      OBVIOUS
    <3>3. cache' = Invalidated(resumed, ks, TRUE)
      BY <2>2, <3>2
    <3>4. /\ EntryStep(k, resumed[k], Invalidated(resumed, ks, TRUE)[k])
          /\ resumed[k].fetch # "none" => Invalidated(resumed, ks, TRUE)[k].fetch # "none"
      BY <1>0, <3>1, InvalidatedEntry
    <3>5. /\ EntryStep(k, resumed[k], cache'[k])
          /\ resumed[k].fetch # "none" => cache'[k].fetch # "none"
      BY <3>3, <3>4
    <3> QED BY <1>3, <3>5, NextEntry
  <2> QED BY <1>1, <2>1, <2>2
<1>6. CacheInv' /\ DOMAIN cache' \subseteq AllKeys
  <2>1. \A i \in DOMAIN stack' : Keys(stack'[i]) \cup stack'[i].last \subseteq DOMAIN cache'
    BY <1>1, <1>4 DEF ViewsInv, CacheInv
  <2> QED BY <1>1, <1>4, <1>5, <2>1, CacheNext
<1>7. batch' \subseteq Nat /\ sync' \in BOOLEAN
  BY <1>1, PendingWrites DEF ViewsInv, ViewsTyped
<1>8. isOnline' \in BOOLEAN
  BY <1>1
<1>9. ViewsTyped'
  BY <1>1, <1>6, <1>7, <1>8 DEF ViewsInv, ViewsTyped
<1>10. StackInv'
  BY <1>1 DEF ViewsInv, StackInv
<1>11. QueueInv'
  <2>1. PendingMutations' = PendingMutations
    BY <1>1 DEF PendingMutations
  <2>2. batch \subseteq PendingMutations /\ (batch = {} => owner = 0 /\ ~sync)
    BY DEF ViewsInv, QueueInv
  <2>3. CASE batch = {} /\ PendingMutations # {} /\ batch' = PendingMutations
    BY <1>1, <2>1, <2>2, <2>3 DEF ViewsInv, QueueInv
  <2>4. CASE UNCHANGED <<batch, sync>>
    BY <1>1, <2>1, <2>4 DEF ViewsInv, QueueInv
  <2> QED BY <1>1, <2>3, <2>4
<1>12. AwaitsInv'
  BY <1>1, <1>4, <1>5 DEF ViewsInv, AwaitsInv
<1>13. Mounted' = Mounted
  BY <1>1 DEF Mounted, Keys
<1>14. \A w, k : Due(w, k) => Due(w, k)'
  BY <1>1 DEF Due
<1>15. \A k : Covered(k) => Covered(k)'
  BY <1>1, <1>14 DEF Covered
<1>16. ShownInv'
  BY <1>4, <1>5, <1>13, <1>15, ShownNext
<1>17. PageInv' /\ SeenInv'
  BY <1>1, <1>5, PageNext, SeenNext DEF IsDetail
<1>18. WaitsInv'
  BY <1>1 DEF ViewsInv, WaitsInv, IsDetail
<1>19. ActionInv'
  BY <1>1, <1>5, <1>14, ActionNext DEF IsDetail
<1> QED BY <1>6, <1>9, <1>10, <1>11, <1>12, <1>16, <1>17, <1>18, <1>19 DEF ViewsInv

\* The write that is answered.
Answered == CHOOSE w \in batch : \A p \in batch : w <= p

LEMMA AnsweredWrite ==
  ASSUME ViewsAssumption, ViewsInv, batch # {}
  PROVE  /\ Answered \in batch /\ Answered \in DOMAIN writes
         /\ writes[Answered].state = "pending" /\ writes[Answered].op \in Done[root]
<1>1. batch \subseteq Nat
  BY DEF ViewsInv, ViewsTyped
<1>2. \E w \in batch : \A p \in batch : w <= p
  BY <1>1, OneIsOldest
<1>3. Answered \in batch
  BY <1>2 DEF Answered
<1> QED BY <1>3 DEF ViewsInv, QueueInv, PendingMutations

Answers == {"applied", "lost", "failed", "kept"}

LEMMA SameData ==
  ASSUME NEW x \in Data, x.misses = FALSE
  PROVE  [x EXCEPT !.misses = FALSE] = x
BY DEF Data

\* Data misses what has been written, and so does an answer on its way.
LEMMA MissingEntries ==
  ASSUME ViewsAssumption, ViewsInv, NEW op, NEW k \in DOMAIN cache
  PROVE  LET d == Missing(op)[k] IN
         /\ Sound(k, d) /\ d.has = cache[k].has /\ d.fetch = cache[k].fetch
         /\ Settling(cache[k]) => Settling(d)
         /\ Query[k.query].reads \cap Hook[op].changes = {} => d = cache[k]
<1>1. Sound(k, cache[k]) /\ cache[k] \in Entries
  BY DEF ViewsInv, CacheInv, Sound
<1>2. CASE Query[k.query].reads \cap Hook[op].changes = {}
  BY <1>1, <1>2 DEF Missing
<1>3. CASE Query[k.query].reads \cap Hook[op].changes # {}
  <2> DEFINE m == cache[k].fetch = "read"
             x == [cache[k].data EXCEPT !.misses = cache[k].has]
             r == [cache[k].read EXCEPT !.misses = m]
  <2>1. Missing(op)[k] = [cache[k] EXCEPT !.data = x, !.read = r]
    BY <1>1, <1>3 DEF Missing, Entries
  <2>2. cache[k].data \in Data /\ cache[k].read \in Data /\ cache[k].has \in BOOLEAN
    BY <1>1 DEF Entries
  <2>3. m \in BOOLEAN
    OBVIOUS
  <2>4. /\ x \in Data /\ x.total = cache[k].data.total /\ x.active = cache[k].data.active
    BY <2>2 DEF Data
  <2>5. /\ r \in Data /\ r.total = cache[k].read.total /\ r.active = cache[k].read.active
    <3> HIDE DEF m
    <3> QED BY <2>2, <2>3 DEF Data
  <2>6. ~cache[k].has => x = Nothing
    <3> SUFFICES ASSUME ~cache[k].has
                 PROVE  x = Nothing
      OBVIOUS
    <3>1. cache[k].data = Nothing
      BY <1>1 DEF Sound
    <3>2. x = [cache[k].data EXCEPT !.misses = FALSE]
      BY <2>2
    <3> QED BY <2>2, <3>1, <3>2, SameData, NothingIsData
  <2>7. cache[k].fetch # "read" => r = Nothing
    <3> SUFFICES ASSUME cache[k].fetch # "read"
                 PROVE  r = Nothing
      OBVIOUS
    <3>1. cache[k].read = Nothing
      BY <1>1 DEF Sound
    <3>2. r = [cache[k].read EXCEPT !.misses = FALSE]
      OBVIOUS
    <3> QED BY <2>2, <3>1, <3>2, SameData, NothingIsData
  <2> HIDE DEF x, r, m
  <2> DEFINE d == Missing(op)[k]
  <2>8. /\ d \in Entries /\ d.has = cache[k].has /\ d.failed = cache[k].failed
        /\ d.fetch = cache[k].fetch /\ d.data = x /\ d.read = r
    BY <1>1, <2>1, <2>4, <2>5 DEF Entries
  <2> HIDE DEF d
  <2>9. Sound(k, d)
    BY <1>1, <2>4, <2>5, <2>6, <2>7, <2>8 DEF Sound
  <2>10. Settling(cache[k]) => Settling(d)
    BY <2>4, <2>5, <2>8 DEF Settling
  <2> QED BY <1>3, <2>8, <2>9, <2>10 DEF d
<1> QED BY <1>2, <1>3

\* What an answer does to the queue.
LEMMA AnsweredQueue ==
  ASSUME ViewsAssumption, ViewsInv, NEW answer \in Answers, ProcessOne(answer)
  PROVE  /\ writes' \in Seq(Writes) /\ Len(writes') = Len(writes) /\ DOMAIN writes' = DOMAIN writes
         /\ batch' \subseteq Nat /\ owner' \in Nat /\ sync' \in BOOLEAN /\ QueueInv'
         /\ \A p \in DOMAIN writes : writes[p].step # "ended" =>
              /\ writes'[p].op = writes[p].op /\ writes'[p].rows = writes[p].rows
              /\ writes'[p].left = writes[p].left
              /\ writes'[p].step \in {"asserting", writes[p].step}
              /\ writes'[p].step = writes[p].step \/ writes[p].step = "passing"
              /\ p # Answered => writes'[p].state = writes[p].state
              /\ p = Answered /\ answer = "applied" => writes'[p].state = "applied"
         /\ \A p \in DOMAIN writes : writes'[p].awaits = writes[p].awaits
<1> DEFINE state(p) == IF p = Answered /\ answer \in {"applied", "failed"} THEN answer
                       ELSE writes[p].state
           step(p) == IF writes[p].step = "passing" /\ batch' = {} THEN "asserting"
                      ELSE writes[p].step
           met(p) == [writes[p] EXCEPT !.state = state(p), !.step = step(p)]
<1>1. /\ batch # {} /\ root' = root
      /\ batch' = IF answer \in {"applied", "failed"} THEN batch \ {Answered} ELSE {}
      /\ owner' = IF batch' = {} THEN 0 ELSE owner
      /\ writes' = [p \in DOMAIN writes |-> Gone(met(p))]
      /\ sync' = (sync /\ batch' # {})
  BY DEF ProcessOne, Answered
<1>2. /\ Answered \in batch /\ Answered \in DOMAIN writes /\ writes[Answered].state = "pending"
      /\ writes[Answered].op \in Done[root]
  BY <1>1, AnsweredWrite
<1>3. /\ writes \in Seq(Writes) /\ DOMAIN writes = 1 .. Len(writes) /\ Len(writes) \in Nat
      /\ batch \subseteq Nat /\ owner \in 0 .. Len(writes) /\ sync \in BOOLEAN
  BY DEF ViewsInv, ViewsTyped, QueueInv
<1>4. ASSUME NEW p \in DOMAIN writes
      PROVE  /\ met(p) \in Writes /\ met(p).op = writes[p].op /\ met(p).rows = writes[p].rows
             /\ met(p).left = writes[p].left /\ met(p).step = step(p) /\ met(p).state = state(p)
             /\ met(p).awaits = writes[p].awaits
  <2>1. writes[p] \in Writes
    BY <1>3
  <2>2. state(p) \in {"pending", "applied", "failed", "none"}
    BY <2>1 DEF Writes
  <2>3. step(p) \in HookSteps
    BY <2>1 DEF Writes, HookSteps
  <2> HIDE DEF state, step
  <2> QED BY <2>1, <2>2, <2>3 DEF Writes
<1> HIDE DEF met
<1>5. ASSUME NEW p \in DOMAIN writes
      PROVE  /\ Gone(met(p)) \in Writes /\ Gone(met(p)).step = step(p)
             /\ Gone(met(p)).left = writes[p].left /\ Gone(met(p)).awaits = writes[p].awaits
             /\ step(p) # "ended" \/ state(p) = "pending" => Gone(met(p)) = met(p)
             /\ step(p) = "ended" /\ state(p) # "pending" => Gone(met(p)).state = "none"
  <2> HIDE DEF state, step
  <2> QED BY <1>4, GoneWrite
<1>6. /\ writes' \in Seq(Writes) /\ Len(writes') = Len(writes) /\ DOMAIN writes' = DOMAIN writes
      /\ \A p \in DOMAIN writes : writes'[p] = Gone(met(p))
  <2>1. \A p \in DOMAIN writes : writes'[p] = Gone(met(p))
    BY <1>1
  <2>2. writes' \in [1 .. Len(writes) -> Writes]
    BY <1>1, <1>3, <1>5
  <2>3. writes' \in Seq(Writes) /\ DOMAIN writes' = DOMAIN writes
    BY <1>3, <2>2
  <2>4. Len(writes') = Len(writes)
    BY <1>3, <2>3
  <2> QED BY <2>1, <2>3, <2>4
<1>7. batch' \subseteq batch \ {Answered} /\ batch' \subseteq Nat
  BY <1>1, <1>3
<1>8. sync' \in BOOLEAN
  BY <1>1, <1>3
<1>9. owner' \in 0 .. Len(writes') /\ owner' \in Nat
  BY <1>1, <1>3, <1>6
<1>10. QueueInv'
  <2>1. ASSUME NEW p \in batch'
        PROVE  p \in PendingMutations'
    <3>1. p \in batch /\ p # Answered
      BY <1>7, <2>1
    <3>2. p \in DOMAIN writes /\ writes[p].state = "pending"
      BY <3>1 DEF ViewsInv, QueueInv, PendingMutations
    <3>3. state(p) = "pending"
      BY <3>1, <3>2
    <3>4. writes'[p].state = "pending"
      BY <1>4, <1>5, <1>6, <3>2, <3>3
    <3> QED BY <1>6, <3>2, <3>4 DEF PendingMutations
  <2>2. batch' = {} => owner' = 0 /\ ~sync'
    BY <1>1
  <2>3. ASSUME NEW p \in DOMAIN writes
        PROVE  /\ writes'[p].state # "none" => writes'[p].op \in Done[root]
               /\ writes'[p].state = "none" => writes'[p].step = "ended"
               /\ writes'[p].step = "passing" <=> owner' = p
               /\ writes'[p].step = "refetching" => writes'[p].left # <<>>
    <3>1. /\ writes[p].state # "none" => writes[p].op \in Done[root]
          /\ writes[p].state = "none" => writes[p].step = "ended"
          /\ writes[p].step = "passing" <=> owner = p
          /\ writes[p].step = "refetching" => writes[p].left # <<>>
      BY DEF ViewsInv, QueueInv
    <3>2. writes'[p].step = step(p) /\ writes'[p].left = writes[p].left
      BY <1>5, <1>6, <2>3
    <3>3. p # 0
      BY <1>3, <2>3
    <3>4. writes'[p].step = "passing" <=> owner' = p
      BY <1>1, <3>1, <3>2, <3>3
    <3>5. writes'[p].step = "refetching" => writes'[p].left # <<>>
      BY <3>1, <3>2
    <3>6. CASE step(p) = "ended" /\ state(p) # "pending"
      BY <1>5, <1>6, <2>3, <3>2, <3>4, <3>5, <3>6
    <3>7. CASE step(p) # "ended" \/ state(p) = "pending"
      <4>1. writes'[p].op = writes[p].op /\ writes'[p].state = state(p)
        <5> HIDE DEF state, step
        <5> QED BY <1>4, <1>5, <1>6, <2>3, <3>7
      <4>2. state(p) = "none" => writes[p].state = "none"
        OBVIOUS
      <4>3. state(p) # "none" => writes[p].state # "none"
        BY <1>2
      <4> QED BY <3>1, <3>2, <3>4, <3>5, <4>1, <4>2, <4>3
    <3> QED BY <3>6, <3>7
  <2> QED BY <1>1, <1>6, <1>9, <2>1, <2>2, <2>3 DEF QueueInv
<1>11. ASSUME NEW p \in DOMAIN writes, writes[p].step # "ended"
       PROVE  /\ writes'[p].op = writes[p].op /\ writes'[p].rows = writes[p].rows
              /\ writes'[p].left = writes[p].left
              /\ writes'[p].step \in {"asserting", writes[p].step}
              /\ writes'[p].step = writes[p].step \/ writes[p].step = "passing"
              /\ p # Answered => writes'[p].state = writes[p].state
              /\ p = Answered /\ answer = "applied" => writes'[p].state = "applied"
  <2>1. step(p) # "ended"
    BY <1>11
  <2>2. writes'[p] = met(p)
    BY <1>5, <1>6, <1>11, <2>1
  <2> QED BY <1>4, <1>11, <2>2
<1>12. \A p \in DOMAIN writes : writes'[p].awaits = writes[p].awaits
  BY <1>5, <1>6
<1> QED BY <1>6, <1>7, <1>8, <1>9, <1>10, <1>11, <1>12

\* No hook loses what it has to invalidate.
LEMMA AnsweredHooks ==
  ASSUME ViewsAssumption, ViewsInv, NEW answer \in Answers, ProcessOne(answer),
         NEW p \in DOMAIN writes, NEW k, Due(p, k)
  PROVE  Due(p, k)'
<1>1. writes[p].step # "ended" =>
        /\ writes'[p].op = writes[p].op /\ writes'[p].left = writes[p].left
        /\ writes'[p].step \in {"asserting", writes[p].step}
        /\ writes'[p].step = writes[p].step \/ writes[p].step = "passing"
        /\ p # Answered => writes'[p].state = writes[p].state
  BY AnsweredQueue
<1>2. writes[p].state = "applied" => p # Answered
  <2>1. batch # {}
    BY DEF ProcessOne
  <2> QED BY <2>1, AnsweredWrite
<1> QED BY <1>1, <1>2 DEF Due

\* What an answer does to the cache.
LEMMA AnsweredCache ==
  ASSUME ViewsAssumption, ViewsInv, NEW answer \in Answers, ProcessOne(answer)
  PROVE  /\ DOMAIN cache' = DOMAIN cache
         /\ \A k \in DOMAIN cache :
              /\ Sound(k, cache'[k])
              /\ cache[k].has => cache'[k].has
              /\ cache[k].fetch # "none" => cache'[k].fetch # "none"
              /\ Followed \notin open /\ Settling(cache[k]) => Settling(cache'[k])
              /\ sync /\ batch' = {} =>
                   ~WillMiss(cache'[k]) /\ ~(k \in Mounted /\ Misses(cache'[k]))
              /\ ~sync /\ ~(answer = "applied" /\ owner = Answered
                          /\ Query[k.query].reads \cap Hook[writes[Answered].op].changes # {})
                   => cache'[k] = cache[k]
<1> DEFINE missed == IF answer = "applied" /\ (owner = Answered \/ sync)
                     THEN Missing(writes[Answered].op) ELSE cache
<1>1. cache' = IF sync /\ batch' = {} THEN Invalidated(missed, DOMAIN cache, isOnline) ELSE missed
  BY DEF ProcessOne, Answered
<1>2. DOMAIN missed = DOMAIN cache
  BY DEF Missing
<1>3. ASSUME NEW k \in DOMAIN cache
      PROVE  /\ Sound(k, missed[k]) /\ missed[k].has = cache[k].has
             /\ missed[k].fetch = cache[k].fetch
             /\ Settling(cache[k]) => Settling(missed[k])
  <2>1. CASE missed = cache
    <3> HIDE DEF missed
    <3> QED BY <2>1 DEF ViewsInv, CacheInv
  <2>2. CASE missed = Missing(writes[Answered].op)
    <3> HIDE DEF missed
    <3> QED BY <2>2, MissingEntries
  <2> QED BY <2>1, <2>2
<1>4. ASSUME NEW k \in DOMAIN cache, ~sync,
             ~(answer = "applied" /\ owner = Answered
               /\ Query[k.query].reads \cap Hook[writes[Answered].op].changes # {})
      PROVE  cache'[k] = cache[k]
  <2>1. cache' = missed
    BY <1>1, <1>4
  <2>2. CASE answer = "applied" /\ owner = Answered
    <3>1. Missing(writes[Answered].op)[k] = cache[k]
      BY <1>4, <2>2, MissingEntries
    <3> QED BY <2>1, <2>2, <3>1
  <2>3. CASE ~(answer = "applied" /\ owner = Answered)
    BY <1>4, <2>1, <2>3
  <2> QED BY <2>2, <2>3
<1> HIDE DEF missed
<1>5. DOMAIN cache' = DOMAIN cache
  BY <1>1, <1>2 DEF Invalidated
<1>6. ASSUME NEW k \in DOMAIN cache
      PROVE  /\ Sound(k, cache'[k])
             /\ cache[k].has => cache'[k].has
             /\ cache[k].fetch # "none" => cache'[k].fetch # "none"
             /\ Followed \notin open /\ Settling(cache[k]) => Settling(cache'[k])
             /\ sync /\ batch' = {} =>
                  ~WillMiss(cache'[k]) /\ ~(k \in Mounted /\ Misses(cache'[k]))
  <2>1. CASE sync /\ batch' = {}
    <3>1. k \in DOMAIN missed /\ Sound(k, missed[k]) /\ isOnline \in BOOLEAN
      BY <1>2, <1>3 DEF ViewsInv, ViewsTyped
    <3>2. PICK ks : ks = DOMAIN cache
      OBVIOUS
    <3>3. cache' = Invalidated(missed, ks, isOnline) /\ k \in ks
      BY <1>1, <2>1, <3>2
    <3>4. /\ EntryStep(k, missed[k], cache'[k])
          /\ missed[k].fetch # "none" => cache'[k].fetch # "none"
          /\ ~WillMiss(cache'[k]) /\ ~(k \in Mounted /\ Misses(cache'[k]))
      BY <3>1, <3>3, InvalidatedEntry
    <3> QED BY <1>3, <3>4 DEF EntryStep
  <2>2. CASE ~(sync /\ batch' = {})
    <3>1. cache'[k] = missed[k]
      BY <1>1, <2>2
    <3> QED BY <1>3, <2>2, <3>1
  <2> QED BY <2>1, <2>2
<1> QED BY <1>4, <1>5, <1>6

LEMMA ServeViews ==
  ASSUME ViewsAssumption, ViewsInv, NEW answer \in Answers, ProcessOne(answer)
  PROVE  ViewsInv'
<1> DEFINE known == answer = "applied" /\ owner = Answered
           marked(i) == [stack[i] EXCEPT
                           !.applied = stack[i].applied \/ stack[i].waits = Answered]
<1>1. /\ UNCHANGED <<root, isOnline, faults, gestures>> /\ batch # {}
      /\ open' = IF answer \in {"applied", "lost"} THEN open \ writes[Answered].rows ELSE open
      /\ stack' = IF known THEN [i \in DOMAIN stack |-> marked(i)] ELSE stack
      /\ sync' = (sync /\ batch' # {})
  BY DEF ProcessOne, Answered, world
<1>2. /\ writes' \in Seq(Writes) /\ Len(writes') = Len(writes) /\ DOMAIN writes' = DOMAIN writes
      /\ batch' \subseteq Nat /\ owner' \in Nat /\ sync' \in BOOLEAN /\ QueueInv'
      /\ \A p \in DOMAIN writes : writes[p].step # "ended" =>
           /\ writes'[p].op = writes[p].op /\ writes'[p].rows = writes[p].rows
           /\ writes'[p].left = writes[p].left
           /\ writes'[p].step \in {"asserting", writes[p].step}
           /\ writes'[p].step = writes[p].step \/ writes[p].step = "passing"
           /\ p = Answered /\ answer = "applied" => writes'[p].state = "applied"
      /\ \A p \in DOMAIN writes : writes'[p].awaits = writes[p].awaits
  BY AnsweredQueue
<1>3. /\ DOMAIN cache' = DOMAIN cache
      /\ \A k \in DOMAIN cache :
           /\ Sound(k, cache'[k])
           /\ cache[k].has => cache'[k].has
           /\ cache[k].fetch # "none" => cache'[k].fetch # "none"
           /\ Followed \notin open /\ Settling(cache[k]) => Settling(cache'[k])
           /\ sync /\ batch' = {} =>
                ~WillMiss(cache'[k]) /\ ~(k \in Mounted /\ Misses(cache'[k]))
           /\ ~sync /\ ~(answer = "applied" /\ owner = Answered
                       /\ Query[k.query].reads \cap Hook[writes[Answered].op].changes # {})
                => cache'[k] = cache[k]
  BY AnsweredCache
<1>4. /\ Answered \in DOMAIN writes /\ writes[Answered].op \in Done[root]
      /\ root \in HomeScreen
  BY <1>1, AnsweredWrite DEF ViewsInv, ViewsTyped, ViewsAssumption
<1>5. ASSUME NEW i \in DOMAIN stack
      PROVE  /\ marked(i) \in Frames /\ marked(i).screen = stack[i].screen
             /\ marked(i).page = stack[i].page /\ marked(i).filter = stack[i].filter
             /\ marked(i).waits = stack[i].waits /\ marked(i).last = stack[i].last
             /\ marked(i).applied => stack[i].applied \/ stack[i].waits = Answered
  <2>1. stack[i] \in Frames
    BY DEF ViewsInv, ViewsTyped
  <2>2. (stack[i].applied \/ stack[i].waits = Answered) \in BOOLEAN
    OBVIOUS
  <2> QED BY <2>1, <2>2 DEF Frames
<1> HIDE DEF marked
<1>6. /\ stack \in Seq(Frames) /\ DOMAIN stack = 1 .. Len(stack) /\ Len(stack) \in Nat \ {0}
  BY TopFrame DEF ViewsInv, ViewsTyped
<1>7. stack' \in Seq(Frames) /\ DOMAIN stack' = DOMAIN stack
  <2>1. CASE known
    <3>1. stack' \in [1 .. Len(stack) -> Frames]
      BY <1>1, <1>5, <1>6, <2>1
    <3> QED BY <1>6, <3>1
  <2> QED BY <1>1, <1>6, <2>1
<1>8. ASSUME NEW i \in DOMAIN stack
      PROVE  /\ stack'[i].screen = stack[i].screen /\ stack'[i].page = stack[i].page
             /\ stack'[i].filter = stack[i].filter /\ stack'[i].waits = stack[i].waits
             /\ stack'[i].last = stack[i].last
             /\ stack'[i].applied => stack[i].applied \/ (known /\ stack[i].waits = Answered)
  BY <1>1, <1>5
<1>9. \A i \in DOMAIN stack : Keys(stack'[i]) = Keys(stack[i])
  BY <1>8, SameKeys
<1>10. Mounted' = Mounted
  <2>1. ASSUME NEW k \in Mounted'
        PROVE  k \in Mounted
    <3>1. PICK i \in DOMAIN stack' : k \in Keys(stack'[i])
      BY <2>1, NextMounted
    <3>2. i \in DOMAIN stack /\ k \in Keys(stack[i])
      BY <1>7, <1>9, <3>1
    <3> QED BY <3>2, MountedKeys
  <2>2. ASSUME NEW k \in Mounted
        PROVE  k \in Mounted'
    <3>1. PICK i \in DOMAIN stack : k \in Keys(stack[i])
      BY <2>2, MountedKeys
    <3>2. i \in DOMAIN stack' /\ k \in Keys(stack'[i])
      BY <1>7, <1>9, <3>1
    <3> QED BY <3>2, NextMounted
  <2> QED BY <2>1, <2>2
<1>11. ViewsTyped'
  <2>1. open' \subseteq Items
    BY <1>1 DEF ViewsInv, ViewsTyped
  <2> QED BY <1>1, <1>2, <1>3, <1>7, <2>1 DEF ViewsInv, ViewsTyped
<1>12. StackInv'
  <2>1. ASSUME NEW i \in DOMAIN stack
        PROVE  /\ stack'[i].screen \in {"Home"} \cup Part[root']
               /\ stack'[i].waits \in 0 .. Len(writes')
               /\ stack'[i].filter \in Screen[stack'[i].screen].filters
               /\ i > 1 => stack'[i].screen \in Screen[stack'[i - 1].screen].opens
    <3>1. i > 1 => i - 1 \in DOMAIN stack
      BY <1>6, <2>1
    <3> QED BY <1>1, <1>2, <1>8, <2>1, <3>1 DEF ViewsInv, StackInv
  <2>2. stack' # <<>> /\ stack'[1].screen = "Home"
    <3>1. 1 \in DOMAIN stack /\ stack[1].screen = "Home"
      BY <1>6 DEF ViewsInv, StackInv
    <3> QED BY <1>7, <1>8, <3>1
  <2> QED BY <1>7, <2>1, <2>2 DEF StackInv
<1>13. CacheInv'
  <2>1. \A k \in DOMAIN cache' : k.query \in ShownBy[root'] /\ Sound(k, cache'[k])
    BY <1>1, <1>3 DEF ViewsInv, CacheInv
  <2>2. \A i \in DOMAIN stack' : Keys(stack'[i]) \cup stack'[i].last \subseteq DOMAIN cache'
    BY <1>3, <1>7, <1>8, <1>9 DEF ViewsInv, CacheInv
  <2> QED BY <2>1, <2>2 DEF CacheInv, Sound, Keys
<1>14. AwaitsInv'
  BY <1>2, <1>3 DEF ViewsInv, AwaitsInv
<1>15. ASSUME known
       PROVE  writes[Answered].step = "passing"
  BY <1>4, <1>15 DEF ViewsInv, QueueInv
<1>16. ASSUME known, NEW k,
              InSeq(Query[k.query].key, Hook[writes[Answered].op].refreshes)
       PROVE  \E w \in DOMAIN writes : w = Answered /\ Due(w, k)'
  <2>1. PICK w \in DOMAIN writes : w = Answered
    BY <1>4
  <2>2. /\ writes'[w].op = writes[w].op /\ writes'[w].step \in {"asserting", "passing"}
        /\ writes'[w].state = "applied"
    BY <1>2, <1>15, <1>16, <2>1
  <2>3. InSeq(Query[k.query].key, Hook[writes'[w].op].refreshes)
    BY <1>16, <2>1, <2>2
  <2>4. Due(w, k)'
    BY <2>2, <2>3 DEF Due
  <2> QED BY <2>1, <2>4
<1>17. ShownInv'
  <2>1. ASSUME NEW k \in DOMAIN cache',
               WillMiss(cache'[k]) \/ (k \in Mounted /\ Misses(cache'[k]))
        PROVE  Covered(k)'
    <3>1. k \in DOMAIN cache /\ k.query \in ShownBy[root]
      BY <1>3, <2>1 DEF ViewsInv, CacheInv
    <3>2. CASE sync
      BY <1>1, <1>3, <2>1, <3>1, <3>2 DEF Covered
    <3>3. CASE ~sync /\ known /\
               Query[k.query].reads \cap Hook[writes[Answered].op].changes # {}
      <4>1. InSeq(Query[k.query].key, Hook[writes[Answered].op].refreshes)
        BY <1>4, <3>1, <3>3, HooksCover
      <4> QED BY <1>2, <1>16, <3>3, <4>1 DEF Covered
    <3>4. CASE ~sync /\ ~(known /\
               Query[k.query].reads \cap Hook[writes[Answered].op].changes # {})
      <4>1. cache'[k] = cache[k]
        BY <1>3, <3>1, <3>4
      <4>2. Covered(k)
        BY <2>1, <3>1, <4>1 DEF ViewsInv, ShownInv
      <4>3. PICK p \in DOMAIN writes : Due(p, k)
        BY <3>4, <4>2 DEF Covered
      <4>4. Due(p, k)'
        BY <4>3, AnsweredHooks
      <4> QED BY <1>2, <4>4 DEF Covered
    <3> QED BY <3>2, <3>3, <3>4
  <2>2. \A k : WillMiss(cache[k])' <=> WillMiss(cache'[k])
    BY DEF WillMiss
  <2>3. \A k : Misses(cache[k])' <=> Misses(cache'[k])
    BY DEF Misses
  <2> QED BY <1>10, <2>1, <2>2, <2>3 DEF ShownInv
<1>18. PageInv'
  BY <1>7, <1>8, PageNext
<1>19. Answered # 0
  BY <1>4, TypedWrite DEF ViewsInv
<1>20. WaitsInv'
  <2>1. ASSUME NEW i \in DOMAIN stack', IsDetail(i)', stack'[i].waits # 0
        PROVE  /\ i \in DOMAIN stack /\ stack'[i].screen = stack[i].screen
               /\ stack'[i].waits = stack[i].waits
               /\ writes'[stack[i].waits].op = writes[stack[i].waits].op
               /\ writes'[stack[i].waits].rows = writes[stack[i].waits].rows
               /\ writes'[stack[i].waits].step # "ended"
    <3>1. /\ i \in DOMAIN stack /\ stack'[i].screen = stack[i].screen
          /\ stack'[i].waits = stack[i].waits /\ IsDetail(i) /\ stack[i].waits # 0
      BY <1>7, <1>8, <2>1 DEF IsDetail
    <3>2. PICK w \in DOMAIN writes : w = stack[i].waits
      BY <3>1 DEF ViewsInv, ViewsTyped, StackInv
    <3>3. writes[w].step # "ended"
      BY <3>1, <3>2 DEF ViewsInv, WaitsInv
    <3> QED BY <1>2, <3>1, <3>2, <3>3
  <2> QED BY <2>1, WaitsNext
<1>21. SeenInv'
  <2>1. ASSUME NEW i \in DOMAIN stack', IsDetail(i)', stack'[i].waits # 0 \/ stack'[i].applied,
               NEW k \in Keys(stack'[i])
        PROVE  cache'[k].has
    <3>1. /\ i \in DOMAIN stack /\ IsDetail(i) /\ k \in Keys(stack[i])
          /\ stack[i].waits # 0 \/ stack[i].applied
      BY <1>7, <1>8, <1>9, <1>19, <2>1 DEF IsDetail
    <3>2. k \in DOMAIN cache /\ cache[k].has
      BY <3>1 DEF ViewsInv, CacheInv, SeenInv
    <3> QED BY <1>3, <3>2
  <2> QED BY <2>1 DEF SeenInv, Keys
<1>22. ActionInv'
  <2>1. ASSUME NEW i \in DOMAIN stack', IsDetail(i)', stack'[i].applied, NEW n,
               n = stack'[i].waits
        PROVE  /\ Followed \notin open'
               /\ \A k \in Keys(stack'[i]) : Settling(cache'[k]) \/ (n # 0 /\ Due(n, k)')
    <3>1. /\ i \in DOMAIN stack /\ IsDetail(i) /\ stack'[i].waits = stack[i].waits
          /\ stack'[i].screen = stack[i].screen /\ Keys(stack'[i]) = Keys(stack[i])
      BY <1>7, <1>8, <1>9, <2>1 DEF IsDetail
    <3>2. CASE stack[i].applied
      <4>1. Followed \notin open /\ Followed \notin open'
        BY <1>1, <3>1, <3>2 DEF ViewsInv, ActionInv
      <4>2. ASSUME NEW k \in Keys(stack[i])
            PROVE  Settling(cache'[k]) \/ (n # 0 /\ Due(n, k)')
        <5>1. k \in DOMAIN cache
          BY <3>1, <4>2 DEF ViewsInv, CacheInv
        <5>2. CASE Settling(cache[k])
          BY <1>3, <4>1, <5>1, <5>2
        <5>3. CASE stack[i].waits # 0 /\ Due(stack[i].waits, k)
          <6>1. PICK w \in DOMAIN writes : w = stack[i].waits
            BY <3>1, <5>3 DEF ViewsInv, ViewsTyped, StackInv
          <6>2. Due(w, k)
            BY <5>3, <6>1
          <6>3. Due(w, k)'
            BY <6>2, AnsweredHooks
          <6>4. w = n /\ n # 0
            BY <2>1, <3>1, <5>3, <6>1
          <6>5. Due(w, k)' => Due(n, k)'
            BY <6>4 DEF Due
          <6> QED BY <6>3, <6>4, <6>5
        <5> QED BY <3>1, <3>2, <4>2, <5>2, <5>3 DEF ViewsInv, ActionInv
      <4> QED BY <3>1, <4>1, <4>2
    <3>3. CASE known /\ stack[i].waits = Answered
      <4>1. /\ writes[Answered].op \in Screen[stack[i].screen].does
            /\ writes[Answered].rows = {Followed}
        BY <1>19, <3>1, <3>3 DEF ViewsInv, WaitsInv
      <4>2. Followed \notin open'
        BY <1>1, <3>3, <4>1
      <4>3. ASSUME NEW k \in Keys(stack[i])
            PROVE  Due(n, k)'
        <5>1. k.query \in Screen[stack[i].screen].shows
          BY <4>3, FrameKeys
        <5>2. InSeq(Query[k.query].key, Hook[writes[Answered].op].refreshes)
          BY <3>1, <4>1, <5>1, Frame, Details DEF ViewsInv, IsDetail
        <5>3. PICK w \in DOMAIN writes : w = Answered /\ Due(w, k)'
          BY <1>16, <3>3, <5>2
        <5>4. w = n
          BY <2>1, <3>1, <3>3, <5>3
        <5>5. Due(w, k)' => Due(n, k)'
          BY <5>4 DEF Due
        <5> QED BY <5>3, <5>5
      <4>4. n # 0
        BY <1>19, <2>1, <3>1, <3>3
      <4> QED BY <3>1, <4>2, <4>3, <4>4
    <3> QED BY <1>8, <2>1, <3>1, <3>2, <3>3
  <2> QED BY <2>1, ActionFrames
<1> QED BY <1>2, <1>11, <1>12, <1>13, <1>14, <1>17, <1>18, <1>20, <1>21, <1>22 DEF ViewsInv

-----------------------------------------------------------------------------
(* The invariant holds.                                                    *)

LEMMA ViewsStart ==
  ASSUME ViewsAssumption, ViewsInit
  PROVE  ViewsInv
<1>1. /\ root \in Roots /\ stack = <<Mount("Home")>>
      /\ cache = [k \in {} |-> NoData]
      /\ open = Items /\ writes = <<>> /\ batch = {} /\ owner = 0 /\ sync = FALSE
      /\ isOnline = TRUE /\ faults = 0 /\ gestures = 0
  BY DEF ViewsInit
<1>2. /\ Mount("Home") \in Frames /\ Mount("Home").screen = "Home"
      /\ Mount("Home").waits = 0 /\ Mount("Home").filter = "all" /\ Mount("Home").last = {}
      /\ ~Mount("Home").applied
  <2>1. "Home" \in DOMAIN Screen /\ Screen["Home"].first \in Statuses /\ 1 \in Nat \ {0}
    BY HomeIsAMenu, ScreenNames DEF Statuses
  <2> QED BY <2>1, HomeIsAMenu DEF Mount, Frames
<1>3. /\ stack \in Seq(Frames) /\ DOMAIN stack = {1} /\ stack # <<>> /\ stack[1].screen = "Home"
      /\ stack[1].waits = 0 /\ stack[1].filter = "all" /\ stack[1].last = {}
  BY <1>1, <1>2
<1>4. DOMAIN cache = {}
  BY <1>1
<1>5. sync \in BOOLEAN
  BY <1>1
<1>6. isOnline \in BOOLEAN
  BY <1>1
<1>7. writes \in Seq(Writes) /\ DOMAIN writes = {} /\ Len(writes) = 0
  BY <1>1
<1>8. ViewsTyped
  BY <1>1, <1>3, <1>4, <1>5, <1>6, <1>7 DEF ViewsTyped
<1>9. StackInv
  <2>1. 0 \in 0 .. Len(writes) /\ ~(1 > 1)
    BY <1>7
  <2> QED BY <1>3, <2>1, HomeIsAMenu DEF StackInv
<1>10. CacheInv
  <2>1. Keys(stack[1]) = {}
    BY <1>3, HomeIsAMenu DEF Keys
  <2> QED BY <1>3, <1>4, <2>1 DEF CacheInv
<1>11. QueueInv /\ AwaitsInv
  BY <1>1, <1>7 DEF QueueInv, AwaitsInv
<1>12. ShownInv
  BY <1>4 DEF ShownInv
<1>13. PageInv /\ WaitsInv /\ SeenInv /\ ActionInv
  BY <1>3, HomeIsAMenu DEF PageInv, WaitsInv, SeenInv, ActionInv, Fixed, IsDetail
<1> QED BY <1>8, <1>9, <1>10, <1>11, <1>12, <1>13 DEF ViewsInv

LEMMA ViewsStutter ==
  ASSUME ViewsInv, UNCHANGED views
  PROVE  ViewsInv'
<1>1. UNCHANGED <<root, stack, cache, open, writes, batch, owner, sync, isOnline, faults, gestures>>
  BY DEF views, queue, world
<1>2. ViewsTyped' /\ StackInv' /\ CacheInv' /\ QueueInv' /\ AwaitsInv'
  BY <1>1 DEF ViewsInv, ViewsTyped, StackInv, CacheInv, QueueInv, AwaitsInv, PendingMutations,
     Keys, Sound
<1>3. ShownInv' /\ PageInv'
  BY <1>1 DEF ViewsInv, ShownInv, PageInv, Covered, Due, Mounted, Keys, WillMiss, Misses
<1>4. WaitsInv' /\ SeenInv' /\ ActionInv'
  BY <1>1 DEF ViewsInv, WaitsInv, SeenInv, ActionInv, Settling, Due, IsDetail, Keys
<1> QED BY <1>2, <1>3, <1>4 DEF ViewsInv

LEMMA ViewsStep ==
  ASSUME ViewsAssumption, ViewsInv, [ViewsNext]_views
  PROVE  ViewsInv'
<1>1. CASE UNCHANGED views
  BY <1>1, ViewsStutter
<1>2. CASE \E s \in DOMAIN Screen : Navigate(s)
  BY <1>2, NavigateMoves
<1>3. CASE Back
  BY <1>3, BackMoves
<1>4. CASE \E f \in Statuses : Filter(f)
  BY <1>4, FilterMoves
<1>5. CASE \E page \in 1 .. Cardinality(Items) + 1 : Turn(page)
  <2>1. PICK page \in 1 .. Cardinality(Items) + 1 : Turn(page)
    BY <1>5, SameSets
  <2>2. page \in Nat
    BY <2>1, NothingIsData
  <2> QED BY <2>1, <2>2, TurnMoves
<1>6. CASE Save
  BY <1>6, SaveMoves
<1>7. CASE \E op \in DOMAIN Hook : Act(op) \/ Deactivate(op)
  BY <1>7, ActMoves, DeactivateMoves
<1>8. CASE \E i \in Items : Ask(i)
  BY <1>8, AskMoves
<1>9. CASE Renounce
  BY <1>9, RenounceMoves
<1>10. CASE \E w \in DOMAIN writes :
              ProcessQueue(w) \/ AssertSucceeded(w) \/ Refreshed(w) \/ Finish(w)
  BY <1>10, HookProcessMoves, AssertMoves, RefreshedMoves, FinishMoves
<1>11. CASE TimerFires
  BY <1>11, TimerMoves
<1>12. CASE \E answer \in {"applied", "lost", "failed", "kept"} : ProcessOne(answer)
  BY <1>12, ServeViews DEF Answers
<1>13. CASE Disconnect \/ Reconnect
  BY <1>13, DisconnectMoves, ReconnectMoves
<1>14. CASE \E k \in DOMAIN cache : Answer(k) \/ Receive(k) \/ FailToFetch(k)
  BY <1>14, AnswerMoves, ReceiveMoves, FailMoves
<1> QED
  BY <1>1, <1>2, <1>3, <1>4, <1>5, <1>6, <1>7, <1>8, <1>9, <1>10, <1>11, <1>12, <1>13, <1>14
  DEF ViewsNext

LEMMA ViewsInvariant == ViewsSpec => []ViewsInv
<1>1. ViewsInit => ViewsInv
  BY ViewsAssumption, ViewsStart
<1>2. ViewsInv /\ [ViewsNext]_views => ViewsInv'
  BY ViewsAssumption, ViewsStep
<1> QED BY <1>1, <1>2, PTL DEF ViewsSpec

-----------------------------------------------------------------------------
(* What the screens show.                                                  *)

\* Screens, keys and mutations keep their shape for any screens of Home, rows and bounds: the
\* stack is a way down from Home, what has not been read is nothing, hooks, passes and screens
\* refer to mutations that exist, and a hook awaits fetches that are not over.
THEOREM ViewsTypes == ViewsSpec => []ViewsOK
<1>1. ASSUME ViewsInv
      PROVE  ViewsOK
  <2>1. ASSUME NEW i \in DOMAIN stack
        PROVE  /\ stack[i].asking \subseteq Items
               /\ stack[i].last \subseteq DOMAIN cache
               /\ i > 1 => stack[i].screen \in Screen[stack[i - 1].screen].opens
    <3>1. stack[i] \in Frames
      BY <1>1 DEF ViewsInv, ViewsTyped
    <3> QED BY <1>1, <3>1 DEF Frames, ViewsInv, CacheInv, StackInv
  <2>2. ASSUME NEW k \in DOMAIN cache
        PROVE  /\ k.query \in Queries /\ k.filter \in Statuses /\ k.page \in Nat \ {0}
               /\ cache[k].fetch \in {None, "paused", "asked", "read"}
               /\ cache[k].data.active \cup cache[k].read.active \subseteq Items
               /\ ~cache[k].has => cache[k].data = Nothing
               /\ cache[k].fetch # "read" => cache[k].read = Nothing
    <3>1. k \in AllKeys /\ cache[k] \in Entries /\ Sound(k, cache[k])
      BY <1>1 DEF ViewsInv, ViewsTyped, CacheInv, Sound
    <3>2. cache[k].data \in Data /\ cache[k].read \in Data
      BY <3>1 DEF Entries
    <3>3. cache[k].fetch \in {None, "paused", "asked", "read"}
      BY <3>1 DEF Entries, None
    <3> QED BY <3>1, <3>2, <3>3 DEF AllKeys, Data, Sound
  <2>3. \A w \in DOMAIN writes : writes[w].step \in HookSteps
    BY <1>1, TypedWrite DEF ViewsInv
  <2>4. \A w \in DOMAIN writes : \A k \in writes[w].awaits :
          k \in DOMAIN cache /\ cache[k].fetch # None
    BY <1>1 DEF ViewsInv, AwaitsInv, None
  <2>5. Mounted \subseteq DOMAIN cache
    BY <1>1, MountedIsCached DEF ViewsInv
  <2>6. /\ root \in Roots /\ open \subseteq Items
        /\ stack # <<>> /\ stack[1].screen = "Home"
        /\ \A i \in DOMAIN stack : /\ stack[i].waits \in 0 .. Len(writes)
                                   /\ stack[i].filter \in Screen[stack[i].screen].filters
        /\ batch \subseteq PendingMutations /\ (batch = {} => owner = 0 /\ ~sync)
    BY <1>1 DEF ViewsInv, ViewsTyped, StackInv, QueueInv
  <2> QED BY <2>1, <2>2, <2>3, <2>4, <2>5, <2>6 DEF HookSteps, ViewsOK
<1> QED BY <1>1, ViewsInvariant, PTL

\* For any screens of Home, rows and bounds, once hooks, passes and fetches have come to rest a
\* screen that shows data without a write of this user that has been seen through says that it
\* could not be read again, or shows what the server had answered before the key was invalidated:
\* what each of the 18 hooks changes is read, on the screens it may be called from, under keys it
\* invalidates, and every answer on its way is then given again or known to be late.
THEOREM ViewsShowWrites == ViewsSpec => []OwnWritesAreShown
<1>1. ASSUME ViewsInv
      PROVE  OwnWritesAreShown
  <2>1. SUFFICES ASSUME AtRest, NEW k \in Mounted, cache[k].data.misses
                 PROVE  cache[k].failed \/ cache[k].data.late
    BY DEF OwnWritesAreShown
  <2>2. k \in DOMAIN cache /\ cache[k].fetch = "none"
    <3>1. k \in DOMAIN cache
      BY <1>1, MountedIsCached DEF ViewsInv
    <3> QED BY <2>1, <3>1 DEF AtRest, None
  <2>3. ~Covered(k)
    BY <2>1 DEF AtRest, Covered, Due
  <2> QED BY <1>1, <2>1, <2>2, <2>3 DEF ViewsInv, ShownInv, Misses
<1> QED BY <1>1, ViewsInvariant, PTL

\* For any screens of Home, rows and bounds, a list that is not being read is on a page of the
\* total it shows, or has another filter to leave by.
THEOREM ListsAreLeft == ViewsSpec => []NobodyIsStranded
<1>1. ASSUME ViewsInv
      PROVE  NobodyIsStranded
  <2>1. SUFFICES ASSUME On("list"), Screen[Top.screen].filters = {Top.filter},
                        cache[Listed(Top)].has
                 PROVE  Top.page <= Pages(cache[Listed(Top)].data.total)
    BY DEF NobodyIsStranded
  <2>2. Len(stack) \in DOMAIN stack /\ Top = stack[Len(stack)] /\ Top \in Frames
    BY ViewsAssumption, <1>1, TopFrame DEF ViewsInv
  <2>3. Screen[Top.screen].filters = {"all"} /\ Top.filter = "all"
    <3>1. Top.screen \in DOMAIN Screen
      BY <2>2 DEF Frames
    <3> QED BY <2>1, <3>1, ListFilters DEF On
  <2>4. Listed(Top) \in Keys(Top)
    BY <2>1, <2>2, OneKey DEF On
  <2>5. Listed(Top) \in DOMAIN cache /\ Listed(Top).filter = "all"
    BY <1>1, <2>2, <2>3, <2>4, FrameKeys DEF ViewsInv, CacheInv
  <2>6. cache[Listed(Top)].data.total = Cardinality(Items)
    BY <1>1, <2>1, <2>5, SameSets DEF ViewsInv, CacheInv, Sound
  <2>7. Top.page <= Cardinality(Items)
    BY <1>1, <2>1, <2>2, <2>3, SameSets DEF ViewsInv, PageInv, Fixed, On
  <2>8. Cardinality(Items) # 0
    BY ViewsAssumption, NothingIsData
  <2> QED BY <2>6, <2>7, <2>8 DEF Pages
<1> QED BY <1>1, ViewsInvariant, PTL

\* For any screens of Home, rows and bounds, a detail whose action has been applied queues no
\* mutation, before its document is read again or after, unless that read waits for the network.
THEOREM DetailsActOnce == ViewsSpec => ActionsAreNotRepeated
<1> DEFINE Once ==
      \A w \in DOMAIN writes' \ DOMAIN writes :
        On("detail") /\ Top.applied => \E k \in Keys(Top) : cache[k].fetch = "paused"
<1>1. ASSUME ViewsInv, [ViewsNext]_views
      PROVE  Once
  <2>1. CASE Save \/ \E op \in DOMAIN Hook : Deactivate(op)
    BY <2>1 DEF Save, Deactivate, On
  <2>2. CASE \E op \in DOMAIN Hook : Act(op)
    <3>1. /\ On("detail") /\ Top.waits = 0
          /\ \A k \in Keys(Top) : ShowsOpen(k) /\ ~IsFetching(k)
      BY <2>2 DEF Act
    <3> QED BY ViewsAssumption, <1>1, <3>1, OffersOnce
  <2>3. CASE \E answer \in {"applied", "lost", "failed", "kept"} : ProcessOne(answer)
    BY ViewsAssumption, <1>1, <2>3, AnsweredQueue DEF Answers
  <2>4. CASE \/ \E w \in DOMAIN writes :
                  ProcessQueue(w) \/ AssertSucceeded(w) \/ Refreshed(w) \/ Finish(w)
             \/ \E k \in DOMAIN cache : Receive(k) \/ FailToFetch(k)
    <3>1. DOMAIN writes' = DOMAIN writes
      BY <2>4, ZenonT(40) DEF ProcessQueue, AssertSucceeded, Refreshed, Refresh, Finish,
         Receive, FailToFetch, Settles
    <3> QED BY <3>1, SMTT(30)
  <2>5. CASE UNCHANGED views
    BY <2>5 DEF views, queue
  <2>6. CASE \/ \E s \in DOMAIN Screen : Navigate(s)
             \/ Back
             \/ \E f \in Statuses : Filter(f)
             \/ \E page \in 1 .. Cardinality(Items) + 1 : Turn(page)
             \/ \E i \in Items : Ask(i)
             \/ Renounce \/ TimerFires \/ Disconnect \/ Reconnect
             \/ \E k \in DOMAIN cache : Answer(k)
    <3>1. UNCHANGED writes
      BY <2>6 DEF Navigate, Back, Filter, Turn, Rekey, Ask, Renounce, TimerFires,
         Disconnect, Reconnect, Answer, queue
    <3> QED BY <3>1
  <2> QED BY <1>1, <2>1, <2>2, <2>3, <2>4, <2>5, <2>6 DEF ViewsNext
<1>2. ViewsInv /\ [ViewsNext]_views => [Once]_views
  BY <1>1
<1>3. ViewsSpec => [][Once]_views
  BY <1>2, ViewsInvariant, PTL DEF ViewsSpec
<1> QED BY <1>3 DEF ActionsAreNotRepeated
=============================================================================
