----------------------------- MODULE MobileForms -----------------------------
(***************************************************************************)
(* The forms of the mobile application (apps/mobile/src/screens, the       *)
(* schemas of packages/validation): what is typed, what is shown, what     *)
(* is put in the offline queue, and when a form closes.  One form is open  *)
(* at a time; a form that has been left goes on waiting for its mutation.  *)
(* The queue is seen from the forms: a pass takes the pending mutations    *)
(* one by one and each is done, refused or kept.                           *)
(*                                                                         *)
(* Numbers count halves, so that a fraction can be typed.  One optional    *)
(* field stands for all those of a form.                                   *)
(***************************************************************************)
EXTENDS Integers, Sequences, FiniteSets, SequencesExt

CONSTANTS
  Offered,      \* forms that may be opened
  Options,      \* what the pickers may list
  Typed,        \* numbers that are typed, in halves
  MaxLines,     \* bound on the lines of a form
  MaxMutations, \* bounds, for each form, on the mutations queued,
  MaxOpenings,  \*   the times it is opened
  MaxKeys,      \*   and the inputs of an opening
  MaxChanges    \* bound on what other users change

ASSUME FormsAssumption ==
  /\ Typed \subseteq Int /\ 0 \in Typed
  /\ MaxLines \in Nat /\ MaxChanges \in Nat
  /\ \A bound \in {MaxMutations, MaxOpenings, MaxKeys} : \A n \in Offered : bound[n] \in Nat
  /\ Options \cap {"unset", "blank"} = {}

VARIABLES
  subject,   \* the form a behaviour is about
  form,      \* the form on the screen
  opening,   \* how many forms have been opened
  typed,     \* the fields the user has typed in since the form shows what it shows
  keys,      \* how many inputs the form has had
  listed,    \* the options of the pickers, as the device has them
  active,    \* those the server has
  rows,      \* mutations queued, each with the closure of the hook that waits for it
  pass,      \* what is left of the batch of the pass under way; empty when there is none
  online,    \* onlineManager.isOnline()
  loaded,    \* the fiche in the query cache
  record,    \* the fiche of the server
  changes

input == <<typed, keys>>
lists == <<listed, active>>
fiche == <<loaded, record>>
vars == <<subject, form, opening, input, lists, rows, pass, online, fiche, changes>>

Unset == "unset"   \* undefined in a form
Null == "null"     \* null in a fiche
NoFiche == [missing |-> TRUE]

-----------------------------------------------------------------------------
(* What the schemas accept.                                                *)

\* The values of a field each kind of rule refuses; "malformed" stands for what its format
\* excludes: an email, a code, a negative, fractional or unreadable number.
Refused(rule) ==
  CASE rule = "required" -> {Unset, "blank"}
    [] rule = "optional" -> {"blank"}
    [] rule = "email"    -> {"blank", "malformed"}
    [] rule = "code"     -> {Unset, "blank", "malformed"}
    [] rule = "amount"   -> {Unset, "malformed"}
    [] rule = "rate"     -> {"malformed"}
    [] rule = "choice"   -> {}

CustomerSchema ==
  [name |-> "required", email |-> "email", phone |-> "optional", country |-> "required"]

SupplierSchema ==
  [name |-> "required", email |-> "email", phone |-> "optional", country |-> "required"]

ProductSchema ==
  [code |-> "required", price |-> "amount", rate |-> "rate", barcode |-> "optional"]

AccountSchema == [code |-> "code", label |-> "required"]

SaleSchema == [party |-> "required", notes |-> "optional"]
PurchaseSchema == [party |-> "required", notes |-> "optional"]
MovementSchema == [party |-> "required", type |-> "choice", note |-> "optional"]
EntrySchema == [description |-> "required", reference |-> "optional"]
InvoiceSchema == [party |-> "required"]

IsWhole(n) == n % 2 = 0

SaleLine(line) == line.pick # "blank" /\ IsWhole(line.first) /\ line.first >= 2

PurchaseLine(line) ==
  /\ line.pick # "blank"
  /\ IsWhole(line.first) /\ line.first >= 2
  /\ IsWhole(line.second) /\ line.second >= 0

\* The quantity of a movement; its product is a field.
MovementLine(type, line) ==
  /\ IsWhole(line.first)
  /\ IF type = "ADJUSTMENT" THEN line.first # 0 ELSE line.first > 0

EntryLine(line) ==
  /\ line.pick # "blank"
  /\ IsWhole(line.first) /\ IsWhole(line.second)
  /\ line.first >= 0 /\ line.second >= 0
  /\ (line.first > 0) # (line.second > 0)

Total(lines, side) == FoldSeq(LAMBDA l, sum : l[side] + sum, 0, lines)

EntryBalances(lines) ==
  /\ Len(lines) >= 2
  /\ Total(lines, "first") = Total(lines, "second") /\ Total(lines, "first") > 0

-----------------------------------------------------------------------------
(* The forms.  Each is what it starts with, what it edits and what its     *)
(* lines are; a fiche is edited under an id, the others are only created.  *)

EmptyLine == [pick |-> "blank", first |-> 0, second |-> 0]

ClientForm ==
  [schema |-> CustomerSchema, edits |-> TRUE, empty |-> <<>>, least |-> 0,
   fields |-> [name |-> "blank", email |-> Unset, phone |-> Unset, country |-> "default"]]

SupplierForm ==
  [schema |-> SupplierSchema, edits |-> TRUE, empty |-> <<>>, least |-> 0,
   fields |-> [name |-> "blank", email |-> Unset, phone |-> Unset, country |-> "default"]]

ProductForm ==
  [schema |-> ProductSchema, edits |-> TRUE, empty |-> <<>>, least |-> 0,
   fields |-> [code |-> "blank", price |-> "default", rate |-> "default", barcode |-> Unset]]

AccountForm ==
  [schema |-> AccountSchema, edits |-> FALSE, empty |-> <<>>, least |-> 0,
   fields |-> [code |-> "blank", label |-> "blank"]]

SaleForm ==
  [schema |-> SaleSchema, edits |-> FALSE, least |-> 1,
   empty |-> <<[EmptyLine EXCEPT !.first = 2]>>,
   fields |-> [party |-> "blank", notes |-> Unset]]

PurchaseForm ==
  [schema |-> PurchaseSchema, edits |-> FALSE, least |-> 1,
   empty |-> <<[EmptyLine EXCEPT !.first = 2]>>,
   fields |-> [party |-> "blank", notes |-> Unset]]

MovementForm ==
  [schema |-> MovementSchema, edits |-> FALSE, empty |-> <<EmptyLine>>, least |-> 1,
   fields |-> [party |-> "blank", type |-> "IN", note |-> Unset]]

EntryForm ==
  [schema |-> EntrySchema, edits |-> FALSE, empty |-> <<EmptyLine, EmptyLine>>, least |-> 2,
   fields |-> [description |-> "blank", reference |-> Unset]]

InvoiceForm ==
  [schema |-> InvoiceSchema, edits |-> FALSE, empty |-> <<>>, least |-> 0,
   fields |-> [party |-> "blank"]]

FormOf ==
  [client |-> ClientForm, supplier |-> SupplierForm, product |-> ProductForm,
   account |-> AccountForm, sale |-> SaleForm, purchase |-> PurchaseForm,
   movement |-> MovementForm, entry |-> EntryForm, invoice |-> InvoiceForm]

ASSUME OfferedAssumption == Offered \subseteq DOMAIN FormOf

Fiches == {n \in DOMAIN FormOf : FormOf[n].edits}

\* Faulty variant: the country of a fiche is left at its default.
ToFormValuesWithDefaults(f) ==
  [x \in DOMAIN f |-> IF f[x] = Null THEN Unset ELSE IF x = "country" THEN "default" ELSE f[x]]

\* toFormValues.
ToFormValues(f) == [x \in DOMAIN f |-> IF f[x] = Null THEN Unset ELSE f[x]]

LineIsAccepted(n, fields, line) ==
  CASE n = "sale"     -> SaleLine(line)
    [] n = "purchase" -> PurchaseLine(line)
    [] n = "movement" -> MovementLine(fields.type, line)
    [] n = "entry"    -> EntryLine(line)

\* zodResolver.
IsAccepted(n, fields, lines) ==
  /\ \A x \in DOMAIN fields : fields[x] \notin Refused(FormOf[n].schema[x])
  /\ Len(lines) >= FormOf[n].least
  /\ \A i \in DOMAIN lines : LineIsAccepted(n, fields, lines[i])
  /\ n = "entry" => EntryBalances(lines)

\* The totals under the form, and the button they enable.
Balanced(lines) ==
  /\ Total(lines, "first") = Total(lines, "second")
  /\ Total(lines, "first") > 0

CanPress(f) == ~f.saving /\ (f.name = "entry" => Balanced(f.lines))

\* The body of the mutation: what is undefined is not in it, but for a rate, which has a default.
Body(n, fields) ==
  [x \in DOMAIN fields |->
     IF fields[x] = Unset /\ FormOf[n].schema[x] = "rate" THEN "default" ELSE fields[x]]

Patched(f, body) == [x \in DOMAIN f |-> IF body[x] = Unset THEN f[x] ELSE body[x]]

-----------------------------------------------------------------------------
Closed == [name |-> "none"]
IsOpen == form # Closed
Close == form' = Closed /\ typed' = {} /\ keys' = 0
StayOpen(f) == form' = f /\ UNCHANGED input

\* The fiche edited: an email that is not known, and the other fields set.
Stored(n) == [x \in DOMAIN FormOf[n].fields |-> IF x = "email" THEN Null ELSE "a"]

Init ==
  /\ subject \in Offered
  /\ form = Closed /\ opening = 0
  /\ typed = {} /\ keys = 0
  /\ listed = Options /\ active = Options
  /\ rows = <<>> /\ pass = {}
  /\ online \in BOOLEAN
  /\ record = IF subject \in Fiches THEN Stored(subject) ELSE NoFiche
  /\ loaded \in {NoFiche, record}
  /\ changes = 0

\* A form is opened empty, or with the fiche that is in the cache.
Open(editing) ==
  /\ ~IsOpen /\ opening < MaxOpenings[subject]
  /\ editing => subject \in Fiches
  /\ opening' = opening + 1
  /\ form' = [name |-> subject, editing |-> editing, opening |-> opening + 1, saving |-> FALSE,
              error |-> FALSE, sign |-> 1, lines |-> FormOf[subject].empty,
              fields |-> IF editing /\ loaded # NoFiche
                         THEN ToFormValues(loaded) ELSE FormOf[subject].fields]
  /\ typed' = {} /\ keys' = 0
  /\ UNCHANGED <<subject, lists, rows, pass, online, fiche, changes>>

-----------------------------------------------------------------------------
(* Inputs.                                                                 *)

Input ==
  /\ IsOpen /\ keys < MaxKeys[subject]
  /\ keys' = keys + 1
  /\ UNCHANGED <<subject, opening, lists, rows, pass, online, fiche, changes>>

Fill(x, v) ==
  /\ form' = [form EXCEPT !.fields[x] = v]
  /\ typed' = typed \cup {x}

SetLine(i, line) ==
  /\ form' = [form EXCEPT !.lines[i] = line]
  /\ UNCHANGED typed

\* FormTextField: the text as it is, the empty one included.
TypeText(x, v) ==
  /\ Input
  /\ x \in DOMAIN form.fields
  /\ FormOf[form.name].schema[x] \in {"required", "optional", "email", "code"}
  /\ x # "party"
  /\ v \in {"blank", "b", "malformed"}
  /\ v = "malformed" => FormOf[form.name].schema[x] \in {"email", "code"}
  /\ Fill(x, v)

\* FormNumberField: undefined for an empty text, or else Number of it, readable or not.
TypeNumber(x, v) ==
  /\ Input
  /\ x \in DOMAIN form.fields
  /\ FormOf[form.name].schema[x] \in {"amount", "rate"}
  /\ v \in {Unset, "malformed", "b"}
  /\ Fill(x, v)

\* The pickers list what the device has of the first hundred rows: the active customers,
\* suppliers and products, the confirmed sales, the products with a stock, the accounts.
PickParty(o) ==
  /\ Input
  /\ form.name \in {"sale", "invoice", "purchase", "movement"}
  /\ o \in listed
  /\ Fill("party", o)

PickSupplier(o) == form.name = "purchase" /\ PickParty(o)
PickTracked(o) == form.name = "movement" /\ PickParty(o)
PickSale(o) == form.name = "invoice" /\ PickParty(o)
PickCustomer(o) == form.name = "sale" /\ PickParty(o)

PickInLine(i, o) ==
  /\ Input
  /\ i \in DOMAIN form.lines /\ o \in listed
  /\ SetLine(i, [form.lines[i] EXCEPT !.pick = o])

PickProduct(i, o) == form.name = "sale" /\ PickInLine(i, o)
PickPurchased(i, o) == form.name = "purchase" /\ PickInLine(i, o)
PickAccount(i, o) == form.name = "entry" /\ PickInLine(i, o)

Magnitude(n) == IF n < 0 THEN -n ELSE n
Whole(n) == 2 * (Magnitude(n) \div 2)

\* The number fields of lines: nothing for what is not a number, else the whole part of its
\* magnitude; an empty text is zero.
TypeQuantity(i, n) ==
  /\ form.name \in {"sale", "purchase"} /\ Input
  /\ i \in DOMAIN form.lines
  /\ SetLine(i, [form.lines[i] EXCEPT !.first = Whole(n)])

TypeUnitCost(i, n) ==
  /\ form.name = "purchase" /\ Input
  /\ i \in DOMAIN form.lines
  /\ SetLine(i, [form.lines[i] EXCEPT !.second = Whole(n)])

TypeAmount(i, side, n) ==
  /\ form.name = "entry" /\ Input
  /\ i \in DOMAIN form.lines
  /\ SetLine(i, [form.lines[i] EXCEPT ![side] = Whole(n)])

AddLine ==
  /\ Input
  /\ form.name \in {"sale", "purchase", "entry"} /\ Len(form.lines) < MaxLines
  /\ form' = [form EXCEPT !.lines = Append(@, Head(FormOf[form.name].empty))]
  /\ UNCHANGED typed

RemoveLine(i) ==
  /\ Input
  /\ i \in DOMAIN form.lines /\ Len(form.lines) > FormOf[form.name].least
  /\ form' = [form EXCEPT !.lines = RemoveAt(@, i)]
  /\ UNCHANGED typed

\* Faulty variant: the sign of a correction outlives it.
ChooseTypeOnly(type) ==
  /\ form.name = "movement" /\ Input
  /\ form' = [form EXCEPT !.fields.type = type]
  /\ typed' = typed \cup {"type"}

\* The type of a movement; only a correction has a sign.
ChooseType(type) ==
  /\ form.name = "movement" /\ Input
  /\ form' = IF type = "ADJUSTMENT"
             THEN [form EXCEPT !.fields.type = type]
             ELSE [form EXCEPT !.fields.type = type, !.sign = 1,
                               !.lines[1].first = Magnitude(@)]
  /\ typed' = typed \cup {"type"}

ChooseSign(s) ==
  /\ form.name = "movement" /\ Input
  /\ form.fields.type = "ADJUSTMENT"
  /\ form' = [form EXCEPT !.sign = s, !.lines[1].first = s * Magnitude(@)]
  /\ UNCHANGED typed

\* The quantity of a movement is not truncated.
TypeMovementQuantity(n) ==
  /\ form.name = "movement" /\ Input
  /\ SetLine(1, [form.lines[1] EXCEPT !.first =
                   IF form.fields.type = "ADJUSTMENT"
                   THEN form.sign * Magnitude(n) ELSE Magnitude(n)])

-----------------------------------------------------------------------------
(* Saving: handleSubmit, the hook of lib/queries, the queue.               *)

Pending(r) == rows[r].state = "pending"

\* The row is inserted; what follows depends on whether the device was online.
Submit ==
  /\ IsOpen /\ CanPress(form) /\ Len(rows) < MaxMutations[subject]
  /\ IsAccepted(form.name, form.fields, form.lines)
  /\ rows' = Append(rows,
       [name |-> form.name, editing |-> form.editing, opening |-> form.opening,
        fields |-> Body(form.name, form.fields), lines |-> form.lines,
        base |-> IF form.editing THEN loaded ELSE NoFiche, typed |-> typed,
        state |-> "pending", online |-> online,
        step |-> IF online THEN "queued" ELSE "asserting"])
  /\ form' = [form EXCEPT !.saving = TRUE, !.error = FALSE]
  /\ UNCHANGED <<subject, opening, input, lists, pass, online, fiche, changes>>

\* processQueue: a pass over the pending rows, unless one is under way.
Process(r) ==
  /\ rows[r].step = "queued"
  /\ IF pass = {}
     THEN /\ pass' = {p \in DOMAIN rows : Pending(p)}
          /\ rows' = [rows EXCEPT ![r].step = IF pass' = {} THEN "asserting" ELSE "passing"]
     ELSE rows' = [rows EXCEPT ![r].step = "asserting"] /\ UNCHANGED pass
  /\ UNCHANGED <<subject, form, opening, input, lists, online, fiche, changes>>

\* A pass that no form waits for: the sync engine's, or a backoff timer's.
Replay ==
  /\ online /\ pass = {}
  /\ pass' = {p \in DOMAIN rows : Pending(p)} /\ pass' # {}
  /\ UNCHANGED <<subject, form, opening, input, lists, rows, online, fiche, changes>>

\* What no replay will read again is forgotten.
Settled(row) == [row EXCEPT !.fields = <<>>, !.lines = <<>>, !.base = NoFiche, !.typed = {}]

Oldest == CHOOSE r \in pass : \A p \in pass : r <= p

\* The oldest row of the pass is answered: applied, refused, or kept for another pass, what
\* was applied included when its answer is lost; a row that is kept ends the pass.
Serve(applied, state) ==
  /\ pass # {}
  /\ LET r == Oldest IN
       /\ (state = "failed") => ~applied
       /\ (state = "done") => applied
       /\ pass' = IF state = "pending" THEN {} ELSE pass \ {r}
       /\ rows' = [p \in DOMAIN rows |->
                     [(IF p = r /\ state # "pending" THEN Settled(rows[p]) ELSE rows[p])
                        EXCEPT !.state = IF p = r THEN state ELSE @,
                               !.step = IF @ = "passing" /\ pass' = {}
                                        THEN "asserting" ELSE @]]
       /\ record' = IF applied /\ rows[r].editing THEN Patched(record, rows[r].fields) ELSE record
  /\ UNCHANGED <<subject, form, opening, input, lists, online, loaded, changes>>

\* The form that has sent the row is still open.
IsShown(r) == IsOpen /\ form.opening = rows[r].opening

\* Faulty variant: a row that is still pending is taken for a refused one.
ReturnWhenDone(r) ==
  /\ rows[r].step = "asserting"
  /\ rows' = [rows EXCEPT ![r].step = "returned"]
  /\ IF rows[r].online /\ rows[r].state # "done"
     THEN StayOpen(IF IsShown(r) THEN [form EXCEPT !.saving = FALSE, !.error = TRUE] ELSE form)
     ELSE Close
  /\ UNCHANGED <<subject, opening, lists, pass, online, fiche, changes>>

\* assertMutationSucceeded: only a row that has failed is an error, shown by the form if it is
\* still open.  Otherwise navigation.goBack leaves the screen on top: the form, or the one opened
\* since, when the user has left it during the await.
Return(r) ==
  /\ rows[r].step = "asserting"
  /\ rows' = [rows EXCEPT ![r].step = "returned"]
  /\ IF rows[r].online /\ rows[r].state = "failed"
     THEN StayOpen(IF IsShown(r) THEN [form EXCEPT !.saving = FALSE, !.error = TRUE] ELSE form)
     ELSE Close
  /\ UNCHANGED <<subject, opening, lists, pass, online, fiche, changes>>

Leave ==
  /\ IsOpen
  /\ Close
  /\ UNCHANGED <<subject, opening, lists, rows, pass, online, fiche, changes>>

-----------------------------------------------------------------------------
(* What happens around a form.                                             *)

\* The fiche is read again; useForm's values start over when it has changed.
Refetch ==
  /\ online /\ loaded # record
  /\ loaded' = record
  /\ IF IsOpen /\ form.editing
     THEN form' = [form EXCEPT !.fields = ToFormValues(record)] /\ typed' = {}
     ELSE UNCHANGED <<form, typed>>
  /\ UNCHANGED <<subject, opening, keys, lists, rows, pass, online, record, changes>>

\* Another user changes a field of the fiche, or archives an option.
ChangeFiche(x) ==
  /\ changes < MaxChanges /\ record # NoFiche
  /\ x \in DOMAIN record
  /\ record' = [record EXCEPT ![x] = "c"]
  /\ changes' = changes + 1
  /\ UNCHANGED <<subject, form, opening, input, lists, rows, pass, online, loaded>>

Archive(o) ==
  /\ changes < MaxChanges /\ o \in active
  /\ active' = active \ {o}
  /\ changes' = changes + 1
  /\ UNCHANGED <<subject, form, opening, input, listed, rows, pass, online, fiche>>

RefetchOptions ==
  /\ online /\ listed # active
  /\ listed' = active
  /\ UNCHANGED <<subject, form, opening, input, active, rows, pass, online, fiche, changes>>

ToggleNetwork ==
  /\ online' = ~online
  /\ UNCHANGED <<subject, form, opening, input, lists, rows, pass, fiche, changes>>

-----------------------------------------------------------------------------
Lines == 1 .. MaxLines
Names == DOMAIN FormOf[subject].fields

Inputs ==
  \/ \E x \in Names : \E v \in {Unset, "blank", "malformed", "b"} :
       TypeText(x, v) \/ TypeNumber(x, v)
  \/ \E o \in Options :
       \/ PickCustomer(o) \/ PickSupplier(o) \/ PickTracked(o) \/ PickSale(o)
       \/ \E i \in Lines : PickProduct(i, o) \/ PickPurchased(i, o) \/ PickAccount(i, o)
  \/ \E i \in Lines : \E n \in Typed :
       \/ TypeQuantity(i, n) \/ TypeUnitCost(i, n)
       \/ \E side \in {"first", "second"} : TypeAmount(i, side, n)
  \/ AddLine
  \/ \E i \in Lines : RemoveLine(i)
  \/ \E type \in {"IN", "OUT", "ADJUSTMENT"} : ChooseType(type)
  \/ \E s \in {1, -1} : ChooseSign(s)
  \/ \E n \in Typed : TypeMovementQuantity(n)

Next ==
  \/ \E editing \in BOOLEAN : Open(editing)
  \/ Inputs
  \/ Submit
  \/ \E r \in DOMAIN rows : Process(r) \/ Return(r)
  \/ Replay
  \/ \E applied \in BOOLEAN : \E state \in {"done", "failed", "pending"} : Serve(applied, state)
  \/ Leave
  \/ Refetch
  \/ \E x \in Names : ChangeFiche(x)
  \/ \E o \in Options : Archive(o)
  \/ RefetchOptions
  \/ ToggleNetwork

Spec == Init /\ [][Next]_vars

-----------------------------------------------------------------------------
(* Properties.                                                             *)

LineOK == [pick : Options \cup {"blank"}, first : Int, second : Int]

\* Every form, mutation and fiche has its shape; a form keeps the lines it starts with at least.
TypeOK ==
  /\ IsOpen =>
       /\ form.name = subject /\ form.opening = opening
       /\ form.sign \in {1, -1} /\ {form.editing, form.saving, form.error} \subseteq BOOLEAN
       /\ Len(form.lines) >= FormOf[subject].least
       /\ \A i \in DOMAIN form.lines : form.lines[i] \in LineOK
  /\ typed \subseteq Names
  /\ pass \subseteq DOMAIN rows
  /\ \A r \in DOMAIN rows :
       /\ rows[r].state \in {"pending", "done", "failed"}
       /\ rows[r].step \in {"queued", "passing", "asserting", "returned"}
       /\ rows[r].step = "passing" => pass # {}
  /\ listed \subseteq Options /\ active \subseteq listed

\* The sign chip that is lit is the sign of the quantity: a correction of a quantity that is not
\* zero has the chip's sign, and an entry or an exit has no minus left from a correction
\* (StockMovementFormScreen.tsx:47-53 and 104-111).
SignIsShown ==
  IsOpen /\ form.name = "movement" =>
    LET quantity == form.lines[1].first IN
      IF form.fields.type = "ADJUSTMENT"
      THEN quantity # 0 => (quantity < 0 <=> form.sign = -1)
      ELSE form.sign = 1 /\ quantity >= 0

\* The button under an entry is never off for an entry the API would take: the totals the screen
\* shows agree with the schema's for any lines (JournalEntryFormScreen.tsx:60-62 and 142).
ValidDraftsCanBeSent ==
  IsOpen /\ ~form.saving /\ IsAccepted(form.name, form.fields, form.lines) => CanPress(form)

\* However often a form is sent, whatever is refused, kept for later or lost on the way, one
\* opening of it leaves one mutation that is done or may still be: what is sent again was refused
\* (handleSubmit, assertMutationSucceeded).
OneMutationPerOpening ==
  \A o \in 1 .. opening :
    Cardinality({r \in DOMAIN rows : rows[r].opening = o /\ rows[r].state # "failed"}) <= 1

\* A form whose last mutation was refused while the device was online, and what was typed in it to
\* be corrected, stays until its user leaves it; only the goBack of a form opened and left before
\* can take it away (the catch of onSubmit, in every form).
RefusedFormsStay ==
  [][IsOpen /\ form' = Closed =>
       \A r \in DOMAIN rows :
         /\ rows[r].opening = form.opening /\ rows[r].online /\ rows[r].state = "failed"
         /\ \A q \in DOMAIN rows : rows[q].opening = form.opening => q <= r
         => \/ rows' = rows
            \/ \E q \in DOMAIN rows :
                 /\ rows[q].opening < form.opening
                 /\ rows[q].step = "asserting" /\ rows'[q].step = "returned"]_vars

\* The PATCH of a fiche that was loaded when it was sent, and that is still as it was loaded when
\* it is applied, changes the fields its user typed in and no other (toFormValues).
PatchesChangeWhatWasTyped ==
  [][pass' # pass /\ pass # {} /\ rows[Oldest].base = record =>
       \A x \in DOMAIN record : record'[x] # record[x] => x \in rows[Oldest].typed]_vars

-----------------------------------------------------------------------------
(* What users may expect of the forms and the code does not give.          *)

\* A PATCH changes the fields its user typed in and no other.
EditsChangeWhatWasTyped ==
  [][record # NoFiche /\ pass' # pass /\ pass # {} =>
       \A x \in DOMAIN record : record'[x] # record[x] => x \in rows[Oldest].typed]_vars

\* What a user types in a form stays until it is sent or the user leaves.
EditsStay ==
  [][IsOpen /\ form' # Closed /\ keys' = keys /\ opening' = opening =>
       \A x \in typed : form'.fields[x] = form.fields[x]]_vars

\* A form is closed by its user, or when what it has sent is kept.
FormsCloseThemselves ==
  [][IsOpen /\ form' = Closed =>
       \A r \in DOMAIN rows : rows'[r] # rows[r] => rows[r].opening = form.opening]_vars

\* A form is not sent with a party that its picker does not show.
NothingHiddenIsSent ==
  [][\A r \in DOMAIN rows' \ DOMAIN rows :
       "party" \in DOMAIN rows'[r].fields => rows'[r].fields.party \in listed]_vars
=============================================================================
