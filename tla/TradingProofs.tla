--------------------------- MODULE TradingProofs ---------------------------
(***************************************************************************)
(* Theorems about Trading for every set of documents, products, lines,     *)
(* calls and requests.                                                     *)
(***************************************************************************)
EXTENDS Trading, TLAPS

\* The statement a request has reached fits its call.
Fits(q) ==
  /\ q.pc # "idle" => q.call \in Calls
  /\ q.pc = "commit" => q.call.op \in {"move", "confirm"}
  /\ q.pc = "cancel" => q.call.op = "cancel"
  /\ q.pc = "insert" => q.call.op \in {"create", "invoice"}
  /\ q.pc \in {"sale", "invoiced", "recover", "recover_sale"} => q.call.op = "invoice"
  /\ q.pc = "status" => q.call.op \in {"PAID", "VOID"}

\* What a request has checked and relies on still holds.
Sound(q) ==
  /\ q.pc = "commit" /\ ~q.doomed =>
       /\ Sufficient(q.call)
       /\ q.call.op = "confirm" => doc[q.call.doc].status = "DRAFT"
       /\ q.call.op = "move" => ~Used(q.call.key)
  /\ q.pc \in {"invoiced", "insert"} /\ q.call.op = "invoice" => posted[q.call.sale] = 1
  /\ q.pc = "status" => invoice[q.call.invoice].status # "NONE"

InvoicesNameSales ==
  \A i \in Invoices : invoice[i].status # "NONE" => invoice[i].sale \in Sales

TradingInv ==
  /\ TypeOK
  /\ NeverOversold /\ PostedWithItsDocument
  /\ InvoicedSalesHaveLeft /\ InvoicesNameSales
  /\ \A r \in Requests : Fits(request[r]) /\ Sound(request[r])

LEMMA CallTypes ==
  ASSUME NEW call \in Calls
  PROVE  /\ call.op \in {"move", "create", "confirm", "cancel", "invoice", "PAID", "VOID"}
         /\ call.op = "move" => call \in MoveCall
         /\ call.op = "create" => call \in CreateCall
         /\ call.op \in {"confirm", "cancel"} => call.doc \in Documents
         /\ call.op = "invoice" => call \in InvoiceCall
         /\ call.op \in {"PAID", "VOID"} => call \in StatusCall
<1>1. \/ call \in CreateCall \/ call \in ConfirmCall \/ call \in CancelCall
      \/ call \in InvoiceCall \/ call \in StatusCall \/ call \in MoveCall
  BY TradingAssumption
<1> QED BY <1>1 DEF MoveCall, CreateCall, ConfirmCall, CancelCall, InvoiceCall, StatusCall

\* What a committed call adds is an integer, and nothing outside what it touched.
LEMMA EffectType ==
  ASSUME NEW call \in Calls, call.op \in {"move", "confirm"}
  PROVE  /\ CallEffect(call) \in [Products -> Int]
         /\ \A p \in Products \ Touched(call) : CallEffect(call)[p] = 0
<1>1. CASE call.op = "confirm"
  <2>1. call.doc \in Documents
    BY <1>1, CallTypes
  <2>2. Quantity[call.doc] \in [Products -> Nat]
    BY <2>1, TradingAssumption
  <2>3. CallEffect(call) = [p \in Products |->
          Delta(IF call.doc \in Sales THEN "OUT" ELSE "IN", Quantity[call.doc][p])]
    BY <1>1, <2>1 DEF CallEffect, Effect
  <2> QED BY <1>1, <2>2, <2>3 DEF Delta, Touched
<1>2. CASE call.op = "move"
  <2>1. call \in MoveCall
    BY <1>2, CallTypes
  <2>2. Delta(call.type, call.quantity) \in Int /\ call.product \in Products
    BY <2>1 DEF MoveCall, Delta
  <2>3. CallEffect(call) =
          [p \in Products |-> IF p = call.product THEN Delta(call.type, call.quantity) ELSE 0]
    BY <1>2 DEF CallEffect
  <2> QED BY <1>2, <2>2, <2>3 DEF Touched
<1> QED BY <1>1, <1>2

LEMMA InitTrading == Init => TradingInv
<1> SUFFICES ASSUME Init PROVE TradingInv
  OBVIOUS
<1> USE DEF Init
<1>1. IdleRequest \in RequestState /\ Fits(IdleRequest) /\ Sound(IdleRequest)
  BY TradingAssumption DEF IdleRequest, RequestState, Fits, Sound
<1>2. TypeOK
  BY <1>1 DEF TypeOK, DocumentRow, InvoiceRow
<1>3. /\ NeverOversold /\ PostedWithItsDocument
      /\ InvoicedSalesHaveLeft /\ InvoicesNameSales
  <2>1. /\ \A d \in Documents : doc[d].status = "NONE" /\ posted[d] = 0
        /\ \A i \in Invoices : invoice[i].status = "NONE"
        /\ \A p \in Products : onHand[p] = 0
    OBVIOUS
  <2> HIDE DEF Init
  <2>2. NeverOversold
    BY <2>1 DEF NeverOversold
  <2>3. PostedWithItsDocument
    BY <2>1 DEF PostedWithItsDocument
  <2>4. InvoicedSalesHaveLeft
    BY <2>1 DEF InvoicedSalesHaveLeft
  <2>5. InvoicesNameSales
    BY <2>1 DEF InvoicesNameSales
  <2> QED BY <2>2, <2>3, <2>4, <2>5
<1>4. ASSUME NEW r \in Requests PROVE Fits(request[r]) /\ Sound(request[r])
  <2>1. request[r] = IdleRequest
    OBVIOUS
  <2> QED BY <1>1, <2>1
<1> QED BY <1>2, <1>3, <1>4 DEF TradingInv

\* A step that only reads moves one request; its new record is all there is to check.
LEMMA OnlyRequestMoves ==
  ASSUME TradingInv, NEW r \in Requests, NEW next \in RequestState,
         Fits(next), Sound(next),
         request' = [request EXCEPT ![r] = next], UNCHANGED tables
  PROVE  TradingInv'
<1> USE DEF tables
<1>1. TypeOK'
  BY DEF TradingInv, TypeOK
<1>2. /\ NeverOversold' /\ PostedWithItsDocument'
      /\ InvoicedSalesHaveLeft' /\ InvoicesNameSales'
  BY DEF TradingInv, NeverOversold, PostedWithItsDocument, InvoicedSalesHaveLeft,
         InvoicesNameSales
<1>3. \A q \in Requests : request'[q] = IF q = r THEN next ELSE request[q]
  BY DEF TradingInv, TypeOK
<1>4. \A q \in Requests : Fits(request'[q])
  BY <1>3 DEF TradingInv
<1>5. ASSUME NEW q \in Requests PROVE Sound(request[q])'
  <2>1. CASE q = r
    <3>1. request'[q] = next
      BY <1>3, <2>1
    <3> QED BY <3>1 DEF Sound, Sufficient, Used
  <2>2. CASE q # r
    <3>1. request'[q] = request[q] /\ Sound(request[q])
      BY <1>3, <2>2 DEF TradingInv
    <3> QED BY <3>1 DEF Sound, Sufficient, Used
  <2> QED BY <2>1, <2>2
<1>6. ASSUME NEW q \in Requests PROVE Fits(request[q])'
  BY <1>4 DEF Fits
<1> QED BY <1>1, <1>2, <1>5, <1>6 DEF TradingInv

\* Ending, or giving up, asks nothing of the tables.
LEMMA AnswerKeeps ==
  ASSUME TradingInv, NEW r \in Requests, NEW reply \in Replies,
         request[r].pc # "idle", Answer(r, reply), UNCHANGED tables
  PROVE  TradingInv'
<1> DEFINE next == [request[r] EXCEPT !.pc = "answer", !.reply = reply]
<1>1. request[r] \in RequestState /\ Fits(request[r])
  BY DEF TradingInv, TypeOK
<1>2. /\ next \in RequestState /\ next.pc = "answer" /\ next.call = request[r].call
  BY <1>1 DEF RequestState
<1>3. request' = [request EXCEPT ![r] = next]
  BY DEF Answer
<1>4. Fits(next) /\ Sound(next)
  <2> HIDE DEF next
  <2> QED BY <1>1, <1>2 DEF Fits, Sound
<1> HIDE DEF next
<1> QED BY <1>2, <1>3, <1>4, OnlyRequestMoves

LEMMA GotoKeeps ==
  ASSUME TradingInv, NEW r \in Requests, NEW label, Goto(r, label), UNCHANGED tables,
         label \in {"commit", "cancel", "insert", "sale", "invoiced", "status", "recover",
                    "recover_sale"},
         request[r].pc # "idle",
         label = "commit" => request[r].call.op \in {"move", "confirm"},
         label = "cancel" => request[r].call.op = "cancel",
         label = "insert" => request[r].call.op \in {"create", "invoice"},
         label \in {"sale", "invoiced", "recover", "recover_sale"} =>
           request[r].call.op = "invoice",
         label = "status" => request[r].call.op \in {"PAID", "VOID"},
         label = "commit" =>
           /\ Sufficient(request[r].call)
           /\ request[r].call.op = "confirm" => doc[request[r].call.doc].status = "DRAFT"
           /\ request[r].call.op = "move" => ~Used(request[r].call.key),
         label \in {"invoiced", "insert"} /\ request[r].call.op = "invoice" =>
           posted[request[r].call.sale] = 1,
         label = "status" => invoice[request[r].call.invoice].status # "NONE"
  PROVE  TradingInv'
<1> DEFINE next == [request[r] EXCEPT !.pc = label]
<1>1. request[r] \in RequestState /\ Fits(request[r])
  BY DEF TradingInv, TypeOK
<1>2. /\ next \in RequestState /\ next.pc = label /\ next.call = request[r].call
  BY <1>1 DEF RequestState
<1>3. request' = [request EXCEPT ![r] = next]
  BY DEF Goto
<1>4. Fits(next) /\ Sound(next)
  <2> HIDE DEF next
  <2> QED BY <1>1, <1>2 DEF Fits, Sound
<1> HIDE DEF next
<1> QED BY <1>2, <1>3, <1>4, OnlyRequestMoves

\* Requests that arrive, end, read or fail.
LEMMA ReadsKeep ==
  ASSUME TradingInv, NEW r \in Requests,
         \/ LookUpDraft(r) \/ BeginMovement(r) \/ BeginConfirm(r) \/ ReadForCancel(r)
         \/ LookUpInvoice(r) \/ ReadSale(r) \/ CheckNotInvoiced(r) \/ InsertInvoiceFails(r)
         \/ Recover(r) \/ RecoverBySale(r) \/ ReadForStatus(r)
  PROVE  TradingInv'
<1> USE AnswerKeeps, GotoKeeps DEF Replies
<1>0. /\ request[r].pc # "idle" /\ UNCHANGED tables
      /\ Fits(request[r]) /\ Sound(request[r]) /\ request[r].call \in Calls
  BY DEF LookUpDraft, BeginMovement, BeginConfirm, ReadForCancel, LookUpInvoice, ReadSale,
         CheckNotInvoiced, InsertInvoiceFails, Recover, RecoverBySale, ReadForStatus,
         TradingInv, Fits
<1>1. CASE LookUpDraft(r)
  BY <1>0, <1>1 DEF LookUpDraft
<1>2. CASE BeginMovement(r)
  BY <1>0, <1>2 DEF BeginMovement
<1>3. CASE BeginConfirm(r)
  BY <1>0, <1>3 DEF BeginConfirm
<1>4. CASE ReadForCancel(r)
  BY <1>0, <1>4 DEF ReadForCancel
<1>5. CASE LookUpInvoice(r)
  BY <1>0, <1>5 DEF LookUpInvoice
<1>6. CASE ReadSale(r)
  <2>1. request[r].call.op = "invoice"
    BY <1>0, <1>6 DEF ReadSale, Fits
  <2>2. request[r].call.sale \in Documents
    BY <1>0, <2>1, CallTypes DEF InvoiceCall, Documents
  <2>3. doc[request[r].call.sale].status = "CONFIRMED" => posted[request[r].call.sale] = 1
    BY <2>2 DEF TradingInv, PostedWithItsDocument
  <2> QED BY <1>0, <1>6, <2>1, <2>3 DEF ReadSale
<1>7. CASE CheckNotInvoiced(r)
  BY <1>0, <1>7 DEF CheckNotInvoiced, Fits, Sound
<1>8. CASE InsertInvoiceFails(r)
  BY <1>0, <1>8 DEF InsertInvoiceFails
<1>9. CASE Recover(r)
  BY <1>0, <1>9 DEF Recover, Fits
<1>10. CASE RecoverBySale(r)
  BY <1>0, <1>10 DEF RecoverBySale
<1>11. CASE ReadForStatus(r)
  BY <1>0, <1>11 DEF ReadForStatus
<1> QED BY <1>1, <1>2, <1>3, <1>4, <1>5, <1>6, <1>7, <1>8, <1>9, <1>10, <1>11

\* A failed commit starts again or gives up.
LEMMA SerializationFailsKeeps ==
  ASSUME TradingInv, NEW r \in Requests, SerializationFails(r)
  PROVE  TradingInv'
<1>1. /\ request[r].pc = "commit" /\ UNCHANGED tables
      /\ request[r] \in RequestState /\ Fits(request[r]) /\ MaxAttempts \in Nat
  BY TradingAssumption DEF SerializationFails, TradingInv, TypeOK
<1>2. CASE request[r].attempt < MaxAttempts
  <2> DEFINE next == [request[r] EXCEPT !.pc = "begin", !.doomed = FALSE,
                                  !.attempt = request[r].attempt + 1]
  <2>1. request[r].attempt + 1 \in 1..MaxAttempts
    BY <1>1, <1>2 DEF RequestState
  <2>2. next \in RequestState /\ next.pc = "begin" /\ next.call = request[r].call
    BY <1>1, <2>1 DEF RequestState
  <2>3. request' = [request EXCEPT ![r] = next]
    BY <1>2 DEF SerializationFails
  <2>4. Fits(next) /\ Sound(next)
    <3> HIDE DEF next
    <3> QED BY <1>1, <2>2 DEF Fits, Sound
  <2> HIDE DEF next
  <2> QED BY <1>1, <2>2, <2>3, <2>4, OnlyRequestMoves
<1>3. CASE ~(request[r].attempt < MaxAttempts)
  BY <1>1, <1>3, AnswerKeeps DEF SerializationFails, Replies
<1> QED BY <1>2, <1>3

LEMMA AcceptKeeps ==
  ASSUME TradingInv, NEW r \in Requests, NEW call \in Calls, Accept(r, call)
  PROVE  TradingInv'
<1> DEFINE next == [IdleRequest EXCEPT !.pc = "begin", !.call = call]
<1>0. IdleRequest \in RequestState
  BY TradingAssumption DEF IdleRequest, RequestState
<1>1. next \in RequestState /\ next.pc = "begin" /\ next.call = call
  BY <1>0 DEF RequestState
<1>2. request' = [request EXCEPT ![r] = next] /\ UNCHANGED tables
  BY DEF Accept
<1>3. Fits(next) /\ Sound(next)
  <2> HIDE DEF next
  <2> QED BY <1>1 DEF Fits, Sound
<1> HIDE DEF next
<1> QED BY <1>1, <1>2, <1>3, OnlyRequestMoves

LEMMA RespondKeeps ==
  ASSUME TradingInv, NEW r \in Requests, Respond(r)
  PROVE  TradingInv'
<1>1. IdleRequest \in RequestState /\ Fits(IdleRequest) /\ Sound(IdleRequest)
  BY TradingAssumption DEF IdleRequest, RequestState, Fits, Sound
<1>2. request' = [request EXCEPT ![r] = IdleRequest] /\ UNCHANGED tables
  BY DEF Respond
<1> QED BY <1>1, <1>2, OnlyRequestMoves

\* The record of a request that is answered while the tables change.
LEMMA Answered ==
  ASSUME TradingInv, NEW r \in Requests, NEW reply \in Replies,
         request[r].pc # "idle", Answer(r, reply)
  PROVE  /\ request' \in [Requests -> RequestState]
         /\ request'[r].pc = "answer"
         /\ \A q \in Requests \ {r} : request'[q] = request[q]
         /\ \A q \in Requests : Fits(request'[q])
<1> DEFINE next == [request[r] EXCEPT !.pc = "answer", !.reply = reply]
<1>1. request[r] \in RequestState /\ Fits(request[r])
  BY DEF TradingInv, TypeOK
<1>2. next \in RequestState /\ next.pc = "answer" /\ next.call = request[r].call
  BY <1>1 DEF RequestState
<1>3. request' = [request EXCEPT ![r] = next]
  BY DEF Answer
<1>4. Fits(next)
  <2> HIDE DEF next
  <2> QED BY <1>1, <1>2 DEF Fits
<1> HIDE DEF next
<1>5. \A q \in Requests : request'[q] = IF q = r THEN next ELSE request[q]
  BY <1>3 DEF TradingInv, TypeOK
<1>6. request' \in [Requests -> RequestState]
  BY <1>2, <1>3 DEF TradingInv, TypeOK
<1>7. ASSUME NEW q \in Requests PROVE Fits(request'[q])
  BY <1>4, <1>5 DEF TradingInv
<1> QED BY <1>2, <1>5, <1>6, <1>7

LEMMA InsertDraftKeeps ==
  ASSUME TradingInv, NEW r \in Requests, NEW d \in Documents, InsertDraft(r, d)
  PROVE  TradingInv'
<1> DEFINE row == [status |-> "DRAFT", key |-> request[r].call.key]
<1>1. /\ request[r].pc = "insert" /\ request[r].call \in Calls /\ request[r].call.op = "create"
      /\ doc[d].status = "NONE"
      /\ UNCHANGED <<onHand, posted, keyed, invoice, counter>>
  BY DEF InsertDraft, TradingInv, Fits
<1>2. CASE UNCHANGED doc /\ Answer(r, "error")
  BY <1>1, <1>2, AnswerKeeps DEF Replies, tables
<1>3. CASE doc' = [doc EXCEPT ![d] = row] /\ Answer(r, "done")
  <2>1. row \in DocumentRow /\ row.status = "DRAFT"
    BY <1>1, CallTypes DEF CreateCall, DocumentRow
  <2>2. /\ request' \in [Requests -> RequestState] /\ request'[r].pc = "answer"
        /\ \A q \in Requests \ {r} : request'[q] = request[q]
        /\ \A q \in Requests : Fits(request'[q])
    BY <1>1, <1>3, Answered DEF Replies
  <2> HIDE DEF row
  <2>3. TypeOK'
    BY <1>1, <1>3, <2>1, <2>2 DEF TradingInv, TypeOK
  <2>4. \A e \in Documents : doc'[e] = IF e = d THEN row ELSE doc[e]
    BY <1>3 DEF TradingInv, TypeOK
  <2>5. NeverOversold' /\ InvoicedSalesHaveLeft' /\ InvoicesNameSales'
    BY <1>1 DEF TradingInv, NeverOversold, InvoicedSalesHaveLeft, InvoicesNameSales
  <2>6. PostedWithItsDocument'
    BY <1>1, <2>1, <2>4 DEF TradingInv, PostedWithItsDocument
  <2>7. ASSUME NEW q \in Requests PROVE Sound(request[q])' /\ Fits(request[q])'
    <3>1. CASE q = r
      BY <2>2, <3>1 DEF Sound, Fits
    <3>2. CASE q # r
      <4>1. request'[q] = request[q] /\ Sound(request[q]) /\ Fits(request[q])
        BY <2>2, <3>2 DEF TradingInv
      <4>2. request[q].pc = "commit" /\ request[q].call.op = "confirm" =>
              request[q].call.doc \in Documents
        BY <4>1, CallTypes DEF Fits
      <4> QED BY <1>1, <2>1, <2>2, <2>4, <4>1, <4>2 DEF Sound, Fits, Sufficient, Used
    <3> QED BY <3>1, <3>2
  <2> QED BY <2>3, <2>5, <2>6, <2>7 DEF TradingInv
<1> QED BY <1>2, <1>3 DEF InsertDraft

LEMMA InsertInvoiceKeeps ==
  ASSUME TradingInv, NEW r \in Requests, NEW i \in Invoices, InsertInvoice(r, i)
  PROVE  TradingInv'
<1> DEFINE row == [status |-> "ISSUED", sale |-> request[r].call.sale,
                   number |-> counter + 1, key |-> request[r].call.key]
<1>1. /\ request[r].pc = "insert" /\ request[r].call \in Calls /\ request[r].call.op = "invoice"
      /\ posted[request[r].call.sale] = 1 /\ invoice[i].status = "NONE"
      /\ UNCHANGED <<doc, onHand, posted, keyed>>
  BY DEF InsertInvoice, TradingInv, Fits, Sound
<1>2. CASE UNCHANGED <<invoice, counter>> /\ Goto(r, "recover")
  BY <1>1, <1>2, GotoKeeps DEF tables
<1>3. CASE /\ counter' = counter + 1 /\ invoice' = [invoice EXCEPT ![i] = row]
           /\ Answer(r, "done")
  <2>1. /\ row \in InvoiceRow /\ row.status = "ISSUED"
        /\ row.sale = request[r].call.sale /\ row.sale \in Sales
    BY <1>1, CallTypes DEF InvoiceCall, InvoiceRow, TradingInv, TypeOK
  <2>2. /\ request' \in [Requests -> RequestState] /\ request'[r].pc = "answer"
        /\ \A q \in Requests \ {r} : request'[q] = request[q]
        /\ \A q \in Requests : Fits(request'[q])
    BY <1>1, <1>3, Answered DEF Replies
  <2> HIDE DEF row
  <2>3. TypeOK'
    BY <1>1, <1>3, <2>1, <2>2 DEF TradingInv, TypeOK
  <2>4. \A j \in Invoices : invoice'[j] = IF j = i THEN row ELSE invoice[j]
    BY <1>3 DEF TradingInv, TypeOK
  <2>5. NeverOversold' /\ PostedWithItsDocument'
    BY <1>1 DEF TradingInv, NeverOversold, PostedWithItsDocument
  <2>6. InvoicedSalesHaveLeft' /\ InvoicesNameSales'
    BY <1>1, <2>1, <2>4 DEF TradingInv, InvoicedSalesHaveLeft, InvoicesNameSales
  <2>7. ASSUME NEW q \in Requests PROVE Sound(request[q])' /\ Fits(request[q])'
    <3>1. CASE q = r
      BY <2>2, <3>1 DEF Sound, Fits
    <3>2. CASE q # r
      <4>1. request'[q] = request[q] /\ Sound(request[q]) /\ Fits(request[q])
        BY <2>2, <3>2 DEF TradingInv
      <4>2. request[q].pc = "status" => request[q].call.invoice \in Invoices
        BY <4>1, CallTypes DEF Fits, StatusCall
      <4> QED BY <1>1, <2>1, <2>2, <2>4, <4>1, <4>2 DEF Sound, Fits, Sufficient, Used
    <3> QED BY <3>1, <3>2
  <2> QED BY <2>3, <2>5, <2>6, <2>7 DEF TradingInv
<1> QED BY <1>2, <1>3 DEF InsertInvoice

LEMMA SetStatusKeeps ==
  ASSUME TradingInv, NEW r \in Requests, SetStatus(r)
  PROVE  TradingInv'
<1> DEFINE i == request[r].call.invoice
           row == [invoice[i] EXCEPT !.status = request[r].call.op]
<1>1. /\ request[r].pc = "status" /\ request[r].call \in Calls
      /\ request[r].call.op \in {"PAID", "VOID"} /\ invoice[i].status # "NONE"
      /\ i \in Invoices
      /\ UNCHANGED <<doc, onHand, posted, keyed, counter>>
  BY CallTypes DEF SetStatus, TradingInv, Fits, Sound, StatusCall
<1>2. /\ row \in InvoiceRow /\ row.status # "NONE" /\ row.sale = invoice[i].sale
  BY <1>1 DEF TradingInv, TypeOK, InvoiceRow
<1>3. /\ request' \in [Requests -> RequestState] /\ request'[r].pc = "answer"
      /\ \A q \in Requests \ {r} : request'[q] = request[q]
      /\ \A q \in Requests : Fits(request'[q])
  BY <1>1, Answered DEF Replies, SetStatus
<1>4. PICK inv, new : inv = i /\ new = row /\ invoice' = [invoice EXCEPT ![inv] = new]
  BY DEF SetStatus
<1> HIDE DEF i, row
<1>5. TypeOK'
  BY <1>1, <1>2, <1>3, <1>4 DEF TradingInv, TypeOK
<1>6. \A j \in Invoices : invoice'[j] = IF j = inv THEN new ELSE invoice[j]
  BY <1>1, <1>4 DEF TradingInv, TypeOK
<1>7. NeverOversold' /\ PostedWithItsDocument'
  BY <1>1 DEF TradingInv, NeverOversold, PostedWithItsDocument
<1>8. InvoicedSalesHaveLeft' /\ InvoicesNameSales'
  BY <1>1, <1>2, <1>4, <1>6 DEF TradingInv, InvoicedSalesHaveLeft, InvoicesNameSales
<1>9. ASSUME NEW q \in Requests PROVE Sound(request[q])' /\ Fits(request[q])'
  <2>1. CASE q = r
    BY <1>3, <2>1 DEF Sound, Fits
  <2>2. CASE q # r
    <3>1. request'[q] = request[q] /\ Sound(request[q]) /\ Fits(request[q])
      BY <1>3, <2>2 DEF TradingInv
    <3>2. request[q].pc = "status" => request[q].call.invoice \in Invoices
      BY <3>1, CallTypes DEF Fits, StatusCall
    <3> QED BY <1>1, <1>2, <1>3, <1>4, <1>6, <3>1, <3>2 DEF Sound, Fits, Sufficient, Used
  <2> QED BY <2>1, <2>2
<1> QED BY <1>5, <1>7, <1>8, <1>9 DEF TradingInv

\* Requests move together: one is answered, some of those about to commit are doomed.
LEMMA AnsweredAndDoomed ==
  ASSUME TradingInv, NEW r \in Requests, NEW doomed \in SUBSET Requests,
         \A q \in doomed : request[q].pc = "commit",
         request[r].pc # "idle",
         request' = [q \in Requests |->
           IF q = r THEN [request[q] EXCEPT !.pc = "answer", !.reply = "done"]
           ELSE IF q \in doomed THEN [request[q] EXCEPT !.doomed = TRUE]
           ELSE request[q]]
  PROVE  /\ request' \in [Requests -> RequestState]
         /\ request'[r].pc = "answer"
         /\ \A q \in doomed \ {r} : request'[q].pc = "commit" /\ request'[q].doomed
         /\ \A q \in Requests \ (doomed \cup {r}) : request'[q] = request[q]
         /\ \A q \in Requests : Fits(request'[q])
<1>1. \A q \in Requests : request[q] \in RequestState /\ Fits(request[q])
  BY DEF TradingInv, TypeOK
<1>2. \A q \in Requests :
        LET done == [request[q] EXCEPT !.pc = "answer", !.reply = "done"]
            lost == [request[q] EXCEPT !.doomed = TRUE]
        IN /\ done \in RequestState /\ done.pc = "answer" /\ done.call = request[q].call
           /\ lost \in RequestState /\ lost.pc = request[q].pc /\ lost.call = request[q].call
           /\ lost.doomed
  BY <1>1 DEF RequestState, Replies
<1>3. /\ request'[r] \in RequestState /\ request'[r].pc = "answer"
      /\ request'[r].call = request[r].call
  BY <1>2
<1>4. ASSUME NEW q \in doomed \ {r}
      PROVE  /\ request'[q] \in RequestState /\ request'[q].pc = "commit"
             /\ request'[q].call = request[q].call /\ request'[q].doomed
  BY <1>2
<1>5. ASSUME NEW q \in Requests \ (doomed \cup {r})
      PROVE  request'[q] = request[q]
  OBVIOUS
<1>6. ASSUME NEW q \in Requests PROVE request'[q] \in RequestState /\ Fits(request'[q])
  <2>1. CASE q = r
    BY <1>1, <1>3, <2>1 DEF Fits
  <2>2. CASE q \in doomed \ {r}
    BY <1>1, <1>4, <2>2 DEF Fits
  <2>3. CASE q \notin doomed \cup {r}
    BY <1>1, <1>5, <2>3
  <2> QED BY <2>1, <2>2, <2>3
<1>7. request' \in [Requests -> RequestState]
  BY <1>6
<1> QED BY <1>3, <1>4, <1>5, <1>6, <1>7

LEMMA CancelKeeps ==
  ASSUME TradingInv, NEW r \in Requests, Cancel(r)
  PROVE  TradingInv'
<1> DEFINE doomed == {q \in Requests \ {r} : /\ request[q].pc = "commit"
                                            /\ request[q].call.op = "confirm"
                                            /\ request[q].call.doc = request[r].call.doc}
           row == [doc[request[r].call.doc] EXCEPT !.status = "CANCELLED"]
<1>1. /\ request[r].pc = "cancel" /\ request[r].call \in Calls
      /\ request[r].call.op = "cancel" /\ request[r].call.doc \in Documents
      /\ UNCHANGED <<onHand, posted, keyed, invoice, counter>>
  BY CallTypes DEF Cancel, TradingInv, Fits
<1>2. row \in DocumentRow /\ row.status = "CANCELLED"
  BY <1>1 DEF TradingInv, TypeOK, DocumentRow
<1>3. request' = [q \in Requests |->
        IF q = r THEN [request[q] EXCEPT !.pc = "answer", !.reply = "done"]
        ELSE IF q \in doomed THEN [request[q] EXCEPT !.doomed = TRUE]
        ELSE request[q]]
  BY DEF Cancel
<1>4. PICK lost : lost = doomed
  OBVIOUS
<1>5. /\ request' \in [Requests -> RequestState] /\ request'[r].pc = "answer"
      /\ \A q \in lost \ {r} : request'[q].pc = "commit" /\ request'[q].doomed
      /\ \A q \in Requests \ (lost \cup {r}) : request'[q] = request[q]
      /\ \A q \in Requests : Fits(request'[q])
  BY <1>1, <1>3, <1>4, AnsweredAndDoomed
<1>6. PICK d, new : /\ d = request[r].call.doc /\ new = row
                    /\ doc' = [doc EXCEPT ![d] = new]
  BY DEF Cancel
<1>7. \A q \in Requests \ (lost \cup {r}) :
        request[q].pc = "commit" /\ request[q].call.op = "confirm" => request[q].call.doc # d
  BY <1>4, <1>6
<1> HIDE DEF row, doomed
<1>8. TypeOK'
  BY <1>1, <1>2, <1>5, <1>6 DEF TradingInv, TypeOK
<1>9. \A e \in Documents : doc'[e] = IF e = d THEN new ELSE doc[e]
  BY <1>1, <1>6 DEF TradingInv, TypeOK
<1>10. NeverOversold' /\ InvoicedSalesHaveLeft' /\ InvoicesNameSales'
  BY <1>1 DEF TradingInv, NeverOversold, InvoicedSalesHaveLeft, InvoicesNameSales
<1>11. posted[d] \in {0, 1}
  BY <1>1, <1>6 DEF TradingInv, PostedWithItsDocument, TypeOK, DocumentRow
<1>12. PostedWithItsDocument'
  BY <1>1, <1>2, <1>6, <1>9, <1>11 DEF TradingInv, PostedWithItsDocument
<1>13. ASSUME NEW q \in Requests PROVE Sound(request[q])' /\ Fits(request[q])'
  <2>1. CASE q = r
    BY <1>5, <2>1 DEF Sound, Fits
  <2>2. CASE q \in lost \ {r}
    BY <1>5, <2>2 DEF Sound, Fits
  <2>3. CASE q \notin lost \cup {r}
    <3>1. request'[q] = request[q] /\ Sound(request[q]) /\ Fits(request[q])
      BY <1>5, <2>3 DEF TradingInv
    <3>2. request[q].pc = "commit" /\ request[q].call.op = "confirm" =>
            request[q].call.doc \in Documents \ {d}
      BY <1>7, <2>3, <3>1, CallTypes DEF Fits
    <3> QED BY <1>1, <1>5, <1>9, <3>1, <3>2 DEF Sound, Fits, Sufficient, Used
  <2> QED BY <2>1, <2>2, <2>3
<1> QED BY <1>8, <1>10, <1>12, <1>13 DEF TradingInv

\* Whoever survives a commit read nothing that the commit has written.
LEMMA Survivors ==
  ASSUME TradingInv, NEW r \in Requests, request[r].pc = "commit", Committed(r)
  PROVE  /\ request' \in [Requests -> RequestState]
         /\ request'[r].pc = "answer"
         /\ \A q \in Requests : Fits(request'[q])
         /\ \A q \in Requests \ {r} :
              \/ request'[q].pc = "commit" /\ request'[q].doomed
              \/ /\ request'[q] = request[q]
                 /\ request[q].pc = "commit" => ~Conflicting(request[r].call, request[q].call)
<1> DEFINE doomed == {q \in Requests \ {r} : /\ request[q].pc = "commit"
                                            /\ Conflicting(request[r].call, request[q].call)}
<1>1. request' = [q \in Requests |->
        IF q = r THEN [request[q] EXCEPT !.pc = "answer", !.reply = "done"]
        ELSE IF q \in doomed THEN [request[q] EXCEPT !.doomed = TRUE]
        ELSE request[q]]
  BY DEF Committed
<1>2. PICK lost : lost = doomed
  OBVIOUS
<1>3. /\ request' \in [Requests -> RequestState] /\ request'[r].pc = "answer"
      /\ \A q \in lost \ {r} : request'[q].pc = "commit" /\ request'[q].doomed
      /\ \A q \in Requests \ (lost \cup {r}) : request'[q] = request[q]
      /\ \A q \in Requests : Fits(request'[q])
  BY <1>1, <1>2, AnsweredAndDoomed
<1>4. \A q \in Requests \ (lost \cup {r}) :
        request[q].pc = "commit" => ~Conflicting(request[r].call, request[q].call)
  BY <1>2
<1> HIDE DEF doomed
<1> QED BY <1>3, <1>4

\* What a commit adds leaves no product below zero, and leaves alone what the others
\* have checked.
LEMMA StockAfterCommit ==
  ASSUME TradingInv, NEW call \in Calls, call.op \in {"move", "confirm"}, Sufficient(call),
         onHand' = [p \in Products |-> onHand[p] + CallEffect(call)[p]]
  PROVE  /\ onHand' \in [Products -> Int]
         /\ NeverOversold'
         /\ \A p \in Products \ Touched(call) : onHand'[p] = onHand[p]
<1>1. /\ onHand \in [Products -> Int] /\ \A p \in Products : onHand[p] >= 0
      /\ \A p \in Products : CallEffect(call)[p] \in Int
      /\ \A p \in Products \ Touched(call) : CallEffect(call)[p] = 0
  BY EffectType DEF TradingInv, TypeOK, NeverOversold
<1>2. ASSUME NEW p \in Products PROVE onHand'[p] >= 0
  BY <1>1 DEF Sufficient
<1> QED BY <1>1, <1>2 DEF NeverOversold

LEMMA TouchedType ==
  ASSUME NEW call \in Calls, call.op \in {"move", "confirm"}
  PROVE  Touched(call) \subseteq Products
<1>1. CASE call.op = "move"
  BY <1>1, CallTypes DEF Touched, MoveCall
<1>2. CASE call.op = "confirm"
  BY <1>2 DEF Touched
<1> QED BY <1>1, <1>2

LEMMA CommitMovementKeeps ==
  ASSUME TradingInv, NEW r \in Requests, CommitMovement(r)
  PROVE  TradingInv'
<1>1. PICK call \in Calls : /\ call = request[r].call /\ request[r].pc = "commit"
                            /\ call.op = "move" /\ Sufficient(call)
  BY DEF CommitMovement, TradingInv, Fits, Sound
<1>2. /\ call.product \in Products /\ call.key \in Keys \cup {None}
  BY <1>1, CallTypes DEF MoveCall
<1>3. /\ onHand' = [p \in Products |-> onHand[p] + CallEffect(call)[p]]
      /\ keyed' = [k \in Keys |-> IF k = call.key THEN keyed[k] + 1 ELSE keyed[k]]
      /\ Committed(r) /\ UNCHANGED <<doc, posted, invoice, counter>>
  BY <1>1 DEF CommitMovement
<1>4. /\ onHand' \in [Products -> Int] /\ NeverOversold'
      /\ \A p \in Products \ Touched(call) : onHand'[p] = onHand[p]
  BY <1>1, <1>3, StockAfterCommit
<1>5. /\ request' \in [Requests -> RequestState] /\ request'[r].pc = "answer"
      /\ \A q \in Requests : Fits(request'[q])
      /\ \A q \in Requests \ {r} :
           \/ request'[q].pc = "commit" /\ request'[q].doomed
           \/ /\ request'[q] = request[q]
              /\ request[q].pc = "commit" => ~Conflicting(call, request[q].call)
  BY <1>1, <1>3, Survivors
<1>6. TypeOK'
  BY <1>2, <1>3, <1>4, <1>5 DEF TradingInv, TypeOK
<1>7. PostedWithItsDocument' /\ InvoicedSalesHaveLeft' /\ InvoicesNameSales'
  BY <1>3 DEF TradingInv, PostedWithItsDocument, InvoicedSalesHaveLeft, InvoicesNameSales
<1>8. ASSUME NEW q \in Requests PROVE Sound(request[q])' /\ Fits(request[q])'
  <2>1. CASE q = r
    BY <1>5, <2>1 DEF Sound, Fits
  <2>2. CASE request'[q].pc = "commit" /\ request'[q].doomed
    BY <1>5, <2>2 DEF Sound, Fits
  <2>3. CASE /\ request'[q] = request[q]
             /\ request[q].pc = "commit" => ~Conflicting(call, request[q].call)
    <3>1. Sound(request[q]) /\ Fits(request[q])
      BY DEF TradingInv
    <3>2. ASSUME request[q].pc = "commit", ~request[q].doomed
          PROVE  /\ Sufficient(request[q].call)'
                 /\ request[q].call.op = "move" => ~Used(request[q].call.key)'
      <4>1. /\ request[q].call \in Calls /\ request[q].call.op \in {"move", "confirm"}
            /\ Touched(request[q].call) \cap Touched(call) = {}
            /\ Touched(request[q].call) \subseteq Products
        BY <2>3, <3>1, <3>2, TouchedType DEF Fits, Conflicting
      <4>2. \A p \in Touched(request[q].call) : onHand'[p] = onHand[p]
        BY <1>4, <4>1
      <4>3. request[q].call.op = "move" =>
              /\ ~Used(request[q].call.key)
              /\ request[q].call.key = call.key => call.key = None
              /\ request[q].call.key \in Keys \cup {None}
        BY <1>1, <2>3, <3>1, <3>2, <4>1, CallTypes DEF Sound, Conflicting, MoveCall
      <4>4. Sufficient(request[q].call)'
        BY <2>3, <3>1, <3>2, <4>2 DEF Sound, Sufficient, Used
      <4> QED BY <1>3, <2>3, <4>3, <4>4 DEF Used
    <3> QED BY <1>3, <2>3, <3>1, <3>2 DEF Sound, Fits
  <2> QED BY <1>5, <2>1, <2>2, <2>3
<1> QED BY <1>4, <1>6, <1>7, <1>8 DEF TradingInv

LEMMA CommitConfirmKeeps ==
  ASSUME TradingInv, NEW r \in Requests, CommitConfirm(r)
  PROVE  TradingInv'
<1>1. PICK call \in Calls : /\ call = request[r].call /\ request[r].pc = "commit"
                            /\ call.op = "confirm" /\ Sufficient(call)
                            /\ doc[call.doc].status = "DRAFT"
  BY DEF CommitConfirm, TradingInv, Fits, Sound
<1>2. PICK d \in Documents : d = call.doc
  BY <1>1, CallTypes
<1>3. PICK new : new = [doc[d] EXCEPT !.status = "CONFIRMED"]
  OBVIOUS
<1>4. /\ onHand' = [p \in Products |-> onHand[p] + CallEffect(call)[p]]
      /\ posted' = [posted EXCEPT ![d] = @ + 1] /\ doc' = [doc EXCEPT ![d] = new]
      /\ Committed(r) /\ UNCHANGED <<keyed, invoice, counter>>
  BY <1>1, <1>2, <1>3 DEF CommitConfirm
<1>5. new \in DocumentRow /\ new.status = "CONFIRMED" /\ posted[d] = 0
  BY <1>1, <1>2, <1>3 DEF TradingInv, TypeOK, DocumentRow, PostedWithItsDocument
<1>6. /\ onHand' \in [Products -> Int] /\ NeverOversold'
      /\ \A p \in Products \ Touched(call) : onHand'[p] = onHand[p]
  BY <1>1, <1>4, StockAfterCommit
<1>7. /\ request' \in [Requests -> RequestState] /\ request'[r].pc = "answer"
      /\ \A q \in Requests : Fits(request'[q])
      /\ \A q \in Requests \ {r} :
           \/ request'[q].pc = "commit" /\ request'[q].doomed
           \/ /\ request'[q] = request[q]
              /\ request[q].pc = "commit" => ~Conflicting(call, request[q].call)
  BY <1>1, <1>4, Survivors
<1>8. \A e \in Documents : /\ posted'[e] = (IF e = d THEN 1 ELSE posted[e])
                           /\ doc'[e] = IF e = d THEN new ELSE doc[e]
  BY <1>4, <1>5 DEF TradingInv, TypeOK
<1>9. TypeOK'
  BY <1>4, <1>5, <1>6, <1>7 DEF TradingInv, TypeOK
<1>10. PostedWithItsDocument'
  BY <1>5, <1>8 DEF TradingInv, PostedWithItsDocument
<1>11. InvoicedSalesHaveLeft' /\ InvoicesNameSales'
  BY <1>4, <1>8 DEF TradingInv, InvoicedSalesHaveLeft, InvoicesNameSales, Documents
<1>12. ASSUME NEW q \in Requests PROVE Sound(request[q])' /\ Fits(request[q])'
  <2>1. CASE q = r
    BY <1>7, <2>1 DEF Sound, Fits
  <2>2. CASE request'[q].pc = "commit" /\ request'[q].doomed
    BY <1>7, <2>2 DEF Sound, Fits
  <2>3. CASE /\ request'[q] = request[q]
             /\ request[q].pc = "commit" => ~Conflicting(call, request[q].call)
    <3>1. Sound(request[q]) /\ Fits(request[q])
      BY DEF TradingInv
    <3>2. ASSUME request[q].pc = "commit", ~request[q].doomed
          PROVE  /\ Sufficient(request[q].call)'
                 /\ request[q].call.op = "confirm" => doc'[request[q].call.doc].status = "DRAFT"
      <4>1. /\ request[q].call \in Calls /\ request[q].call.op \in {"move", "confirm"}
            /\ Touched(request[q].call) \cap Touched(call) = {}
            /\ Touched(request[q].call) \subseteq Products
        BY <2>3, <3>1, <3>2, TouchedType DEF Fits, Conflicting
      <4>2. \A p \in Touched(request[q].call) : onHand'[p] = onHand[p]
        BY <1>6, <4>1
      <4>3. request[q].call.op = "confirm" => request[q].call.doc \in Documents \ {d}
        BY <1>1, <1>2, <2>3, <3>2, <4>1, CallTypes DEF Conflicting
      <4>4. Sufficient(request[q].call)'
        BY <2>3, <3>1, <3>2, <4>2 DEF Sound, Sufficient, Used
      <4> QED BY <1>8, <3>1, <3>2, <4>3, <4>4 DEF Sound
    <3>3. request[q].call.op = "invoice" /\ request[q].pc # "idle" =>
            request[q].call.sale \in Documents
      BY <3>1, CallTypes DEF Fits, InvoiceCall, Documents
    <3> QED BY <1>4, <1>8, <2>3, <3>1, <3>2, <3>3 DEF Sound, Fits, Used
  <2> QED BY <1>7, <2>1, <2>2, <2>3
<1> QED BY <1>6, <1>9, <1>10, <1>11, <1>12 DEF TradingInv

LEMMA NextTrading == TradingInv /\ [Next]_vars => TradingInv'
<1> SUFFICES ASSUME TradingInv, [Next]_vars PROVE TradingInv'
  OBVIOUS
<1>1. CASE UNCHANGED vars
  BY <1>1 DEF vars, TradingInv, TypeOK, NeverOversold, PostedWithItsDocument,
              InvoicedSalesHaveLeft, InvoicesNameSales, Fits, Sound, Sufficient, Used
<1>2. ASSUME NEW r \in Requests, NEW call \in Calls, Accept(r, call) PROVE TradingInv'
  BY <1>2, AcceptKeeps
<1>3. ASSUME NEW r \in Requests, Step(r) PROVE TradingInv'
  <2>1. ASSUME NEW d \in Documents, InsertDraft(r, d) PROVE TradingInv'
    BY <2>1, InsertDraftKeeps
  <2>2. ASSUME NEW i \in Invoices, InsertInvoice(r, i) PROVE TradingInv'
    BY <2>2, InsertInvoiceKeeps
  <2>3. CASE CommitMovement(r) \/ CommitConfirm(r) \/ SerializationFails(r)
    BY <2>3, CommitMovementKeeps, CommitConfirmKeeps, SerializationFailsKeeps
  <2>4. CASE Cancel(r) \/ SetStatus(r) \/ Respond(r)
    BY <2>4, CancelKeeps, SetStatusKeeps, RespondKeeps
  <2>5. CASE \/ LookUpDraft(r) \/ BeginMovement(r) \/ BeginConfirm(r) \/ ReadForCancel(r)
             \/ LookUpInvoice(r) \/ ReadSale(r) \/ CheckNotInvoiced(r) \/ InsertInvoiceFails(r)
             \/ Recover(r) \/ RecoverBySale(r) \/ ReadForStatus(r)
    BY <2>5, ReadsKeep
  <2> QED BY <1>3, <2>1, <2>2, <2>3, <2>4, <2>5 DEF Step
<1> QED BY <1>1, <1>2, <1>3 DEF Next

LEMMA TradingInvariant == Spec => []TradingInv
<1>1. Init => TradingInv
  BY InitTrading
<1>2. TradingInv /\ [Next]_vars => TradingInv'
  BY NextTrading
<1> QED BY <1>1, <1>2, PTL DEF Spec

\* The tables and the requests keep their shapes, whatever the calls and their
\* interleavings.
THEOREM TradingTypes == Spec => []TypeOK
<1>1. TradingInv => TypeOK
  BY DEF TradingInv
<1> QED BY <1>1, TradingInvariant, PTL

\* No product is ever sold that is not there: the read of applyMovement and its insertion
\* are protected by SERIALIZABLE.
THEOREM StockIsThere == Spec => []NeverOversold
<1>1. TradingInv => NeverOversold
  BY DEF TradingInv
<1> QED BY <1>1, TradingInvariant, PTL

\* A document posts its movements once, in the transaction that confirms it.
THEOREM PostedOnce == Spec => []PostedWithItsDocument
<1>1. TradingInv => PostedWithItsDocument
  BY DEF TradingInv
<1> QED BY <1>1, TradingInvariant, PTL

\* A transaction that can still commit has read nothing that has changed since.
THEOREM SnapshotsAreCurrent == Spec => []SnapshotsHold
<1>1. TradingInv => SnapshotsHold
  BY DEF TradingInv, Sound, SnapshotsHold
<1> QED BY <1>1, TradingInvariant, PTL

\* InvoicingRepository.create only invoices sales whose goods have left the stock.
THEOREM InvoicedHaveLeft == Spec => []InvoicedSalesHaveLeft
<1>1. TradingInv => InvoicedSalesHaveLeft
  BY DEF TradingInv
<1> QED BY <1>1, TradingInvariant, PTL

-----------------------------------------------------------------------------
(* Trading implements Inventory.                                           *)

Posted == {d \in Documents : posted[d] > 0}

\* Every step is a posting, a movement by hand, or invisible.
LEMMA StockSteps ==
  ASSUME TradingInv, [Next]_vars
  PROVE  [Stock!Next]_(Stock!inventory)
<1> USE DEF Stock!inventory
<1>1. CASE UNCHANGED <<onHand, posted, keyed>>
  BY <1>1
<1>2. ASSUME NEW r \in Requests, CommitMovement(r)
      PROVE  Stock!Next
  <2>1. PICK call \in Calls : /\ call = request[r].call /\ request[r].pc = "commit"
                              /\ call.op = "move" /\ ~request[r].doomed
    BY <1>2 DEF CommitMovement, TradingInv, Fits
  <2>2. /\ call \in MoveCall /\ call.product \in Products /\ call.key \in Keys \cup {None}
    BY <2>1, CallTypes DEF MoveCall
  <2>3. PICK delta : delta = Delta(call.type, call.quantity)
    OBVIOUS
  <2>4. CallEffect(call) = [p \in Products |-> IF p = call.product THEN delta ELSE 0]
    BY <2>1, <2>3 DEF CallEffect
  <2>5. /\ onHand' = [p \in Products |-> onHand[p] + CallEffect(call)[p]]
        /\ keyed' = [k \in Keys |-> IF k = call.key THEN keyed[k] + 1 ELSE keyed[k]]
        /\ UNCHANGED posted
    BY <1>2, <2>1 DEF CommitMovement
  <2>6. Sufficient(call) /\ ~Used(call.key)
    BY <2>1 DEF TradingInv, Sound
  <2>7. keyed \in [Keys -> Nat] /\ (call.key # None => keyed[call.key] = 0)
    BY <2>2, <2>6 DEF Used, TradingInv, TypeOK
  <2>8. delta \in Int /\ onHand \in [Products -> Int]
    BY <2>2, <2>3 DEF MoveCall, Delta, TradingInv, TypeOK
  <2>9. onHand' = [onHand EXCEPT ![call.product] = @ + delta]
    <3>1. \A p \in Products :
            onHand[p] + CallEffect(call)[p]
              = IF p = call.product THEN onHand[p] + delta ELSE onHand[p]
      BY <2>4, <2>8
    <3>2. onHand' = [p \in Products |->
                      IF p = call.product THEN onHand[p] + delta ELSE onHand[p]]
      BY <2>5, <3>1
    <3> QED BY <2>2, <2>8, <3>2
  <2>10. onHand[call.product] + delta >= 0
    BY <2>1, <2>2, <2>4, <2>6 DEF Sufficient, Touched
  <2>11. keyed' = IF call.key = None THEN keyed ELSE [keyed EXCEPT ![call.key] = 1]
    <3>1. CASE call.key = None
      <4>1. \A k \in Keys : k # call.key
        BY <3>1, TradingAssumption
      <4> QED BY <2>5, <2>7, <3>1, <4>1
    <3>2. CASE call.key # None
      <4>1. keyed' = [k \in Keys |-> IF k = call.key THEN 1 ELSE keyed[k]]
        BY <2>5, <2>7, <3>2
      <4> QED BY <2>7, <3>2, <4>1
    <3> QED BY <3>1, <3>2
  <2>12. Stock!Move(call.product, delta, call.key)
    BY <2>5, <2>7, <2>6, <2>9, <2>10, <2>11 DEF Stock!Move
  <2>13. delta \in {Delta(c.type, c.quantity) : c \in {k \in Calls : k.op = "move"}}
    BY <2>1, <2>3
  <2> QED BY <2>2, <2>12, <2>13 DEF Stock!Next
<1>3. ASSUME NEW r \in Requests, CommitConfirm(r)
      PROVE  Stock!Next
  <2>1. PICK call \in Calls : /\ call = request[r].call /\ request[r].pc = "commit"
                              /\ call.op = "confirm" /\ Sufficient(call)
                              /\ doc[call.doc].status = "DRAFT"
    BY <1>3 DEF CommitConfirm, TradingInv, Fits, Sound
  <2>2. PICK d \in Documents : d = call.doc
    BY <2>1, CallTypes
  <2>3. posted[d] = 0 /\ posted \in [Documents -> Nat]
    BY <2>1, <2>2 DEF TradingInv, TypeOK, PostedWithItsDocument
  <2>4. /\ onHand' = [p \in Products |-> onHand[p] + Effect[d][p]]
        /\ posted' = [posted EXCEPT ![d] = @ + 1]
        /\ UNCHANGED keyed
    BY <1>3, <2>1, <2>2 DEF CommitConfirm, CallEffect
  <2>5. \A p \in Products : onHand'[p] >= 0
    BY <1>3, CommitConfirmKeeps DEF TradingInv, NeverOversold
  <2>6. d \notin Posted /\ Posted' = Posted \cup {d}
    BY <2>3, <2>4 DEF Posted
  <2>7. Stock!Post(d)
    BY <2>4, <2>5, <2>6 DEF Stock!Post, Posted
  <2> QED BY <2>2, <2>7 DEF Stock!Next
<1>4. ASSUME NEW r \in Requests, Step(r), ~CommitMovement(r), ~CommitConfirm(r)
      PROVE  UNCHANGED <<onHand, posted, keyed>>
  BY <1>4 DEF Step, tables, LookUpDraft, InsertDraft, BeginMovement, BeginConfirm,
     SerializationFails, ReadForCancel, Cancel, LookUpInvoice, ReadSale, CheckNotInvoiced,
     InsertInvoice, InsertInvoiceFails, Recover, RecoverBySale, ReadForStatus, SetStatus, Respond
<1>5. ASSUME NEW r \in Requests, NEW call \in Calls, Accept(r, call)
      PROVE  UNCHANGED <<onHand, posted, keyed>>
  BY <1>5 DEF Accept, tables
<1> QED BY <1>1, <1>2, <1>3, <1>4, <1>5 DEF Next, vars

\* Whatever races, retries and fails, the stock of the tenant moves as Inventory says.
THEOREM TradingKeepsStock == Spec => ImplementsInventory
<1>1. Init => Stock!Init
  BY DEF Init, Stock!Init
<1>2. TradingInv /\ [Next]_vars => [Stock!Next]_(Stock!inventory)
  BY StockSteps
<1> QED BY <1>1, <1>2, TradingInvariant, PTL DEF Spec, ImplementsInventory, Stock!Spec

-----------------------------------------------------------------------------
(* Invoices and drafts are regular.                                        *)

Issued == {i \in Invoices : invoice[i].status # "NONE"}

\* An invoice is issued for a sale and a key that have none, under the next number.
Issues(i) ==
  /\ i \in Invoices \ Issued /\ Issued' = Issued \cup {i}
  /\ counter' = counter + 1 /\ invoice'[i].number = counter'
  /\ InvoiceBySale(invoice'[i].sale) = {}
  /\ InvoiceByKey(invoice'[i].key) = {}
  /\ \A j \in Issued : invoice'[j] = invoice[j]

\* An invoice keeps what it was issued with.
KeepsIssued ==
  /\ Issued' = Issued /\ counter' = counter
  /\ \A i \in Issued : /\ invoice'[i].number = invoice[i].number
                       /\ invoice'[i].sale = invoice[i].sale
                       /\ invoice'[i].key = invoice[i].key

LEMMA InvoiceMoves ==
  ASSUME TradingInv, [Next]_vars
  PROVE  KeepsIssued \/ \E i \in Invoices : Issues(i)
<1>1. UNCHANGED <<invoice, counter>> => KeepsIssued
  BY DEF KeepsIssued, Issued
<1>2. ASSUME NEW r \in Requests, NEW i \in Invoices, InsertInvoice(r, i)
      PROVE  KeepsIssued \/ Issues(i)
  <2> DEFINE call == request[r].call
             row == [status |-> "ISSUED", sale |-> call.sale, number |-> counter',
                     key |-> call.key]
  <2>1. CASE InvoiceByKey(call.key) # {} \/ InvoiceBySale(call.sale) # {}
    BY <1>1, <1>2, <2>1 DEF InsertInvoice
  <2>2. CASE ~(InvoiceByKey(call.key) # {} \/ InvoiceBySale(call.sale) # {})
    <3>1. /\ invoice[i].status = "NONE" /\ counter' = counter + 1
          /\ invoice' = [invoice EXCEPT ![i] = row]
      BY <1>2, <2>2 DEF InsertInvoice
    <3>2. /\ invoice'[i].status = "ISSUED" /\ invoice'[i].number = counter'
          /\ invoice'[i].sale = call.sale /\ invoice'[i].key = call.key
          /\ \A j \in Invoices \ {i} : invoice'[j] = invoice[j]
      BY <3>1 DEF TradingInv, TypeOK
    <3>3. i \notin Issued /\ Issued' = Issued \cup {i}
      BY <3>1, <3>2 DEF Issued
    <3> QED BY <2>2, <3>1, <3>2, <3>3 DEF Issues, Issued
  <2> QED BY <2>1, <2>2
<1>3. ASSUME NEW r \in Requests, SetStatus(r)
      PROVE  KeepsIssued
  <2>1. /\ request[r].pc = "status" /\ request[r].call \in Calls
        /\ request[r].call.op \in {"PAID", "VOID"}
        /\ invoice[request[r].call.invoice].status # "NONE"
        /\ request[r].call.invoice \in Invoices
    BY <1>3, CallTypes DEF SetStatus, TradingInv, Fits, Sound, StatusCall
  <2>2. PICK i \in Issued, op \in {"PAID", "VOID"} :
          invoice' = [invoice EXCEPT ![i] = [@ EXCEPT !.status = op]] /\ counter' = counter
    BY <1>3, <2>1 DEF SetStatus, Issued
  <2>3. invoice[i] \in InvoiceRow
    BY DEF TradingInv, TypeOK, Issued
  <2>4. /\ invoice'[i].status = op /\ invoice'[i].number = invoice[i].number
        /\ invoice'[i].sale = invoice[i].sale /\ invoice'[i].key = invoice[i].key
        /\ \A j \in Invoices \ {i} : invoice'[j] = invoice[j]
    BY <2>2, <2>3 DEF TradingInv, TypeOK, InvoiceRow, Issued
  <2>5. Issued' = Issued
    BY <2>4 DEF Issued
  <2> QED BY <2>2, <2>4, <2>5 DEF KeepsIssued, Issued
<1>4. ASSUME NEW r \in Requests, Step(r), ~SetStatus(r),
             \A i \in Invoices : ~InsertInvoice(r, i)
      PROVE  UNCHANGED <<invoice, counter>>
  BY <1>4 DEF Step, tables, LookUpDraft, InsertDraft, BeginMovement, BeginConfirm,
     CommitMovement, CommitConfirm, SerializationFails, ReadForCancel, Cancel, LookUpInvoice,
     ReadSale, CheckNotInvoiced, InsertInvoiceFails, Recover, RecoverBySale, ReadForStatus,
     Respond
<1>5. ASSUME NEW r \in Requests, NEW call \in Calls, Accept(r, call)
      PROVE  UNCHANGED <<invoice, counter>>
  BY <1>5 DEF Accept, tables
<1> QED BY <1>1, <1>2, <1>3, <1>4, <1>5 DEF Next, vars

LEMMA RegularStays ==
  ASSUME TradingInv, InvoicesAreRegular, [Next]_vars
  PROVE  InvoicesAreRegular'
<1>0. /\ counter \in Nat /\ invoice \in [Invoices -> InvoiceRow]
      /\ TypeOK'
  BY NextTrading DEF TradingInv, TypeOK
<1>1. /\ {invoice[i].number : i \in Issued} = 1..counter
      /\ \A i, j \in Issued :
           \/ invoice[i].number = invoice[j].number
           \/ invoice[i].sale = invoice[j].sale
           \/ invoice[i].key = invoice[j].key /\ invoice[i].key # None
           => i = j
  BY DEF InvoicesAreRegular, Issued
<1>2. SUFFICES
        /\ {invoice'[i].number : i \in Issued'} = 1..counter'
        /\ \A i, j \in Issued' :
             \/ invoice'[i].number = invoice'[j].number
             \/ invoice'[i].sale = invoice'[j].sale
             \/ invoice'[i].key = invoice'[j].key /\ invoice'[i].key # None
             => i = j
  BY DEF InvoicesAreRegular, Issued
<1>3. CASE KeepsIssued
  BY <1>1, <1>3 DEF KeepsIssued
<1>4. ASSUME NEW i \in Invoices, Issues(i)
      PROVE  /\ {invoice'[j].number : j \in Issued'} = 1..counter'
             /\ \A j, k \in Issued' :
                  \/ invoice'[j].number = invoice'[k].number
                  \/ invoice'[j].sale = invoice'[k].sale
                  \/ invoice'[j].key = invoice'[k].key /\ invoice'[j].key # None
                  => j = k
  <2>1. /\ Issued' = Issued \cup {i} /\ i \notin Issued
        /\ counter' = counter + 1 /\ invoice'[i].number = counter + 1
        /\ \A j \in Issued : invoice'[j] = invoice[j]
    BY <1>4 DEF Issues
  <2>2. {invoice'[j].number : j \in Issued'} = {invoice[j].number : j \in Issued} \cup {counter + 1}
    BY <2>1
  <2>3. 1..counter' = (1..counter) \cup {counter + 1}
    BY <1>0, <2>1
  <2>4. ASSUME NEW j \in Issued
        PROVE  /\ invoice[j].number # counter + 1
               /\ invoice[j].sale # invoice'[i].sale
               /\ ~(invoice[j].key = invoice'[i].key /\ invoice[j].key # None)
    <3>1. invoice[j].number \in 1..counter
      BY <1>1
    <3>2. invoice[j].number # counter + 1
      BY <1>0, <3>1
    <3>3. invoice[j].sale # invoice'[i].sale
      <4>1. j \notin InvoiceBySale(invoice'[i].sale)
        BY <1>4 DEF Issues
      <4> QED BY <4>1 DEF InvoiceBySale, Issued
    <3>4. ~(invoice[j].key = invoice'[i].key /\ invoice[j].key # None)
      <4>1. j \notin InvoiceByKey(invoice'[i].key)
        BY <1>4 DEF Issues
      <4> QED BY <4>1 DEF InvoiceByKey, Issued
    <3> QED BY <3>2, <3>3, <3>4
  <2> QED BY <1>1, <2>1, <2>2, <2>3, <2>4
<1> QED BY <1>3, <1>4, InvoiceMoves

\* InvoicingRepository.create numbers the invoices of a tenant without a gap, although
\* requests that fail take a number too: the counter is rolled back with the invoice. Two
\* requests for one sale, or with one key, leave one invoice.
THEOREM InvoicesStayRegular == Spec => []InvoicesAreRegular
<1>1. Init => InvoicesAreRegular
  <2> SUFFICES ASSUME Init PROVE InvoicesAreRegular
    OBVIOUS
  <2>1. Issued = {} /\ counter = 0
    BY DEF Init, Issued
  <2>2. {invoice[i].number : i \in Issued} = 1..counter
    BY <2>1
  <2> QED BY <2>1, <2>2 DEF InvoicesAreRegular, Issued
<1>2. TradingInv /\ InvoicesAreRegular /\ [Next]_vars => InvoicesAreRegular'
  BY RegularStays
<1> QED BY <1>1, <1>2, TradingInvariant, PTL DEF Spec

\* A cancellation under way names a document that exists: documents are never removed.
CancelsNameRows ==
  \A r \in Requests : request[r].pc = "cancel" => doc[request[r].call.doc].status # "NONE"

\* A draft is created under a key its table does not hold, and every document keeps its key.
DocumentMoves ==
  \A d \in Documents :
    \/ doc'[d].status = doc[d].status /\ doc'[d].key = doc[d].key
    \/ doc[d].status # "NONE" /\ doc'[d].status # "NONE" /\ doc'[d].key = doc[d].key
    \/ /\ doc[d].status = "NONE" /\ doc'[d].status # "NONE"
       /\ ~KeyTaken(TableOf(d), doc'[d].key)
       /\ \A e \in Documents \ {d} : doc'[e] = doc[e]

LEMMA DocumentsMove ==
  ASSUME TradingInv, CancelsNameRows, [Next]_vars
  PROVE  DocumentMoves
<1>1. CASE UNCHANGED doc
  BY <1>1 DEF DocumentMoves
<1>2. ASSUME NEW r \in Requests, NEW d \in Documents, InsertDraft(r, d)
      PROVE  DocumentMoves
  <2> DEFINE row == [status |-> "DRAFT", key |-> request[r].call.key]
  <2>1. CASE KeyTaken(request[r].call.table, request[r].call.key)
    BY <1>1, <1>2, <2>1 DEF InsertDraft
  <2>2. CASE ~KeyTaken(request[r].call.table, request[r].call.key)
    <3>1. /\ doc' = [doc EXCEPT ![d] = row] /\ doc[d].status = "NONE"
          /\ TableOf(d) = request[r].call.table
      BY <1>2, <2>2 DEF InsertDraft
    <3>2. /\ doc'[d] = row /\ \A e \in Documents \ {d} : doc'[e] = doc[e]
      BY <3>1 DEF TradingInv, TypeOK
    <3> QED BY <2>2, <3>1, <3>2 DEF DocumentMoves
  <2> QED BY <2>1, <2>2
<1>3. ASSUME NEW d \in Documents, NEW status \in {"CONFIRMED", "CANCELLED"},
             doc[d].status # "NONE", doc' = [doc EXCEPT ![d] = [@ EXCEPT !.status = status]]
      PROVE  DocumentMoves
  <2>1. doc[d] \in DocumentRow
    BY DEF TradingInv, TypeOK
  <2>2. /\ doc'[d].status = status /\ doc'[d].key = doc[d].key
        /\ \A e \in Documents \ {d} : doc'[e] = doc[e]
    BY <1>3, <2>1 DEF TradingInv, TypeOK, DocumentRow
  <2> QED BY <1>3, <2>2 DEF DocumentMoves
<1>4. ASSUME NEW r \in Requests, CommitConfirm(r)
      PROVE  DocumentMoves
  <2>1. /\ request[r].call \in Calls /\ request[r].call.op = "confirm"
        /\ doc[request[r].call.doc].status = "DRAFT"
    BY <1>4 DEF CommitConfirm, TradingInv, Fits, Sound
  <2>2. PICK d \in Documents : d = request[r].call.doc
    BY <2>1, CallTypes
  <2>3. doc' = [doc EXCEPT ![d] = [@ EXCEPT !.status = "CONFIRMED"]]
    BY <1>4, <2>2 DEF CommitConfirm
  <2> QED BY <1>3, <2>1, <2>2, <2>3
<1>5. ASSUME NEW r \in Requests, Cancel(r)
      PROVE  DocumentMoves
  <2>1. /\ request[r].call \in Calls /\ request[r].call.op = "cancel"
        /\ doc[request[r].call.doc].status # "NONE"
    BY <1>5 DEF Cancel, TradingInv, Fits, CancelsNameRows
  <2>2. PICK d \in Documents : d = request[r].call.doc
    BY <2>1, CallTypes
  <2>3. doc' = [doc EXCEPT ![d] = [@ EXCEPT !.status = "CANCELLED"]]
    BY <1>5, <2>2 DEF Cancel
  <2> QED BY <1>3, <2>1, <2>2, <2>3
<1>6. ASSUME NEW r \in Requests, Step(r), ~CommitConfirm(r), ~Cancel(r),
             \A d \in Documents : ~InsertDraft(r, d)
      PROVE  UNCHANGED doc
  BY <1>6 DEF Step, tables, LookUpDraft, BeginMovement, BeginConfirm,
     CommitMovement, SerializationFails, ReadForCancel, LookUpInvoice, ReadSale,
     CheckNotInvoiced, InsertInvoice, InsertInvoiceFails, Recover, RecoverBySale,
     ReadForStatus, SetStatus, Respond
<1>7. ASSUME NEW r \in Requests, NEW call \in Calls, Accept(r, call)
      PROVE  UNCHANGED doc
  BY <1>7 DEF Accept, tables
<1> QED BY <1>1, <1>2, <1>4, <1>5, <1>6, <1>7 DEF Next, vars

\* A request that is to cancel has just read the draft, or has not moved.
LEMMA CancelMoves ==
  ASSUME TradingInv, [Next]_vars, NEW r \in Requests, request'[r].pc = "cancel"
  PROVE  \/ request[r].pc = "cancel" /\ request'[r].call = request[r].call
         \/ doc[request'[r].call.doc].status = "DRAFT"
<1>0. \A q \in Requests : request[q] \in RequestState
  BY DEF TradingInv, TypeOK
<1>1. ASSUME NEW q \in Requests, NEW next,
             request' = [request EXCEPT ![q] = next], next.pc # "cancel"
      PROVE  request'[r] = request[r]
  BY <1>1 DEF TradingInv, TypeOK
<1>2. ASSUME NEW q \in Requests, NEW reply, Answer(q, reply)
      PROVE  request'[r] = request[r]
  <2>1. [request[q] EXCEPT !.pc = "answer", !.reply = reply].pc = "answer"
    BY <1>0 DEF RequestState
  <2> QED BY <1>1, <1>2, <2>1 DEF Answer
<1>3. ASSUME NEW q \in Requests, NEW label, label # "cancel", Goto(q, label)
      PROVE  request'[r] = request[r]
  <2>1. [request[q] EXCEPT !.pc = label].pc = label
    BY <1>0 DEF RequestState
  <2> QED BY <1>1, <1>3, <2>1 DEF Goto
<1>4. ASSUME NEW q \in Requests, Step(q)
      PROVE  \/ request'[r] = request[r]
             \/ request[r].pc = "cancel" /\ request'[r].call = request[r].call
             \/ doc[request'[r].call.doc].status = "DRAFT"
  <2>1. CASE ReadForCancel(q)
    <3>1. CASE doc[request[q].call.doc].status # "DRAFT"
      BY <1>2, <2>1, <3>1 DEF ReadForCancel
    <3>2. CASE doc[request[q].call.doc].status = "DRAFT"
      <4>1. [request[q] EXCEPT !.pc = "cancel"].call = request[q].call
        BY <1>0 DEF RequestState
      <4>2. request' = [request EXCEPT ![q] = [request[q] EXCEPT !.pc = "cancel"]]
        BY <2>1, <3>2 DEF ReadForCancel, Goto
      <4> QED BY <3>2, <4>1, <4>2 DEF TradingInv, TypeOK
    <3> QED BY <3>1, <3>2
  <2>2. CASE Cancel(q) \/ CommitMovement(q) \/ CommitConfirm(q)
    <3>1. \/ request'[r] = [request[r] EXCEPT !.pc = "answer", !.reply = "done"]
          \/ request'[r] = [request[r] EXCEPT !.doomed = TRUE]
          \/ request'[r] = request[r]
      BY <2>2 DEF Cancel, CommitMovement, CommitConfirm, Committed
    <3>2. /\ [request[r] EXCEPT !.pc = "answer", !.reply = "done"].pc = "answer"
          /\ [request[r] EXCEPT !.doomed = TRUE].pc = request[r].pc
          /\ [request[r] EXCEPT !.doomed = TRUE].call = request[r].call
      BY <1>0 DEF RequestState
    <3> QED BY <3>1, <3>2
  <2>3. CASE SerializationFails(q)
    <3>1. [request[q] EXCEPT !.pc = "begin", !.doomed = FALSE,
                             !.attempt = request[q].attempt + 1].pc = "begin"
      BY <1>0 DEF RequestState
    <3> QED BY <1>1, <1>2, <2>3, <3>1 DEF SerializationFails
  <2>4. CASE Respond(q)
    BY <1>1, <2>4 DEF Respond, IdleRequest
  <2>5. CASE LookUpDraft(q) \/ (\E d \in Documents : InsertDraft(q, d))
    BY <1>2, <1>3, <2>5 DEF LookUpDraft, InsertDraft
  <2>6. CASE BeginMovement(q) \/ BeginConfirm(q)
    BY <1>2, <1>3, <2>6 DEF BeginMovement, BeginConfirm
  <2>7. CASE LookUpInvoice(q) \/ ReadSale(q) \/ CheckNotInvoiced(q)
    BY <1>2, <1>3, <2>7 DEF LookUpInvoice, ReadSale, CheckNotInvoiced
  <2>8. CASE (\E i \in Invoices : InsertInvoice(q, i)) \/ InsertInvoiceFails(q)
    BY <1>2, <1>3, <2>8 DEF InsertInvoice, InsertInvoiceFails
  <2>9. CASE Recover(q) \/ RecoverBySale(q) \/ ReadForStatus(q) \/ SetStatus(q)
    BY <1>2, <1>3, <2>9 DEF Recover, RecoverBySale, ReadForStatus, SetStatus
  <2> QED BY <1>4, <2>1, <2>2, <2>3, <2>4, <2>5, <2>6, <2>7, <2>8, <2>9 DEF Step
<1>5. ASSUME NEW q \in Requests, NEW call \in Calls, Accept(q, call)
      PROVE  request'[r] = request[r]
  <2>1. [IdleRequest EXCEPT !.pc = "begin", !.call = call].pc = "begin"
    BY DEF IdleRequest
  <2> QED BY <1>1, <1>5, <2>1 DEF Accept
<1>6. CASE UNCHANGED vars
  BY <1>6 DEF vars
<1> QED BY <1>4, <1>5, <1>6 DEF Next

LEMMA OneDraftStays ==
  ASSUME TradingInv, CancelsNameRows, OneDraftPerKey, [Next]_vars
  PROVE  CancelsNameRows' /\ OneDraftPerKey'
<1>1. DocumentMoves
  BY DocumentsMove
<1>2. ASSUME NEW r \in Requests, request'[r].pc = "cancel"
      PROVE  doc'[request'[r].call.doc].status # "NONE"
  <2>1. doc[request'[r].call.doc].status # "NONE"
    BY <1>2, CancelMoves DEF CancelsNameRows
  <2>2. request'[r].call.doc \in Documents
    BY <1>2, NextTrading, CallTypes DEF TradingInv, Fits
  <2> QED BY <1>1, <2>1, <2>2 DEF DocumentMoves
<1>3. CancelsNameRows'
  BY <1>2 DEF CancelsNameRows
<1>4. ASSUME NEW d \in Documents, NEW e \in Documents,
             doc'[d].status # "NONE", doc'[e].status # "NONE",
             TableOf(d) = TableOf(e), doc'[d].key = doc'[e].key, doc'[d].key # None
      PROVE  d = e
  <2>1. CASE doc[d].status # "NONE" /\ doc[e].status # "NONE"
    BY <1>1, <1>4, <2>1 DEF DocumentMoves, OneDraftPerKey
  <2>2. CASE doc[d].status = "NONE"
    BY <1>1, <1>4, <2>2 DEF DocumentMoves, KeyTaken
  <2>3. CASE doc[e].status = "NONE"
    BY <1>1, <1>4, <2>3 DEF DocumentMoves, KeyTaken
  <2> QED BY <2>1, <2>2, <2>3
<1> QED BY <1>3, <1>4 DEF OneDraftPerKey, TableOf

\* A creation sent again and again with one key, by any number of requests at once, leaves
\* one sale or purchase: the unique index decides, and the handlers never free a key.
THEOREM OneDraftForEveryKey == Spec => []OneDraftPerKey
<1>1. Init => CancelsNameRows /\ OneDraftPerKey
  BY DEF Init, IdleRequest, CancelsNameRows, OneDraftPerKey
<1>2. TradingInv /\ CancelsNameRows /\ OneDraftPerKey /\ [Next]_vars
        => CancelsNameRows' /\ OneDraftPerKey'
  BY OneDraftStays
<1> QED BY <1>1, <1>2, TradingInvariant, PTL DEF Spec
=============================================================================
