--------------------------- MODULE BillingProofs ---------------------------
(***************************************************************************)
(* Theorems about Billing for every set of enterprises, payments, webhook  *)
(* requests, job runs and administrators, and every bound.                 *)
(***************************************************************************)
EXTENDS Billing, FiniteSetTheorems, TLAPS

LEMMA InitConsistent == Init => TypeOK /\ HandlersConsistent
<1> SUFFICES ASSUME Init PROVE TypeOK /\ HandlersConsistent
  OBVIOUS
<1> USE BillingAssumption DEF Init
<1>1. subscription \in [Enterprises -> Subscription]
  BY DEF Subscription, SubscriptionStatus
<1>2. history \in [Enterprises -> Seq(SubscriptionEvent)]
  OBVIOUS
<1>3. payment \in [Payments -> Payment]
  BY DEF Payment, PaymentStatus
<1>4. webhook \in [Webhooks -> WebhookState]
  BY DEF IdleWebhook, WebhookState
<1>5. sweep \in [Sweeps -> SweepState] /\ expirer \in [Expirers -> ExpirerState]
  BY DEF IdleSweep, SweepState, IdleExpirer, ExpirerState
<1>6. admin \in [Admins -> AdminState]
  BY DEF IdleAdmin, AdminState
<1>7. TypeOK
  BY <1>1, <1>2, <1>3, <1>4, <1>5, <1>6 DEF TypeOK
<1>8. HandlersConsistent
  BY DEF HandlersConsistent, OpenedForAnEnterprise, WebhookHolds, SweepHolds, AdminHolds,
         IdleWebhook, IdleSweep, IdleAdmin
<1> QED BY <1>7, <1>8

-----------------------------------------------------------------------------
(* Every step re-establishes the types and what the handlers rely on.      *)

\* When one webhook moves, it is enough to look at its new record, and to know that
\* no payment opened before is forgotten and no claimed one changes status.
LEMMA OneWebhookMoves ==
  ASSUME TypeOK, HandlersConsistent,
         NEW w \in Webhooks, NEW next \in WebhookState,
         webhook' = [webhook EXCEPT ![w] = next],
         \A q \in Payments : payment[q].status # "NONE" => payment'[q].status # "NONE",
         \A v \in Webhooks \ {w} : webhook[v].pc = "commit" =>
           /\ payment'[webhook[v].payment].status = payment[webhook[v].payment].status
           /\ next.pc = "commit" => webhook[v].payment # next.payment,
         next.pc # "idle" => /\ next.payment \in Payments /\ next.event \in EventStatus
                             /\ payment'[next.payment].status # "NONE",
         next.pc = "audit" => next.outcome \in Outcomes,
         next.pc = "commit" => /\ next.seen \in Subscription
                               /\ payment'[next.payment].status = "PENDING"
  PROVE  /\ webhook' \in [Webhooks -> WebhookState]
         /\ \A v \in Webhooks : WebhookHolds(v)'
<1>1. /\ webhook' \in [Webhooks -> WebhookState] /\ webhook'[w] = next
      /\ \A v \in Webhooks \ {w} : webhook'[v] = webhook[v]
  BY DEF TypeOK
<1>2. \A v \in Webhooks : WebhookHolds(v)
  BY DEF HandlersConsistent
<1>3. WebhookHolds(w)'
  BY <1>1 DEF WebhookHolds
<1>4. ASSUME NEW v \in Webhooks \ {w} PROVE WebhookHolds(v)'
  BY <1>1, <1>2 DEF WebhookHolds
<1> QED BY <1>1, <1>3, <1>4

\* When no webhook moves, only the second half of that is left to check.
LEMMA WebhooksStandStill ==
  ASSUME TypeOK, HandlersConsistent, webhook' = webhook,
         \A q \in Payments : payment[q].status # "NONE" => payment'[q].status # "NONE",
         \A q \in Payments : Locked(q) => payment'[q].status = payment[q].status
  PROVE  \A v \in Webhooks : WebhookHolds(v)'
BY DEF HandlersConsistent, WebhookHolds, Locked

LEMMA CreatePendingConsistent ==
  ASSUME TypeOK, HandlersConsistent,
         NEW e \in Enterprises, NEW p \in Payments, CreatePendingPayment(e, p)
  PROVE  TypeOK' /\ HandlersConsistent'
<1> USE DEF CreatePendingPayment, handlers
<1>1. now + PendingTtl \in Nat
  BY BillingAssumption DEF TypeOK
<1>2. payment' \in [Payments -> Payment]
  BY <1>1 DEF TypeOK, Payment, PaymentStatus
<1>3. TypeOK'
  BY <1>2 DEF TypeOK
<1>4. \A q \in Payments : /\ q # p => payment'[q] = payment[q]
                          /\ payment'[p].status = "PENDING"
                          /\ payment'[p].enterprise = e
  BY DEF TypeOK
<1>5. \A v \in Webhooks : WebhookHolds(v)'
  BY <1>4, WebhooksStandStill DEF Locked, HandlersConsistent, WebhookHolds
<1>6. HandlersConsistent'
  BY <1>4, <1>5 DEF HandlersConsistent, OpenedForAnEnterprise, SweepHolds, AdminHolds
<1> QED BY <1>3, <1>6

LEMMA ReceiveConsistent ==
  ASSUME TypeOK, HandlersConsistent, NEW w \in Webhooks, NEW p \in Payments,
         NEW event \in EventStatus, NEW matches \in BOOLEAN, Receive(w, p, event, matches)
  PROVE  TypeOK' /\ HandlersConsistent'
<1> USE DEF Receive, tables
<1> DEFINE next == [IdleWebhook EXCEPT
                      !.pc = IF Overdue(p) THEN "expire" ELSE Classify(p, event),
                      !.payment = p, !.event = event, !.readAt = now]
<1>1. Classify(p, event) \in {"ignored", "conflict", "claim"}
  BY DEF Classify
<1>2. /\ next \in WebhookState /\ next.payment = p /\ next.event = event
      /\ next.pc \in {"expire", "ignored", "conflict", "claim"}
  BY <1>1 DEF TypeOK, WebhookState, IdleWebhook
<1>3. webhook' = [webhook EXCEPT ![w] = next]
  OBVIOUS
<1>4. webhook' \in [Webhooks -> WebhookState] /\ \A v \in Webhooks : WebhookHolds(v)'
  <2> HIDE DEF next
  <2> QED BY <1>2, <1>3, OneWebhookMoves
<1>5. TypeOK'
  BY <1>4 DEF TypeOK
<1>6. HandlersConsistent'
  BY <1>4 DEF HandlersConsistent, OpenedForAnEnterprise, SweepHolds, AdminHolds
<1> QED BY <1>5, <1>6

LEMMA LazyExpireConsistent ==
  ASSUME TypeOK, HandlersConsistent, NEW w \in Webhooks, LazyExpire(w)
  PROVE  TypeOK' /\ HandlersConsistent'
<1> DEFINE p == webhook[w].payment
           audited == [webhook[w] EXCEPT !.pc = "audit", !.outcome = "payment_expired"]
           reread == [webhook[w] EXCEPT !.pc = Classify(p, webhook[w].event)]
<1>0. /\ p \in Payments /\ payment[p].status # "NONE" /\ webhook[w].event \in EventStatus
      /\ webhook[w] \in WebhookState /\ ~Locked(p)
  BY DEF HandlersConsistent, WebhookHolds, TypeOK, LazyExpire
<1>1. CASE payment[p].status = "PENDING"
  <2>1. /\ payment' = [payment EXCEPT ![p].status = "EXPIRED"]
        /\ webhook' = [webhook EXCEPT ![w] = audited]
        /\ UNCHANGED <<subscription, history, invoices, counter, auditLog,
                       sweep, expirer, admin, now, faults>>
    BY <1>1 DEF LazyExpire
  <2>2. /\ audited \in WebhookState /\ audited.pc = "audit" /\ audited.payment = p
        /\ audited.event = webhook[w].event /\ audited.outcome \in Outcomes
    BY <1>0 DEF WebhookState, Outcomes
  <2>3. /\ payment' \in [Payments -> Payment] /\ payment'[p].status = "EXPIRED"
        /\ payment'[p].enterprise = payment[p].enterprise
        /\ \A q \in Payments \ {p} : payment'[q] = payment[q]
    BY <1>0, <2>1 DEF TypeOK, Payment, PaymentStatus
  <2>4. \A v \in Webhooks : webhook[v].pc = "commit" =>
          webhook[v].payment \in Payments \ {p}
    BY <1>0 DEF HandlersConsistent, WebhookHolds, Locked
  <2>5. webhook' \in [Webhooks -> WebhookState] /\ \A v \in Webhooks : WebhookHolds(v)'
    <3> HIDE DEF audited
    <3> QED BY <1>0, <2>1, <2>2, <2>3, <2>4, OneWebhookMoves
  <2>6. TypeOK'
    BY <2>1, <2>3, <2>5 DEF TypeOK
  <2> QED BY <1>0, <2>1, <2>3, <2>5, <2>6
      DEF HandlersConsistent, OpenedForAnEnterprise, SweepHolds, AdminHolds
<1>2. CASE payment[p].status # "PENDING"
  <2>1. /\ webhook' = [webhook EXCEPT ![w] = reread]
        /\ UNCHANGED <<subscription, history, payment, invoices, counter, auditLog,
                       sweep, expirer, admin, now, faults>>
    BY <1>2 DEF LazyExpire
  <2>2. Classify(p, webhook[w].event) \in {"ignored", "conflict", "claim"}
    BY DEF Classify
  <2>3. /\ reread \in WebhookState /\ reread.pc \in {"ignored", "conflict", "claim"}
        /\ reread.payment = p /\ reread.event = webhook[w].event
    BY <1>0, <2>2 DEF WebhookState
  <2>4. webhook' \in [Webhooks -> WebhookState] /\ \A v \in Webhooks : WebhookHolds(v)'
    <3> HIDE DEF reread
    <3> QED BY <1>0, <2>1, <2>3, OneWebhookMoves
  <2>5. TypeOK'
    BY <2>1, <2>4 DEF TypeOK
  <2> QED BY <2>1, <2>4, <2>5
      DEF HandlersConsistent, OpenedForAnEnterprise, SweepHolds, AdminHolds
<1> QED BY <1>1, <1>2

LEMMA RecordConflictConsistent ==
  ASSUME TypeOK, HandlersConsistent, NEW w \in Webhooks, RecordConflict(w)
  PROVE  TypeOK' /\ HandlersConsistent'
<1> DEFINE p == webhook[w].payment
           audited == [webhook[w] EXCEPT !.pc = "audit", !.outcome = "status_conflict"]
<1>0. /\ p \in Payments /\ payment[p].status # "NONE" /\ webhook[w].event \in EventStatus
      /\ webhook[w] \in WebhookState
  BY DEF HandlersConsistent, WebhookHolds, TypeOK, RecordConflict
<1>1. /\ payment' = [payment EXCEPT ![p].conflictingEvent = webhook[w].event]
      /\ webhook' = [webhook EXCEPT ![w] = audited]
      /\ UNCHANGED <<subscription, history, invoices, counter, auditLog,
                     sweep, expirer, admin, now, faults>>
  BY DEF RecordConflict
<1>2. /\ audited \in WebhookState /\ audited.pc = "audit" /\ audited.payment = p
      /\ audited.event = webhook[w].event /\ audited.outcome \in Outcomes
  BY <1>0 DEF WebhookState, Outcomes
<1>3. /\ payment' \in [Payments -> Payment]
      /\ \A q \in Payments : /\ payment'[q].status = payment[q].status
                             /\ payment'[q].enterprise = payment[q].enterprise
  BY <1>0, <1>1 DEF TypeOK, Payment
<1>4. \A v \in Webhooks : webhook[v].pc = "commit" => webhook[v].payment \in Payments
  BY DEF HandlersConsistent, WebhookHolds
<1>5. webhook' \in [Webhooks -> WebhookState] /\ \A v \in Webhooks : WebhookHolds(v)'
  <2> HIDE DEF audited
  <2> QED BY <1>0, <1>1, <1>2, <1>3, <1>4, OneWebhookMoves
<1>6. TypeOK'
  BY <1>1, <1>3, <1>5 DEF TypeOK
<1> QED BY <1>1, <1>3, <1>5, <1>6
    DEF HandlersConsistent, OpenedForAnEnterprise, SweepHolds, AdminHolds

LEMMA ClaimConsistent ==
  ASSUME TypeOK, HandlersConsistent, NEW w \in Webhooks, Claim(w)
  PROVE  TypeOK' /\ HandlersConsistent'
<1> DEFINE p == webhook[w].payment
           current == subscription[payment[p].enterprise]
           next == webhook'[w]
<1>0. /\ p \in Payments /\ payment[p].status # "NONE" /\ webhook[w].event \in EventStatus
      /\ webhook[w] \in WebhookState /\ current \in Subscription /\ ~Locked(p)
  BY DEF HandlersConsistent, WebhookHolds, OpenedForAnEnterprise, TypeOK, Claim
<1>1. /\ webhook' = [webhook EXCEPT ![w] = next]
      /\ UNCHANGED <<subscription, history, payment, invoices, counter, auditLog,
                     sweep, expirer, admin, now, faults>>
  BY DEF Claim, tables, TypeOK
<1>2. \/ next = IdleWebhook
      \/ next = [webhook[w] EXCEPT !.pc = "ignored"]
      \/ /\ next = [webhook[w] EXCEPT !.pc = "commit", !.seen = current]
         /\ payment[p].status = "PENDING"
  <2>1. next = CASE payment[p].status # "PENDING" -> [webhook[w] EXCEPT !.pc = "ignored"]
                 [] payment[p].status = "PENDING"
                    /\ Rejected(webhook[w].event, current.status) -> IdleWebhook
                 [] OTHER -> [webhook[w] EXCEPT !.pc = "commit", !.seen = current]
    BY DEF Claim, TypeOK
  <2> HIDE DEF next
  <2>2. CASE payment[p].status # "PENDING"
    BY <2>1, <2>2
  <2>3. CASE payment[p].status = "PENDING" /\ Rejected(webhook[w].event, current.status)
    BY <2>1, <2>3
  <2>4. CASE payment[p].status = "PENDING" /\ ~Rejected(webhook[w].event, current.status)
    BY <2>1, <2>4
  <2> QED BY <2>2, <2>3, <2>4
<1>3. /\ next \in WebhookState /\ next.pc \in {"idle", "ignored", "commit"}
      /\ next.pc # "idle" => next.payment = p /\ next.event = webhook[w].event
      /\ next.pc = "commit" => payment[p].status = "PENDING" /\ next.seen = current
  <2> HIDE DEF next, p, current
  <2>1. CASE next = IdleWebhook
    BY <2>1 DEF WebhookState, IdleWebhook
  <2>2. CASE next = [webhook[w] EXCEPT !.pc = "ignored"]
    BY <1>0, <2>2 DEF WebhookState, p
  <2>3. CASE /\ next = [webhook[w] EXCEPT !.pc = "commit", !.seen = current]
             /\ payment[p].status = "PENDING"
    BY <1>0, <2>3 DEF WebhookState, p
  <2> QED BY <1>2, <2>1, <2>2, <2>3
<1>4. \A v \in Webhooks : webhook[v].pc = "commit" => webhook[v].payment # p
  BY <1>0 DEF Locked
<1>5. webhook' \in [Webhooks -> WebhookState] /\ \A v \in Webhooks : WebhookHolds(v)'
  <2>1. payment' = payment
    BY <1>1
  <2>2. next.pc = "commit" => /\ next.seen \in Subscription
                              /\ payment'[next.payment].status = "PENDING"
    BY <1>0, <1>3, <2>1
  <2>3. next.pc # "idle" => /\ next.payment \in Payments /\ next.event \in EventStatus
                            /\ payment'[next.payment].status # "NONE"
    BY <1>0, <1>3, <2>1
  <2>4. \A v \in Webhooks \ {w} : webhook[v].pc = "commit" =>
          /\ payment'[webhook[v].payment].status = payment[webhook[v].payment].status
          /\ next.pc = "commit" => webhook[v].payment # next.payment
    BY <1>3, <1>4, <2>1
  <2>5. next.pc = "audit" => next.outcome \in Outcomes
    BY <1>3
  <2>6. next \in WebhookState /\ webhook' = [webhook EXCEPT ![w] = next]
    BY <1>1, <1>3
  <2> HIDE DEF next
  <2> QED BY <2>1, <2>2, <2>3, <2>4, <2>5, <2>6, OneWebhookMoves
<1>6. TypeOK'
  BY <1>1, <1>5 DEF TypeOK
<1> QED BY <1>1, <1>5, <1>6
    DEF HandlersConsistent, OpenedForAnEnterprise, SweepHolds, AdminHolds

\* What the transaction writes over a subscription is a subscription.
LEMMA UpdatedSubscriptionType ==
  ASSUME TypeOK, NEW e \in Enterprises, NEW seen \in Subscription,
         NEW event \in EventStatus
  PROVE  UpdatedSubscription(e, seen, TargetStatus(event, seen.status)) \in Subscription
<1> DEFINE target == TargetStatus(event, seen.status)
<1>1. /\ target \in {"ACTIVE", "PAST_DUE", None}
      /\ subscription[e] \in Subscription /\ now + GracePeriod \in Nat
  BY BillingAssumption DEF TargetStatus, TypeOK
<1> HIDE DEF target
<1>2. CASE target = "PAST_DUE" /\ seen.status # target
  <2>1. UpdatedSubscription(e, seen, target) =
          [subscription[e] EXCEPT !.status = target, !.renewalDate = now + GracePeriod]
    BY <1>2 DEF UpdatedSubscription
  <2> QED BY <1>1, <1>2, <2>1 DEF Subscription, SubscriptionStatus, target
<1>3. CASE target = "PAST_DUE" /\ seen.status = target
  <2>1. UpdatedSubscription(e, seen, target) =
          [subscription[e] EXCEPT !.renewalDate = now + GracePeriod]
    BY <1>3 DEF UpdatedSubscription
  <2> QED BY <1>1, <2>1 DEF Subscription, target
<1>4. CASE target = "ACTIVE" /\ seen.status # target
  <2>1. UpdatedSubscription(e, seen, target) =
          [subscription[e] EXCEPT !.status = target, !.renewalDate = seen.renewalDate]
    BY <1>4 DEF UpdatedSubscription
  <2> QED BY <1>1, <1>4, <2>1 DEF Subscription, SubscriptionStatus, target
<1>5. CASE target # "PAST_DUE" /\ (target = "ACTIVE" => seen.status = target)
  <2>1. UpdatedSubscription(e, seen, target) = subscription[e]
    BY <1>5 DEF UpdatedSubscription
  <2> QED BY <1>1, <2>1 DEF target
<1> QED BY <1>2, <1>3, <1>4, <1>5

LEMMA CommitConsistent ==
  ASSUME TypeOK, HandlersConsistent, NEW w \in Webhooks, Commit(w)
  PROVE  TypeOK' /\ HandlersConsistent'
<1> DEFINE p == webhook[w].payment
           event == webhook[w].event
           seen == webhook[w].seen
           e == payment[p].enterprise
           target == TargetStatus(event, seen.status)
           audited == [webhook[w] EXCEPT !.pc = "audit", !.seen = None,
                                         !.outcome = "processed"]
<1>0. /\ p \in Payments /\ payment[p].status # "NONE" /\ event \in EventStatus
      /\ webhook[w] \in WebhookState /\ seen \in Subscription /\ e \in Enterprises
      /\ webhook[w].pc = "commit"
  BY DEF HandlersConsistent, WebhookHolds, OpenedForAnEnterprise, TypeOK, Commit
<1>1. /\ payment' = [payment EXCEPT ![p].status = event]
      /\ webhook' = [webhook EXCEPT ![w] = audited]
      /\ UNCHANGED <<auditLog, sweep, expirer, admin, now, faults>>
  BY DEF Commit
<1>2. subscription' \in [Enterprises -> Subscription]
  BY <1>0, UpdatedSubscriptionType DEF Commit, TypeOK
<1>3. history' \in [Enterprises -> Seq(SubscriptionEvent)]
  <2>1. target \in {"ACTIVE", "PAST_DUE", None}
    BY DEF TargetStatus
  <2>2. target # None => [fromStatus |-> seen.status, toStatus |-> target,
                          fromPlanId |-> seen.planId, toPlanId |-> seen.planId]
                         \in SubscriptionEvent
    BY <1>0, <2>1 DEF SubscriptionEvent, Subscription, SubscriptionStatus
  <2>3. history[e] \in Seq(SubscriptionEvent)
    BY <1>0 DEF TypeOK
  <2>4. CASE target # None /\ seen.status # target
    <3> DEFINE row == [fromStatus |-> seen.status, toStatus |-> target,
                       fromPlanId |-> seen.planId, toPlanId |-> seen.planId]
    <3>1. history' = [history EXCEPT ![e] = Append(history[e], row)]
      BY <2>4 DEF Commit
    <3>2. row \in SubscriptionEvent
      BY <2>2, <2>4
    <3> HIDE DEF row
    <3>3. Append(history[e], row) \in Seq(SubscriptionEvent)
      BY <2>3, <3>2
    <3> HIDE DEF e
    <3> QED BY <3>1, <3>3 DEF TypeOK
  <2>5. CASE ~(target # None /\ seen.status # target)
    BY <2>5 DEF Commit, TypeOK
  <2> QED BY <2>4, <2>5
<1>4. invoices' \subseteq Invoice /\ counter' \in [Enterprises -> Nat]
  <2>1. CASE GenerateForPayment(p, e)
    <3>1. [payment |-> p, enterprise |-> e, number |-> counter[e] + 1] \in Invoice
      BY <1>0 DEF TypeOK, Invoice
    <3> QED BY <1>0, <2>1, <3>1 DEF GenerateForPayment, TypeOK
  <2>2. CASE UNCHANGED <<invoices, counter>>
    BY <2>2 DEF TypeOK
  <2> QED BY <2>1, <2>2 DEF Commit
<1>5. /\ payment' \in [Payments -> Payment] /\ payment'[p].status = event
      /\ payment'[p].enterprise = e
      /\ \A q \in Payments \ {p} : payment'[q] = payment[q]
  BY <1>0, <1>1 DEF TypeOK, Payment, PaymentStatus, EventStatus
<1>6. /\ audited \in WebhookState /\ audited.pc = "audit" /\ audited.payment = p
      /\ audited.event = event /\ audited.outcome \in Outcomes
  BY <1>0 DEF WebhookState, Outcomes
<1>7. \A v \in Webhooks \ {w} : webhook[v].pc = "commit" =>
        webhook[v].payment \in Payments \ {p}
  BY <1>0 DEF HandlersConsistent, WebhookHolds
<1>8. webhook' \in [Webhooks -> WebhookState] /\ \A v \in Webhooks : WebhookHolds(v)'
  <2>1. event # "NONE"
    BY <1>0 DEF EventStatus
  <2>2. \A q \in Payments : payment[q].status # "NONE" => payment'[q].status # "NONE"
    BY <1>5, <2>1
  <2>3. \A v \in Webhooks \ {w} : webhook[v].pc = "commit" =>
          payment'[webhook[v].payment].status = payment[webhook[v].payment].status
    BY <1>5, <1>7
  <2>4. audited.pc # "commit" /\ payment'[audited.payment].status # "NONE"
    BY <1>5, <1>6, <2>1
  <2>5. audited.payment \in Payments /\ audited.event \in EventStatus
    BY <1>0, <1>6
  <2> HIDE DEF audited, event
  <2> QED BY <1>1, <1>6, <2>2, <2>3, <2>4, <2>5, OneWebhookMoves
<1>9. TypeOK'
  BY <1>1, <1>2, <1>3, <1>4, <1>5, <1>8 DEF TypeOK
<1> QED BY <1>0, <1>1, <1>5, <1>8, <1>9
    DEF HandlersConsistent, OpenedForAnEnterprise, SweepHolds, AdminHolds

\* The steps by which a request ends, whether it worked or not.
LEMMA WebhookEndsConsistent ==
  ASSUME TypeOK, HandlersConsistent, NEW w \in Webhooks,
         AuditWebhook(w) \/ Ignore(w) \/ WebhookFails(w)
  PROVE  TypeOK' /\ HandlersConsistent'
<1> USE DEF AuditWebhook, Ignore, WebhookFails, tables
<1>1. /\ webhook' = [webhook EXCEPT ![w] = IdleWebhook]
      /\ UNCHANGED <<subscription, history, payment, invoices, counter,
                     sweep, expirer, admin, now>>
  OBVIOUS
<1>2. IdleWebhook \in WebhookState /\ IdleWebhook.pc = "idle"
  BY DEF IdleWebhook, WebhookState
<1>3. webhook' \in [Webhooks -> WebhookState] /\ \A v \in Webhooks : WebhookHolds(v)'
  BY <1>1, <1>2, OneWebhookMoves DEF HandlersConsistent, WebhookHolds
<1>4. auditLog' \subseteq AuditRow
  BY DEF TypeOK, AuditRow, HandlersConsistent, WebhookHolds
<1>5. faults' \in Nat
  BY DEF TypeOK
<1>6. TypeOK'
  BY <1>1, <1>3, <1>4, <1>5 DEF TypeOK
<1> QED BY <1>1, <1>3, <1>6
    DEF HandlersConsistent, OpenedForAnEnterprise, SweepHolds, AdminHolds

LEMMA OneSweepMoves ==
  ASSUME TypeOK, HandlersConsistent, NEW c \in Sweeps, NEW next \in SweepState,
         sweep' = [sweep EXCEPT ![c] = next],
         next.step # "row" => next.row \in Enterprises /\ next.phase # "idle"
  PROVE  sweep' \in [Sweeps -> SweepState] /\ \A d \in Sweeps : SweepHolds(d)'
BY DEF TypeOK, HandlersConsistent, SweepHolds

\* A run of the subscription job that only reads, or gives a row up.
LEMMA SweepReadsConsistent ==
  ASSUME TypeOK, HandlersConsistent, NEW c \in Sweeps,
         StartSweep(c) \/ NextPhase(c) \/ SweepRowFails(c)
  PROVE  TypeOK' /\ HandlersConsistent'
<1> USE DEF tables, StartSweep, NextPhase, SweepRowFails
<1> DEFINE next == sweep'[c]
<1>0. sweep[c] \in SweepState /\ SweepHolds(c) /\ faults' \in Nat
  BY DEF TypeOK, HandlersConsistent
<1>1. /\ sweep' = [sweep EXCEPT ![c] = next]
      /\ UNCHANGED <<subscription, history, payment, invoices, counter, auditLog,
                     webhook, expirer, admin, now>>
  BY DEF TypeOK
<1>2. next \in SweepState /\ (next.step # "row" => next.row \in Enterprises /\ next.phase # "idle")
  <2>1. CASE StartSweep(c)
    <3>1. next = [sweep[c] EXCEPT !.phase = "trials", !.batch = FindExpirableTrials]
      BY <2>1 DEF TypeOK
    <3>2. sweep[c].step = "row"
      BY <1>0, <2>1 DEF SweepHolds
    <3>3. FindExpirableTrials \subseteq Enterprises
      BY DEF FindExpirableTrials
    <3> HIDE DEF next
    <3> QED BY <1>0, <3>1, <3>2, <3>3 DEF SweepState
  <2>2. CASE NextPhase(c)
    <3>1. \/ next = [sweep[c] EXCEPT !.phase = "overdue", !.batch = FindOverdueGracePeriods]
          \/ next = IdleSweep
      BY <2>2 DEF TypeOK
    <3>2. sweep[c].step = "row"
      BY <2>2
    <3>3. FindOverdueGracePeriods \subseteq Enterprises
      BY DEF FindOverdueGracePeriods
    <3> HIDE DEF next
    <3>4. CASE next = [sweep[c] EXCEPT !.phase = "overdue", !.batch = FindOverdueGracePeriods]
      BY <1>0, <3>2, <3>3, <3>4 DEF SweepState
    <3>5. CASE next = IdleSweep
      BY <3>5 DEF SweepState, IdleSweep
    <3> QED BY <3>1, <3>4, <3>5
  <2>3. CASE SweepRowFails(c)
    <3>1. next = RowDone(c)
      BY <2>3 DEF TypeOK
    <3> HIDE DEF next
    <3> QED BY <1>0, <3>1 DEF SweepState, SweepHolds, RowDone
  <2> QED BY <2>1, <2>2, <2>3
<1>3. sweep' \in [Sweeps -> SweepState] /\ \A d \in Sweeps : SweepHolds(d)'
  <2> HIDE DEF next
  <2> QED BY <1>1, <1>2, OneSweepMoves
<1>4. TypeOK'
  BY <1>0, <1>1, <1>3 DEF TypeOK
<1>5. \A v \in Webhooks : WebhookHolds(v)'
  BY <1>1 DEF HandlersConsistent, WebhookHolds
<1> QED BY <1>1, <1>3, <1>4, <1>5 DEF HandlersConsistent, OpenedForAnEnterprise, AdminHolds

\* A run of the subscription job that writes.
LEMMA SweepWritesConsistent ==
  ASSUME TypeOK, HandlersConsistent, NEW c \in Sweeps, NEW e \in Enterprises,
         TransitionRow(c, e) \/ SweepEvent(c) \/ SweepAudit(c)
  PROVE  TypeOK' /\ HandlersConsistent'
<1> DEFINE next == sweep'[c]
<1>0. sweep[c] \in SweepState /\ SweepHolds(c)
  BY DEF TypeOK, HandlersConsistent
<1>1. /\ sweep' = [sweep EXCEPT ![c] = next]
      /\ UNCHANGED <<payment, invoices, counter, webhook, expirer, admin, now, faults>>
  BY DEF TypeOK, TransitionRow, SweepEvent, SweepAudit
<1>2. /\ SweepFrom(c) \in SubscriptionStatus /\ SweepTo(c) \in SubscriptionStatus
  BY DEF SweepFrom, SweepTo, SubscriptionStatus
<1>3. subscription' \in [Enterprises -> Subscription]
  <2>1. CASE subscription' = [subscription EXCEPT ![e] = [@ EXCEPT !.status = SweepTo(c)]]
    BY <1>2, <2>1 DEF TypeOK, Subscription
  <2>2. CASE subscription' = subscription
    BY <2>2 DEF TypeOK
  <2> QED BY <2>1, <2>2 DEF TransitionRow, SweepEvent, SweepAudit
<1>4. history' \in [Enterprises -> Seq(SubscriptionEvent)]
  <2>1. CASE SweepEvent(c)
    <3> DEFINE row == [fromStatus |-> SweepFrom(c), toStatus |-> SweepTo(c),
                       fromPlanId |-> None, toPlanId |-> None]
               old == history[sweep[c].row]
    <3>1. history' = [history EXCEPT ![sweep[c].row] = Append(old, row)]
      BY <2>1 DEF SweepEvent
    <3>2. row \in SubscriptionEvent /\ old \in Seq(SubscriptionEvent)
      BY <1>0, <1>2, <2>1 DEF SubscriptionEvent, TypeOK, SweepEvent, SweepHolds
    <3> HIDE DEF row, old
    <3>3. Append(old, row) \in Seq(SubscriptionEvent)
      BY <3>2
    <3> QED BY <3>1, <3>3 DEF TypeOK
  <2>2. CASE TransitionRow(c, e) \/ SweepAudit(c)
    BY <2>2 DEF TransitionRow, SweepAudit, TypeOK
  <2> QED BY <2>1, <2>2
<1>5. auditLog' \subseteq AuditRow
  <2>1. CASE SweepAudit(c)
    BY <1>0, <2>1 DEF SweepAudit, TypeOK, AuditRow, SweepHolds
  <2>2. CASE TransitionRow(c, e) \/ SweepEvent(c)
    BY <2>2 DEF TransitionRow, SweepEvent, TypeOK
  <2> QED BY <2>1, <2>2
<1>6. next \in SweepState /\ (next.step # "row" => next.row \in Enterprises /\ next.phase # "idle")
  <2>1. CASE TransitionRow(c, e)
    <3>1. sweep[c].phase # "idle" => \/ next = [sweep[c] EXCEPT !.step = "event", !.row = e]
                                     \/ next = [sweep[c] EXCEPT !.batch = @ \ {e}]
      BY <2>1 DEF TypeOK, TransitionRow
    <3> HIDE DEF next
    <3> QED BY <1>0, <2>1, <3>1 DEF SweepState, SweepHolds, TransitionRow
  <2>2. CASE SweepEvent(c)
    <3>1. next = [sweep[c] EXCEPT !.step = "audit"]
      BY <2>2 DEF TypeOK, SweepEvent
    <3> HIDE DEF next
    <3> QED BY <1>0, <2>2, <3>1 DEF SweepState, SweepHolds, SweepEvent
  <2>3. CASE SweepAudit(c)
    <3>1. next = RowDone(c)
      BY <2>3 DEF TypeOK, SweepAudit
    <3> HIDE DEF next
    <3> QED BY <1>0, <3>1 DEF SweepState, SweepHolds, RowDone
  <2> QED BY <2>1, <2>2, <2>3
<1>7. sweep' \in [Sweeps -> SweepState] /\ \A d \in Sweeps : SweepHolds(d)'
  <2> HIDE DEF next
  <2> QED BY <1>1, <1>6, OneSweepMoves
<1>8. TypeOK'
  BY <1>1, <1>3, <1>4, <1>5, <1>7 DEF TypeOK
<1>9. \A v \in Webhooks : WebhookHolds(v)'
  BY <1>1 DEF HandlersConsistent, WebhookHolds
<1> QED BY <1>1, <1>7, <1>8, <1>9 DEF HandlersConsistent, OpenedForAnEnterprise, AdminHolds

\* A run of the payment job.
LEMMA ExpirerConsistent ==
  ASSUME TypeOK, HandlersConsistent, NEW x \in Expirers, NEW p \in Payments,
         \/ StartExpiry(x) \/ ExpirePayment(x, p) \/ ExpiryAudit(x) \/ ExpiryAuditFails(x)
  PROVE  TypeOK' /\ HandlersConsistent'
<1> DEFINE next == expirer'[x]
<1>0. expirer[x] \in ExpirerState
  BY DEF TypeOK
<1>1. /\ expirer' = [expirer EXCEPT ![x] = next]
      /\ UNCHANGED <<subscription, history, invoices, counter, webhook, sweep, admin, now>>
  BY DEF TypeOK, StartExpiry, ExpirePayment, ExpiryAudit, ExpiryAuditFails, tables
<1>2. next \in ExpirerState
  <2>1. CASE StartExpiry(x)
    BY <1>0, <2>1 DEF ExpirerState, StartExpiry, TypeOK
  <2>2. CASE ExpirePayment(x, p)
    <3>1. \/ next = [expirer[x] EXCEPT !.row = p]
          \/ next = [expirer[x] EXCEPT !.batch = @ \ {p}]
      BY <2>2 DEF ExpirePayment, TypeOK
    <3> HIDE DEF next
    <3> QED BY <1>0, <3>1 DEF ExpirerState
  <2>3. CASE ExpiryAudit(x) \/ ExpiryAuditFails(x)
    BY <1>0, <2>3 DEF ExpirerState, ExpiryAudit, ExpiryAuditFails, ExpiryDone, TypeOK
  <2> QED BY <2>1, <2>2, <2>3
<1>3. /\ payment' \in [Payments -> Payment]
      /\ \A q \in Payments : /\ payment'[q].enterprise = payment[q].enterprise
                             /\ payment[q].status # "NONE" <=> payment'[q].status # "NONE"
                             /\ Locked(q) => payment'[q].status = payment[q].status
  <2>1. CASE payment' = payment
    BY <2>1 DEF TypeOK
  <2>2. CASE /\ payment[p].status = "PENDING" /\ ~Locked(p)
             /\ payment' = [payment EXCEPT ![p] = [@ EXCEPT !.status = "EXPIRED"]]
    <3>1. payment'[p] = [payment[p] EXCEPT !.status = "EXPIRED"]
      BY <2>2 DEF TypeOK
    <3>2. \A q \in Payments \ {p} : payment'[q] = payment[q]
      BY <2>2 DEF TypeOK
    <3> QED BY <2>2, <3>1, <3>2 DEF TypeOK, Payment, PaymentStatus
  <2> QED BY <2>1, <2>2
      DEF StartExpiry, ExpirePayment, ExpiryAudit, ExpiryAuditFails, tables
<1>4. auditLog' \subseteq AuditRow /\ faults' \in Nat
  <2>1. expirer[x].row # None => expirer[x].row \in Payments
    BY <1>0 DEF ExpirerState
  <2>2. CASE ExpiryAudit(x)
    BY <2>1, <2>2 DEF ExpiryAudit, TypeOK, AuditRow
  <2>3. CASE StartExpiry(x) \/ ExpirePayment(x, p) \/ ExpiryAuditFails(x)
    BY <2>3 DEF StartExpiry, ExpirePayment, ExpiryAuditFails, TypeOK, tables
  <2> QED BY <2>2, <2>3
<1>5. TypeOK'
  <2> HIDE DEF next
  <2> QED BY <1>1, <1>2, <1>3, <1>4 DEF TypeOK
<1>6. \A v \in Webhooks : WebhookHolds(v)'
  BY <1>1, <1>3, WebhooksStandStill
<1> QED BY <1>1, <1>3, <1>5, <1>6
    DEF HandlersConsistent, OpenedForAnEnterprise, SweepHolds, AdminHolds

\* A plan change.
LEMMA AdminConsistent ==
  ASSUME TypeOK, HandlersConsistent, NEW a \in Admins, NEW e \in Enterprises, NEW plan \in Plans,
         ReadForPlanChange(a, e, plan) \/ ChangeSubscriptionPlan(a) \/ PlanChangeAudit(a)
  PROVE  TypeOK' /\ HandlersConsistent'
<1> DEFINE next == admin'[a]
<1>0. admin[a] \in AdminState /\ AdminHolds(a)
  BY DEF TypeOK, HandlersConsistent
<1>1. /\ admin' = [admin EXCEPT ![a] = next]
      /\ UNCHANGED <<payment, invoices, counter, webhook, sweep, expirer, now, faults>>
  BY DEF TypeOK, ReadForPlanChange, ChangeSubscriptionPlan, PlanChangeAudit, tables
<1>2. /\ next \in AdminState
      /\ next.pc # "idle" => next.enterprise \in Enterprises
      /\ next.pc = "apply" => next.planId \in Plans /\ next.seen \in Subscription
  <2>1. CASE ReadForPlanChange(a, e, plan)
    <3>1. next = [pc |-> "apply", enterprise |-> e, planId |-> plan, seen |-> subscription[e]]
      BY <2>1 DEF ReadForPlanChange, TypeOK
    <3>2. subscription[e] \in Subscription
      BY DEF TypeOK
    <3> HIDE DEF next
    <3> QED BY <3>1, <3>2 DEF AdminState
  <2>2. CASE ChangeSubscriptionPlan(a)
    <3>1. next = [admin[a] EXCEPT !.pc = "audit", !.seen = None]
      BY <2>2 DEF ChangeSubscriptionPlan, TypeOK
    <3>2. admin[a].enterprise \in Enterprises
      BY <1>0, <2>2 DEF ChangeSubscriptionPlan, AdminHolds
    <3> HIDE DEF next
    <3> QED BY <1>0, <3>1, <3>2 DEF AdminState
  <2>3. CASE PlanChangeAudit(a)
    <3>1. next = IdleAdmin
      BY <2>3 DEF PlanChangeAudit, TypeOK
    <3> HIDE DEF next
    <3> QED BY <3>1 DEF AdminState, IdleAdmin
  <2> QED BY <2>1, <2>2, <2>3
<1>3. /\ subscription' \in [Enterprises -> Subscription]
      /\ history' \in [Enterprises -> Seq(SubscriptionEvent)]
  <2>1. CASE ChangeSubscriptionPlan(a)
    <3> DEFINE f == admin[a].enterprise
               seen == admin[a].seen
               row == [fromStatus |-> seen.status, toStatus |-> seen.status,
                       fromPlanId |-> seen.planId, toPlanId |-> admin[a].planId]
               changed == [subscription[f] EXCEPT !.planId = admin[a].planId]
    <3>1. f \in Enterprises /\ seen \in Subscription /\ admin[a].planId \in Plans
      BY <1>0, <2>1 DEF ChangeSubscriptionPlan, AdminHolds
    <3>2. /\ subscription' = [subscription EXCEPT ![f] = changed]
          /\ history' = [history EXCEPT ![f] = Append(history[f], row)]
      BY <2>1 DEF ChangeSubscriptionPlan
    <3>3. row \in SubscriptionEvent /\ history[f] \in Seq(SubscriptionEvent)
      BY <3>1 DEF SubscriptionEvent, Subscription, TypeOK
    <3>4. changed \in Subscription
      BY <3>1 DEF Subscription, TypeOK
    <3> HIDE DEF f, row, changed
    <3>5. Append(history[f], row) \in Seq(SubscriptionEvent)
      BY <3>3
    <3> QED BY <3>2, <3>4, <3>5 DEF TypeOK
  <2>2. CASE ReadForPlanChange(a, e, plan) \/ PlanChangeAudit(a)
    BY <2>2 DEF ReadForPlanChange, PlanChangeAudit, TypeOK, tables
  <2> QED BY <2>1, <2>2
<1>4. auditLog' \subseteq AuditRow
  <2>1. CASE PlanChangeAudit(a)
    <3>1. admin[a].enterprise \in Enterprises
      BY <1>0, <2>1 DEF PlanChangeAudit, AdminHolds
    <3> QED BY <2>1, <3>1 DEF PlanChangeAudit, TypeOK, AuditRow
  <2>2. CASE ReadForPlanChange(a, e, plan) \/ ChangeSubscriptionPlan(a)
    BY <2>2 DEF ReadForPlanChange, ChangeSubscriptionPlan, TypeOK, tables
  <2> QED BY <2>1, <2>2
<1>5. TypeOK'
  <2> HIDE DEF next
  <2> QED BY <1>1, <1>2, <1>3, <1>4 DEF TypeOK
<1>6. \A b \in Admins : AdminHolds(b)'
  <2> HIDE DEF next
  <2> QED BY <1>1, <1>2 DEF TypeOK, HandlersConsistent, AdminHolds
<1>7. \A v \in Webhooks : WebhookHolds(v)'
  BY <1>1 DEF HandlersConsistent, WebhookHolds
<1> QED BY <1>1, <1>5, <1>6, <1>7 DEF HandlersConsistent, OpenedForAnEnterprise, SweepHolds

LEMMA EnvironmentConsistent ==
  ASSUME TypeOK, HandlersConsistent, Tick \/ ApiRestarts \/ UNCHANGED vars
  PROVE  TypeOK' /\ HandlersConsistent'
<1>1. CASE Tick
  BY <1>1 DEF Tick, tables, handlers, TypeOK, HandlersConsistent, OpenedForAnEnterprise,
              WebhookHolds, SweepHolds, AdminHolds
<1>2. CASE ApiRestarts
  <2>1. IdleWebhook \in WebhookState /\ IdleSweep \in SweepState
    BY DEF IdleWebhook, WebhookState, IdleSweep, SweepState
  <2>2. IdleExpirer \in ExpirerState /\ IdleAdmin \in AdminState
    BY DEF IdleExpirer, ExpirerState, IdleAdmin, AdminState
  <2>3. TypeOK'
    BY <1>2, <2>1, <2>2 DEF ApiRestarts, tables, TypeOK
  <2>4. HandlersConsistent'
    BY <1>2 DEF ApiRestarts, tables, HandlersConsistent, OpenedForAnEnterprise,
                WebhookHolds, SweepHolds, AdminHolds, IdleWebhook, IdleSweep, IdleAdmin
  <2> QED BY <2>3, <2>4
<1>3. CASE UNCHANGED vars
  BY <1>3 DEF vars, TypeOK, HandlersConsistent, OpenedForAnEnterprise,
              WebhookHolds, SweepHolds, AdminHolds
<1> QED BY <1>1, <1>2, <1>3

LEMMA NextConsistent ==
  TypeOK /\ HandlersConsistent /\ [Next]_vars => TypeOK' /\ HandlersConsistent'
<1> SUFFICES ASSUME TypeOK, HandlersConsistent, [Next]_vars
             PROVE  TypeOK' /\ HandlersConsistent'
  OBVIOUS
<1>1. ASSUME NEW e \in Enterprises, NEW p \in Payments, CreatePendingPayment(e, p)
      PROVE  TypeOK' /\ HandlersConsistent'
  BY <1>1, CreatePendingConsistent
<1>2. ASSUME NEW w \in Webhooks, NEW p \in Payments, NEW event \in EventStatus,
             NEW matches \in BOOLEAN, Receive(w, p, event, matches)
      PROVE  TypeOK' /\ HandlersConsistent'
  BY <1>2, ReceiveConsistent
<1>3. ASSUME NEW w \in Webhooks, WebhookStep(w) \/ WebhookFails(w)
      PROVE  TypeOK' /\ HandlersConsistent'
  BY <1>3, LazyExpireConsistent, RecordConflictConsistent, ClaimConsistent, CommitConsistent,
     WebhookEndsConsistent DEF WebhookStep
<1>4. ASSUME NEW c \in Sweeps, SweepStep(c) \/ SweepRowFails(c)
      PROVE  TypeOK' /\ HandlersConsistent'
  <2>1. CASE StartSweep(c) \/ NextPhase(c) \/ SweepRowFails(c)
    BY <2>1, SweepReadsConsistent
  <2>2. ASSUME NEW e \in Enterprises, TransitionRow(c, e)
        PROVE  TypeOK' /\ HandlersConsistent'
    BY <2>2, SweepWritesConsistent
  <2>3. CASE SweepEvent(c) \/ SweepAudit(c)
    <3>1. sweep[c].row \in Enterprises
      BY <2>3 DEF HandlersConsistent, SweepHolds, SweepEvent, SweepAudit
    <3> QED BY <2>3, <3>1, SweepWritesConsistent
  <2> QED BY <1>4, <2>1, <2>2, <2>3 DEF SweepStep
<1>5. ASSUME NEW x \in Expirers, ExpirerStep(x) \/ ExpiryAuditFails(x)
      PROVE  TypeOK' /\ HandlersConsistent'
  <2>1. ASSUME NEW p \in Payments, ExpirePayment(x, p)
        PROVE  TypeOK' /\ HandlersConsistent'
    BY <2>1, ExpirerConsistent
  <2>2. CASE StartExpiry(x) \/ ExpiryAudit(x) \/ ExpiryAuditFails(x)
    <3>1. PICK p \in Payments : TRUE
      BY <2>2 DEF StartExpiry, ExpiryAudit, ExpiryAuditFails, TypeOK, ExpirerState
    <3> QED BY <2>2, ExpirerConsistent
  <2> QED BY <1>5, <2>1, <2>2 DEF ExpirerStep
<1>6. ASSUME NEW a \in Admins, NEW e \in Enterprises, NEW plan \in Plans,
             ReadForPlanChange(a, e, plan)
      PROVE  TypeOK' /\ HandlersConsistent'
  BY <1>6, AdminConsistent
<1>7. ASSUME NEW a \in Admins, AdminStep(a)
      PROVE  TypeOK' /\ HandlersConsistent'
  <2>1. admin[a].enterprise \in Enterprises
    BY <1>7 DEF AdminStep, ChangeSubscriptionPlan, PlanChangeAudit, HandlersConsistent, AdminHolds
  <2>2. PICK plan \in Plans : TRUE
    <3>1. subscription[admin[a].enterprise] \in Subscription
      BY <2>1 DEF TypeOK
    <3> QED BY <3>1 DEF Subscription
  <2> QED BY <1>7, <2>1, <2>2, AdminConsistent DEF AdminStep
<1>8. CASE Tick \/ ApiRestarts \/ UNCHANGED vars
  BY <1>8, EnvironmentConsistent
<1> QED BY <1>1, <1>2, <1>3, <1>4, <1>5, <1>6, <1>7, <1>8 DEF Next

\* Columns and handlers keep their types, whatever the number of tenants, payments,
\* requests and jobs, and whatever fails.
THEOREM TypeCorrect == Spec => []TypeOK
<1>1. Spec => [](TypeOK /\ HandlersConsistent)
  BY InitConsistent, NextConsistent, PTL DEF Spec
<1> QED BY <1>1, PTL

\* What payments-webhook.service.ts relies on at each statement holds there: the
\* payment has its enterprise, and whoever has passed the compare-and-swap is the
\* only one, over a payment still PENDING for everybody else (BIL-01).
THEOREM Consistent == Spec => []HandlersConsistent
<1>1. Spec => [](TypeOK /\ HandlersConsistent)
  BY InitConsistent, NextConsistent, PTL DEF Spec
<1> QED BY <1>1, PTL

-----------------------------------------------------------------------------
(* Money.  Every step either leaves the statuses and the owners of the     *)
(* payments and the invoices alone, or opens, closes or pays one payment   *)
(* (MoneySteps); invoices, numbers, the finality of a settlement and the   *)
(* refinement of PaymentSettlement follow from that.                       *)

statusOf == [p \in Payments |-> payment[p].status]
ownerOf == [p \in Payments |-> payment[p].enterprise]
money == <<statusOf, ownerOf, invoices, counter>>

Opens(p, e) ==
  /\ payment[p].status = "NONE"
  /\ statusOf' = [statusOf EXCEPT ![p] = "PENDING"]
  /\ ownerOf' = [ownerOf EXCEPT ![p] = e]
  /\ UNCHANGED <<invoices, counter>>

Closes(p, final) ==
  /\ payment[p].status = "PENDING"
  /\ statusOf' = [statusOf EXCEPT ![p] = final]
  /\ UNCHANGED <<ownerOf, invoices, counter>>

Pays(p) ==
  /\ payment[p].status = "PENDING" /\ payment[p].enterprise \in Enterprises
  /\ statusOf' = [statusOf EXCEPT ![p] = "SUCCEEDED"]
  /\ UNCHANGED ownerOf
  /\ GenerateForPayment(p, payment[p].enterprise)

MoneyStep ==
  \/ \E p \in Payments, e \in Enterprises : Opens(p, e)
  \/ \E p \in Payments, final \in {"FAILED", "EXPIRED"} : Closes(p, final)
  \/ \E p \in Payments : Pays(p)

\* The row of one payment changes status: so do the statuses.
LEMMA OneStatusMoves ==
  ASSUME TypeOK, NEW p \in Payments, NEW status,
         payment' = [payment EXCEPT ![p] = [@ EXCEPT !.status = status]]
  PROVE  statusOf' = [statusOf EXCEPT ![p] = status] /\ ownerOf' = ownerOf
<1>1. payment[p] \in Payment /\ payment \in [Payments -> Payment]
  BY DEF TypeOK
<1>2. /\ payment'[p].status = status /\ payment'[p].enterprise = payment[p].enterprise
      /\ \A q \in Payments \ {p} : payment'[q] = payment[q]
  BY <1>1 DEF Payment
<1>3. statusOf' = [q \in Payments |-> payment'[q].status]
      /\ ownerOf' = [q \in Payments |-> payment'[q].enterprise]
  BY DEF statusOf, ownerOf
<1>4. \A q \in Payments : /\ payment'[q].status = IF q = p THEN status ELSE payment[q].status
                          /\ payment'[q].enterprise = payment[q].enterprise
  BY <1>2
<1>5. statusOf' = [statusOf EXCEPT ![p] = status]
  BY <1>3, <1>4 DEF statusOf
<1> QED BY <1>3, <1>4, <1>5 DEF ownerOf

LEMMA MoneySteps ==
  ASSUME TypeOK, HandlersConsistent, [Next]_vars
  PROVE  [MoneyStep]_money
<1> USE DEF money, MoneyStep, tables, handlers
<1>0. UNCHANGED <<payment, invoices, counter>> => UNCHANGED money
  BY DEF statusOf, ownerOf
<1>1. ASSUME NEW e \in Enterprises, NEW p \in Payments, CreatePendingPayment(e, p)
      PROVE  Opens(p, e)
  <2>1. /\ payment'[p].status = "PENDING" /\ payment'[p].enterprise = e
        /\ \A q \in Payments \ {p} : payment'[q] = payment[q]
    BY <1>1 DEF CreatePendingPayment, TypeOK
  <2>2. statusOf' = [statusOf EXCEPT ![p] = "PENDING"]
    BY <2>1 DEF statusOf
  <2>3. ownerOf' = [ownerOf EXCEPT ![p] = e]
    BY <2>1 DEF ownerOf
  <2> QED BY <1>1, <2>2, <2>3 DEF CreatePendingPayment, Opens
<1>2. ASSUME NEW w \in Webhooks, LazyExpire(w)
      PROVE  [MoneyStep]_money
  <2>1. webhook[w].payment \in Payments
    BY <1>2 DEF HandlersConsistent, WebhookHolds, LazyExpire
  <2>2. CASE payment[webhook[w].payment].status = "PENDING"
    <3>1. Closes(webhook[w].payment, "EXPIRED")
      BY <1>2, <2>1, <2>2, OneStatusMoves DEF LazyExpire, Closes
    <3> QED BY <2>1, <3>1
  <2>3. CASE payment[webhook[w].payment].status # "PENDING"
    BY <1>0, <1>2, <2>3 DEF LazyExpire
  <2> QED BY <2>2, <2>3
<1>3. ASSUME NEW w \in Webhooks, RecordConflict(w)
      PROVE  UNCHANGED money
  <2>1. \A q \in Payments : /\ payment'[q].status = payment[q].status
                            /\ payment'[q].enterprise = payment[q].enterprise
    BY <1>3 DEF RecordConflict, TypeOK, Payment
  <2> QED BY <1>3, <2>1 DEF RecordConflict, statusOf, ownerOf
<1>4. ASSUME NEW w \in Webhooks, Commit(w)
      PROVE  [MoneyStep]_money
  <2> DEFINE p == webhook[w].payment
  <2>1. /\ p \in Payments /\ webhook[w].event \in EventStatus
        /\ payment[p].status = "PENDING" /\ payment[p].enterprise \in Enterprises
    BY <1>4 DEF HandlersConsistent, WebhookHolds, OpenedForAnEnterprise, Commit
  <2>2. /\ statusOf' = [statusOf EXCEPT ![p] = webhook[w].event]
        /\ ownerOf' = ownerOf
    BY <1>4, <2>1, OneStatusMoves DEF Commit
  <2>3. CASE webhook[w].event = "SUCCEEDED"
    <3>1. Pays(p)
      BY <1>4, <2>1, <2>2, <2>3 DEF Commit, Pays
    <3> QED BY <2>1, <3>1
  <2>4. CASE webhook[w].event = "FAILED"
    <3>1. Closes(p, "FAILED")
      BY <1>4, <2>1, <2>2, <2>4 DEF Commit, Closes
    <3> QED BY <2>1, <3>1
  <2> QED BY <2>1, <2>3, <2>4 DEF EventStatus
<1>5. ASSUME NEW w \in Webhooks,
             Claim(w) \/ AuditWebhook(w) \/ Ignore(w) \/ WebhookFails(w)
      PROVE  UNCHANGED money
  BY <1>0, <1>5 DEF Claim, AuditWebhook, Ignore, WebhookFails
<1>6. ASSUME NEW w \in Webhooks, NEW p \in Payments, NEW event \in EventStatus,
             NEW matches \in BOOLEAN, Receive(w, p, event, matches)
      PROVE  UNCHANGED money
  BY <1>0, <1>6 DEF Receive
<1>7. ASSUME NEW c \in Sweeps, SweepStep(c) \/ SweepRowFails(c)
      PROVE  UNCHANGED money
  BY <1>0, <1>7 DEF SweepStep, StartSweep, NextPhase, TransitionRow, SweepEvent, SweepAudit,
                    SweepRowFails
<1>8. ASSUME NEW x \in Expirers, NEW p \in Payments, ExpirePayment(x, p)
      PROVE  [MoneyStep]_money
  <2>1. CASE payment[p].status = "PENDING"
    <3>1. Closes(p, "EXPIRED")
      BY <1>8, <2>1, OneStatusMoves DEF ExpirePayment, Closes
    <3> QED BY <3>1
  <2>2. CASE payment[p].status # "PENDING"
    BY <1>0, <1>8, <2>2 DEF ExpirePayment
  <2> QED BY <2>1, <2>2
<1>9. ASSUME NEW x \in Expirers, StartExpiry(x) \/ ExpiryAudit(x) \/ ExpiryAuditFails(x)
      PROVE  UNCHANGED money
  BY <1>0, <1>9 DEF StartExpiry, ExpiryAudit, ExpiryAuditFails
<1>10. ASSUME NEW a \in Admins, NEW e \in Enterprises, NEW plan \in Plans,
              ReadForPlanChange(a, e, plan)
       PROVE  UNCHANGED money
  BY <1>0, <1>10 DEF ReadForPlanChange
<1>11. ASSUME NEW a \in Admins, AdminStep(a)
       PROVE  UNCHANGED money
  BY <1>0, <1>11 DEF AdminStep, ChangeSubscriptionPlan, PlanChangeAudit
<1>12. CASE Tick \/ ApiRestarts \/ UNCHANGED vars
  BY <1>0, <1>12 DEF Tick, ApiRestarts, vars
<1> HIDE DEF money, MoneyStep, tables, handlers
<1>13. (\E e \in Enterprises, p \in Payments : Opens(p, e)) => MoneyStep
  BY DEF MoneyStep
<1> QED
  BY <1>1, <1>2, <1>3, <1>4, <1>5, <1>6, <1>7, <1>8, <1>9, <1>10, <1>11, <1>12, <1>13
  DEF Next, WebhookStep, ExpirerStep

-----------------------------------------------------------------------------

LEMMA InvoicesInduction ==
  TypeOK /\ HandlersConsistent /\ InvoicedExactlyOnce /\ [Next]_vars => InvoicedExactlyOnce'
<1> SUFFICES ASSUME TypeOK, HandlersConsistent, InvoicedExactlyOnce, [Next]_vars
             PROVE  InvoicedExactlyOnce'
  OBVIOUS
<1>0. [MoneyStep]_money
  BY MoneySteps
<1>1. \A p \in Payments : /\ statusOf[p] = payment[p].status
                          /\ ownerOf[p] = payment[p].enterprise
                          /\ statusOf'[p] = payment'[p].status
                          /\ ownerOf'[p] = payment'[p].enterprise
  BY DEF statusOf, ownerOf
<1>2. ASSUME NEW p \in Payments, NEW e \in Enterprises, Opens(p, e)
      PROVE  InvoicedExactlyOnce'
  <2>1. \A q \in Payments \ {p} : /\ payment'[q].status = payment[q].status
                                  /\ payment'[q].enterprise = payment[q].enterprise
    BY <1>1, <1>2 DEF Opens, statusOf, ownerOf
  <2>2. payment[p].status # "SUCCEEDED" /\ payment'[p].status # "SUCCEEDED"
    BY <1>1, <1>2 DEF Opens, statusOf
  <2> QED BY <1>2, <2>1, <2>2 DEF InvoicedExactlyOnce, InvoicesFor, Opens
<1>3. ASSUME NEW p \in Payments, NEW final \in {"FAILED", "EXPIRED"}, Closes(p, final)
      PROVE  InvoicedExactlyOnce'
  <2>1. \A q \in Payments : /\ q # p => payment'[q].status = payment[q].status
                            /\ payment'[q].enterprise = payment[q].enterprise
    BY <1>1, <1>3 DEF Closes, statusOf, ownerOf
  <2>2. payment[p].status # "SUCCEEDED" /\ payment'[p].status # "SUCCEEDED"
    BY <1>1, <1>3 DEF Closes, statusOf
  <2> QED BY <1>3, <2>1, <2>2 DEF InvoicedExactlyOnce, InvoicesFor, Closes
<1>4. ASSUME NEW p \in Payments, Pays(p)
      PROVE  InvoicedExactlyOnce'
  <2> DEFINE e == payment[p].enterprise
             new == [payment |-> p, enterprise |-> e, number |-> counter[e] + 1]
  <2>1. \A q \in Payments : /\ q # p => payment'[q].status = payment[q].status
                            /\ payment'[q].enterprise = payment[q].enterprise
    BY <1>1, <1>4 DEF Pays, statusOf, ownerOf
  <2>2. payment[p].status # "SUCCEEDED" /\ payment'[p].status = "SUCCEEDED"
    BY <1>1, <1>4 DEF Pays, statusOf
  <2>3. invoices' = invoices \cup {new} /\ new.payment = p /\ new.enterprise = e
    BY <1>4 DEF Pays, GenerateForPayment
  <2> HIDE DEF new, e
  <2>4. InvoicesFor(p)' = {new}
    BY <2>2, <2>3 DEF InvoicedExactlyOnce, InvoicesFor
  <2>5. \A q \in Payments \ {p} : InvoicesFor(q)' = InvoicesFor(q)
    BY <2>3 DEF InvoicesFor
  <2>6. new.enterprise = payment'[p].enterprise /\ new \in invoices'
    BY <2>1, <2>3 DEF e
  <2>7. ASSUME NEW q \in Payments, payment'[q].status = "SUCCEEDED"
        PROVE  \E i \in invoices' : InvoicesFor(q)' = {i} /\ i.enterprise = payment'[q].enterprise
    <3>1. CASE q = p
      BY <2>4, <2>6, <3>1
    <3>2. CASE q # p
      <4>1. PICK i \in invoices : InvoicesFor(q) = {i} /\ i.enterprise = payment[q].enterprise
        BY <2>1, <2>7, <3>2 DEF InvoicedExactlyOnce
      <4> QED BY <2>1, <2>3, <2>5, <3>2, <4>1
    <3> QED BY <3>1, <3>2
  <2>8. ASSUME NEW q \in Payments, payment'[q].status # "SUCCEEDED"
        PROVE  InvoicesFor(q)' = {}
    BY <2>1, <2>2, <2>5, <2>8 DEF InvoicedExactlyOnce
  <2> QED BY <2>7, <2>8 DEF InvoicedExactlyOnce
<1>5. CASE UNCHANGED money
  <2>1. \A q \in Payments : /\ payment'[q].status = payment[q].status
                            /\ payment'[q].enterprise = payment[q].enterprise
    BY <1>1, <1>5 DEF money
  <2> QED BY <1>5, <2>1 DEF InvoicedExactlyOnce, InvoicesFor, money
<1> QED BY <1>0, <1>2, <1>3, <1>4, <1>5 DEF MoneyStep

\* BIL-01 and BIL-02: a payment has exactly one invoice, of its own enterprise, when
\* it has succeeded, and none before or otherwise, however many deliveries race.
THEOREM InvoicedOnce == Spec => []InvoicedExactlyOnce
<1>1. Init => InvoicedExactlyOnce
  BY DEF Init, InvoicedExactlyOnce, InvoicesFor
<1>2. Spec => [](TypeOK /\ HandlersConsistent)
  BY TypeCorrect, Consistent, PTL
<1> QED BY <1>1, <1>2, InvoicesInduction, PTL DEF Spec

-----------------------------------------------------------------------------

LEMMA NumbersInduction ==
  TypeOK /\ HandlersConsistent /\ NumbersWithoutGap /\ [Next]_vars => NumbersWithoutGap'
<1> SUFFICES ASSUME TypeOK, HandlersConsistent, NumbersWithoutGap, [Next]_vars
             PROVE  NumbersWithoutGap'
  OBVIOUS
<1>0. [MoneyStep]_money
  BY MoneySteps
<1>1. CASE UNCHANGED <<invoices, counter>>
  BY <1>1 DEF NumbersWithoutGap, InvoicesOf
<1>2. ASSUME NEW p \in Payments, Pays(p)
      PROVE  NumbersWithoutGap'
  <2>0. PICK e \in Enterprises : e = payment[p].enterprise
    BY <1>2 DEF Pays
  <2> DEFINE new == [payment |-> p, enterprise |-> e, number |-> counter[e] + 1]
  <2>1. /\ invoices' = invoices \cup {new} /\ new.enterprise = e
        /\ new.number = counter[e] + 1 /\ e \in Enterprises
        /\ counter' = [counter EXCEPT ![e] = @ + 1]
    BY <1>2, <2>0 DEF Pays, GenerateForPayment
  <2>2. counter[e] \in Nat /\ counter'[e] = counter[e] + 1
        /\ \A f \in Enterprises \ {e} : counter'[f] = counter[f]
    BY <2>1 DEF TypeOK
  <2> HIDE DEF new
  <2>3. /\ InvoicesOf(e)' = InvoicesOf(e) \cup {new}
        /\ \A f \in Enterprises \ {e} : InvoicesOf(f)' = InvoicesOf(f)
    <3>1. \A f \in Enterprises : InvoicesOf(f)' = {i \in invoices \cup {new} : i.enterprise = f}
      BY <2>1 DEF InvoicesOf
    <3>2. \A f \in Enterprises : {i \in invoices \cup {new} : i.enterprise = f} =
                                 IF f = e THEN InvoicesOf(f) \cup {new} ELSE InvoicesOf(f)
      BY <2>1 DEF InvoicesOf
    <3> QED BY <2>1, <3>1, <3>2
  <2>5. /\ \A i \in InvoicesOf(e) : i.number \in 1..counter[e]
        /\ \A n \in 1..counter[e] : \E i \in InvoicesOf(e) : i.number = n
    <3>1. {i.number : i \in InvoicesOf(e)} = 1..counter[e]
      BY <2>1 DEF NumbersWithoutGap
    <3> HIDE DEF NumbersWithoutGap
    <3>2. \A i \in InvoicesOf(e) : i.number \in {j.number : j \in InvoicesOf(e)}
      OBVIOUS
    <3>3. \A n \in {j.number : j \in InvoicesOf(e)} : \E i \in InvoicesOf(e) : i.number = n
      OBVIOUS
    <3> QED BY <3>1, <3>2, <3>3
  <2>6. {i.number : i \in InvoicesOf(e)'} = 1..counter'[e]
    <3>1. \A i \in InvoicesOf(e)' : i.number \in 1..counter'[e]
      BY <2>1, <2>2, <2>3, <2>5
    <3>2. \A n \in 1..counter'[e] : \E i \in InvoicesOf(e)' : i.number = n
      <4>1. ASSUME NEW n \in 1..counter'[e], n # counter[e] + 1
            PROVE  \E i \in InvoicesOf(e)' : i.number = n
        BY <2>2, <2>3, <2>5, <4>1
      <4> QED BY <2>1, <2>3, <4>1
    <3> QED BY <3>1, <3>2
  <2>7. \A i \in InvoicesOf(e) : i.number # new.number
    BY <2>1, <2>2, <2>5
  <2>8. \A i, j \in InvoicesOf(e)' : i.number = j.number => i = j
    BY <2>1, <2>3, <2>7 DEF NumbersWithoutGap
  <2> QED BY <2>2, <2>3, <2>6, <2>8 DEF NumbersWithoutGap
<1> QED BY <1>0, <1>1, <1>2 DEF MoneyStep, Opens, Closes, money

\* The invoices of an enterprise are numbered 1, 2, ... without a gap or a repetition
\* (invoice-generation.service.ts:20-22), whatever rolls back.
THEOREM NumbersAreConsecutive == Spec => []NumbersWithoutGap
<1>1. Init => NumbersWithoutGap
  BY DEF Init, NumbersWithoutGap, InvoicesOf
<1>2. Spec => [](TypeOK /\ HandlersConsistent)
  BY TypeCorrect, Consistent, PTL
<1> QED BY <1>1, <1>2, NumbersInduction, PTL DEF Spec

-----------------------------------------------------------------------------

\* A settled payment never changes status again, for any number of late, repeated or
\* contradictory events and any number of runs of the expiry job (BIL-07, BIL-19).
THEOREM SettlementIsFinal == Spec => SettledIsFinal
<1>1. ASSUME TypeOK, HandlersConsistent, [Next]_vars, NEW p \in Payments,
             payment[p].status \in Settled
      PROVE  payment'[p].status = payment[p].status
  <2>0. [MoneyStep]_money
    BY <1>1, MoneySteps
  <2>1. statusOf[p] = payment[p].status /\ statusOf'[p] = payment'[p].status
    BY DEF statusOf
  <2> QED BY <1>1, <2>0, <2>1 DEF MoneyStep, Opens, Closes, Pays, money, statusOf, Settled
<1>2. TypeOK /\ HandlersConsistent /\ [Next]_vars =>
        [\A p \in Payments : payment[p].status \in Settled =>
           payment'[p].status = payment[p].status]_vars
  BY <1>1
<1>3. Spec => [](TypeOK /\ HandlersConsistent)
  BY TypeCorrect, Consistent, PTL
<1> QED BY <1>2, <1>3, PTL DEF Spec, SettledIsFinal

-----------------------------------------------------------------------------
(* The refinement: the counter of an enterprise is the number of its       *)
(* invoices, which is what the abstract settlement counts.                 *)

CounterCountsInvoices ==
  \A e \in Enterprises : /\ IsFiniteSet(InvoicesOf(e))
                         /\ Cardinality(InvoicesOf(e)) = counter[e]

LEMMA CounterInduction ==
  /\ TypeOK /\ HandlersConsistent /\ InvoicedExactlyOnce
  /\ CounterCountsInvoices /\ [Next]_vars
  => CounterCountsInvoices'
<1> SUFFICES ASSUME TypeOK, HandlersConsistent, InvoicedExactlyOnce,
                    CounterCountsInvoices, [Next]_vars
             PROVE  CounterCountsInvoices'
  OBVIOUS
<1>0. [MoneyStep]_money
  BY MoneySteps
<1>1. CASE UNCHANGED <<invoices, counter>>
  BY <1>1 DEF CounterCountsInvoices, InvoicesOf
<1>2. ASSUME NEW p \in Payments, Pays(p)
      PROVE  CounterCountsInvoices'
  <2>0. PICK e \in Enterprises : e = payment[p].enterprise
    BY <1>2 DEF Pays
  <2> DEFINE new == [payment |-> p, enterprise |-> e, number |-> counter[e] + 1]
  <2>1. /\ invoices' = invoices \cup {new} /\ new.enterprise = e /\ new.payment = p
        /\ counter' = [counter EXCEPT ![e] = @ + 1]
    BY <1>2, <2>0 DEF Pays, GenerateForPayment
  <2>2. counter[e] \in Nat /\ counter'[e] = counter[e] + 1
        /\ \A f \in Enterprises \ {e} : counter'[f] = counter[f]
    BY <2>1 DEF TypeOK
  <2>3. new \notin InvoicesOf(e)
    <3>1. InvoicesFor(p) = {}
      BY <1>2 DEF Pays, InvoicedExactlyOnce
    <3> QED BY <2>1, <3>1 DEF InvoicesFor, InvoicesOf
  <2> HIDE DEF new
  <2>4. ASSUME NEW f \in Enterprises
        PROVE  InvoicesOf(f)' = IF f = e THEN InvoicesOf(f) \cup {new} ELSE InvoicesOf(f)
    <3>1. InvoicesOf(f)' = {i \in invoices \cup {new} : i.enterprise = f}
      BY <2>1 DEF InvoicesOf
    <3> QED BY <2>1, <3>1 DEF InvoicesOf
  <2>5. IsFiniteSet(InvoicesOf(e)) /\ Cardinality(InvoicesOf(e)) = counter[e]
    BY DEF CounterCountsInvoices
  <2>6. /\ IsFiniteSet(InvoicesOf(e) \cup {new})
        /\ Cardinality(InvoicesOf(e) \cup {new}) = counter[e] + 1
    BY <2>3, <2>5, FS_AddElement
  <2> QED BY <2>2, <2>4, <2>6 DEF CounterCountsInvoices
<1> QED BY <1>0, <1>1, <1>2 DEF MoneyStep, Opens, Closes, money

LEMMA SettlementInit == Init => Settlement!Init
BY DEF Init, Settlement!Init

\* The abstract module has its own instance of FiniteSets.
LEMMA SameCardinality == \A S : Settlement!Cardinality(S) = Cardinality(S)
BY Zenon DEF Cardinality, Settlement!Cardinality

LEMMA SettlementStep ==
  TypeOK /\ HandlersConsistent /\ CounterCountsInvoices /\ [Next]_vars
  => [Settlement!Next]_(Settlement!settlement)
<1> SUFFICES ASSUME TypeOK, HandlersConsistent, CounterCountsInvoices, [Next]_vars
             PROVE  [Settlement!Next]_(Settlement!settlement)
  OBVIOUS
<1>0. [MoneyStep]_money
  BY MoneySteps
<1>1. ASSUME NEW p \in Payments, NEW e \in Enterprises, Opens(p, e)
      PROVE  Settlement!Open(p, e)
  BY <1>1 DEF Opens, Settlement!Open, statusOf, ownerOf
<1>2. ASSUME NEW p \in Payments, NEW final \in {"FAILED", "EXPIRED"}, Closes(p, final)
      PROVE  Settlement!Close(p)
  BY <1>2 DEF Closes, Settlement!Close, statusOf, ownerOf
<1>3. ASSUME NEW p \in Payments, Pays(p)
      PROVE  Settlement!Pay(p)
  <2>1. PICK e \in Enterprises : e = payment[p].enterprise
    BY <1>3 DEF Pays
  <2>2. Settlement!LedgerOf(e) = InvoicesOf(e)
    BY DEF Settlement!LedgerOf, InvoicesOf
  <2>3. Cardinality(Settlement!LedgerOf(e)) = counter[e]
    BY <2>2 DEF CounterCountsInvoices
  <2>4. invoices' = invoices \cup
          {[payment |-> p, enterprise |-> e,
            number |-> Cardinality(Settlement!LedgerOf(e)) + 1]}
    BY <1>3, <2>1, <2>3 DEF Pays, GenerateForPayment
  <2>5. ownerOf[p] = e /\ statusOf[p] = "PENDING"
    BY <1>3, <2>1 DEF Pays, statusOf, ownerOf
  <2>6. invoices' = invoices \cup
          {[payment |-> p, enterprise |-> ownerOf[p],
            number |-> Cardinality(Settlement!LedgerOf(ownerOf[p])) + 1]}
    BY <2>4, <2>5
  <2>7. statusOf' = [statusOf EXCEPT ![p] = "SUCCEEDED"] /\ ownerOf' = ownerOf
    BY <1>3 DEF Pays
  <2> QED BY <2>5, <2>6, <2>7, SameCardinality DEF Settlement!Pay, statusOf, ownerOf
<1>4. CASE UNCHANGED money
  BY <1>4 DEF money, Settlement!settlement, statusOf, ownerOf
<1> QED BY <1>0, <1>1, <1>2, <1>3, <1>4 DEF MoneyStep, Settlement!Next

\* Webhooks, jobs, plan changes, restarts and failed statements notwithstanding, the
\* system settles payments as PaymentSettlement does: in one step, and once.
THEOREM BillingSettles == Spec => ImplementsSettlement
<1>1. Init => CounterCountsInvoices
  <2> SUFFICES ASSUME Init PROVE CounterCountsInvoices
    OBVIOUS
  <2>1. \A e \in Enterprises : InvoicesOf(e) = {} /\ counter[e] = 0
    BY DEF Init, InvoicesOf
  <2> QED BY <2>1, FS_EmptySet DEF CounterCountsInvoices
<1>2. Spec => [](TypeOK /\ HandlersConsistent /\ InvoicedExactlyOnce)
  BY TypeCorrect, Consistent, InvoicedOnce, PTL
<1>3. Spec => []CounterCountsInvoices
  BY <1>1, <1>2, CounterInduction, PTL DEF Spec
<1> QED BY <1>2, <1>3, SettlementInit, SettlementStep, PTL
    DEF Spec, ImplementsSettlement, Settlement!Spec

-----------------------------------------------------------------------------
(* Who has access, and what is written about it.  A tenant with paid       *)
(* access has an invoice, a restricted one a cause, a payment is resolved  *)
(* in time, and the transitions and settlements are recorded.  Each        *)
(* theorem rests on what a step does to one row or one request and on an   *)
(* auxiliary invariant: what a handler read, and what has happened to the  *)
(* row since.                                                              *)

-----------------------------------------------------------------------------
(* What a step does to one request and to one subscription, as the         *)
(* theorems on access and on the history need it.                          *)

\* The request starts to claim a payment that it has just read in time, claims it, or is
\* not about to settle one.
WebhookMove(w) ==
  \/ webhook'[w] = webhook[w]
  \/ webhook'[w].pc \notin {"claim", "commit"}
  \/ /\ webhook'[w].pc = "claim" /\ webhook'[w].readAt = now
     /\ webhook'[w].payment \in Payments /\ ~Overdue(webhook'[w].payment)
     /\ payment[webhook'[w].payment].status # "NONE"
  \/ LET p == webhook[w].payment
     IN /\ webhook[w].pc = "claim" /\ payment[p].status = "PENDING" /\ UNCHANGED payment
        /\ webhook'[w].payment = p /\ webhook'[w].readAt = webhook[w].readAt
        /\ webhook'[w].event = webhook[w].event
        /\ webhook'[w].seen = subscription[payment[p].enterprise]
        /\ ~Rejected(webhook'[w].event, webhook'[w].seen.status)

LEMMA WebhookMoves ==
  ASSUME TypeOK, HandlersConsistent, [Next]_vars, NEW w \in Webhooks
  PROVE  WebhookMove(w)
<1>1. ASSUME NEW v \in Webhooks, NEW p \in Payments, NEW event \in EventStatus,
             NEW matches \in BOOLEAN, Receive(v, p, event, matches)
      PROVE  WebhookMove(w)
  <2>1. CASE v = w
    <3>1. /\ webhook'[w].pc = IF Overdue(p) THEN "expire" ELSE Classify(p, event)
          /\ webhook'[w].payment = p /\ webhook'[w].readAt = now
      BY <1>1, <2>1 DEF Receive, TypeOK, WebhookState, IdleWebhook
    <3>2. payment[p].status # "NONE"
      BY <1>1 DEF Receive
    <3> QED BY <3>1, <3>2 DEF WebhookMove, Classify
  <2>2. CASE v # w
    BY <1>1, <2>2 DEF Receive, TypeOK, WebhookMove
  <2> QED BY <2>1, <2>2
<1>2. ASSUME NEW v \in Webhooks, LazyExpire(v)
      PROVE  WebhookMove(w)
  <2>1. CASE v = w
    <3>1. /\ webhook[w].payment \in Payments /\ webhook[w].event \in EventStatus
          /\ payment[webhook[w].payment].status \in PaymentStatus \ {"NONE"}
          /\ webhook[w] \in WebhookState
      BY <1>2, <2>1 DEF LazyExpire, HandlersConsistent, WebhookHolds, TypeOK, Payment
    <3>2. payment[webhook[w].payment].status # "PENDING" =>
            Classify(webhook[w].payment, webhook[w].event) # "claim"
      BY <3>1 DEF Classify, PaymentStatus, Settled
    <3>3. Classify(webhook[w].payment, webhook[w].event) # "commit"
      BY DEF Classify
    <3>4. CASE payment[webhook[w].payment].status = "PENDING"
      <4>1. webhook'[w] = [webhook[w] EXCEPT !.pc = "audit", !.outcome = "payment_expired"]
        BY <1>2, <2>1, <3>4 DEF LazyExpire, TypeOK
      <4>2. webhook'[w].pc = "audit"
        BY <3>1, <4>1 DEF WebhookState
      <4> QED BY <4>2 DEF WebhookMove
    <3>5. CASE payment[webhook[w].payment].status # "PENDING"
      <4>1. webhook'[w].pc = Classify(webhook[w].payment, webhook[w].event)
        BY <1>2, <2>1, <3>1, <3>5 DEF LazyExpire, TypeOK, WebhookState
      <4> QED BY <3>2, <3>3, <3>5, <4>1 DEF WebhookMove
    <3> QED BY <3>4, <3>5
  <2>2. CASE v # w
    BY <1>2, <2>2 DEF LazyExpire, TypeOK, WebhookMove
  <2> QED BY <2>1, <2>2
<1>3. ASSUME NEW v \in Webhooks, Claim(v)
      PROVE  WebhookMove(w)
  <2>1. CASE v = w
    <3> DEFINE current == subscription[payment[webhook[w].payment].enterprise]
    <3>1. webhook[w] \in WebhookState /\ webhook[w].pc = "claim" /\ UNCHANGED payment
      BY <1>3, <2>1 DEF Claim, TypeOK, tables
    <3>2. CASE payment[webhook[w].payment].status # "PENDING"
      BY <1>3, <2>1, <3>1, <3>2 DEF Claim, TypeOK, WebhookMove, WebhookState
    <3>3. CASE payment[webhook[w].payment].status = "PENDING"
               /\ Rejected(webhook[w].event, current.status)
      BY <1>3, <2>1, <3>1, <3>3 DEF Claim, TypeOK, WebhookMove, IdleWebhook
    <3>4. CASE payment[webhook[w].payment].status = "PENDING"
               /\ ~Rejected(webhook[w].event, current.status)
      <4>1. webhook'[w] = [webhook[w] EXCEPT !.pc = "commit", !.seen = current]
        BY <1>3, <2>1, <3>1, <3>4 DEF Claim, TypeOK
      <4> HIDE DEF current
      <4>2. /\ webhook'[w].payment = webhook[w].payment /\ webhook'[w].seen = current
            /\ webhook'[w].event = webhook[w].event /\ webhook'[w].readAt = webhook[w].readAt
        BY <3>1, <4>1 DEF WebhookState
      <4> QED BY <3>1, <3>4, <4>2 DEF WebhookMove, current
    <3> QED BY <3>2, <3>3, <3>4
  <2>2. CASE v # w
    BY <1>3, <2>2 DEF Claim, TypeOK, WebhookMove
  <2> QED BY <2>1, <2>2
<1>4. ASSUME NEW v \in Webhooks,
             RecordConflict(v) \/ Commit(v) \/ AuditWebhook(v) \/ Ignore(v) \/ WebhookFails(v)
      PROVE  WebhookMove(w)
  <2>1. webhook[v] \in WebhookState /\ IdleWebhook.pc = "idle"
    BY DEF TypeOK, IdleWebhook
  <2>2. \A q \in Webhooks \ {v} : webhook'[q] = webhook[q]
    BY <1>4 DEF RecordConflict, Commit, AuditWebhook, Ignore, WebhookFails, TypeOK
  <2>3. webhook'[v].pc \in {"idle", "audit"}
    <3>1. CASE RecordConflict(v)
      BY <2>1, <3>1 DEF RecordConflict, TypeOK, WebhookState
    <3>2. CASE Commit(v)
      <4>1. webhook'[v] = [webhook[v] EXCEPT !.pc = "audit", !.seen = None, !.outcome = "processed"]
        BY <3>2 DEF Commit, TypeOK
      <4> QED BY <2>1, <4>1 DEF WebhookState
    <3>3. CASE AuditWebhook(v) \/ Ignore(v) \/ WebhookFails(v)
      BY <2>1, <3>3 DEF AuditWebhook, Ignore, WebhookFails, TypeOK
    <3> QED BY <1>4, <3>1, <3>2, <3>3
  <2> QED BY <2>2, <2>3 DEF WebhookMove
<1>5. ApiRestarts => WebhookMove(w)
  BY DEF ApiRestarts, IdleWebhook, WebhookMove
<1>6. UNCHANGED webhook => WebhookMove(w)
  BY DEF WebhookMove
<1>7. (\E e \in Enterprises, p \in Payments : CreatePendingPayment(e, p)) => UNCHANGED webhook
  BY DEF CreatePendingPayment, handlers
<1>8. (\E c \in Sweeps : SweepStep(c) \/ SweepRowFails(c)) => UNCHANGED webhook
  BY DEF SweepStep, StartSweep, NextPhase, TransitionRow, SweepEvent, SweepAudit, SweepRowFails
<1>9. (\E x \in Expirers : ExpirerStep(x) \/ ExpiryAuditFails(x)) => UNCHANGED webhook
  BY DEF ExpirerStep, StartExpiry, ExpirePayment, ExpiryAudit, ExpiryAuditFails
<1>10. (\E a \in Admins, e \in Enterprises, plan \in Plans : ReadForPlanChange(a, e, plan)) =>
         UNCHANGED webhook
  BY DEF ReadForPlanChange
<1>11. (\E a \in Admins : AdminStep(a)) => UNCHANGED webhook
  BY DEF AdminStep, ChangeSubscriptionPlan, PlanChangeAudit
<1>12. Tick \/ UNCHANGED vars => UNCHANGED webhook
  BY DEF Tick, vars, handlers
<1> QED BY <1>1, <1>2, <1>3, <1>4, <1>5, <1>6, <1>7, <1>8, <1>9, <1>10, <1>11, <1>12
        DEF Next, WebhookStep

\* The writes to one subscription.
SubscriptionMove(e) ==
  /\ subscription'[e].trialEndDate = subscription[e].trialEndDate
  /\ \/ subscription'[e].status = subscription[e].status
     \/ \E w \in Webhooks :
          LET target == TargetStatus(webhook[w].event, webhook[w].seen.status)
          IN /\ Commit(w) /\ payment[webhook[w].payment].enterprise = e
             /\ target # None /\ webhook[w].seen.status # target
             /\ subscription'[e].status = target
     \/ \E c \in Sweeps :
          /\ TransitionRow(c, e)
          /\ subscription[e].status = SweepFrom(c) /\ subscription'[e].status = SweepTo(c)

LEMMA SubscriptionMoves ==
  ASSUME TypeOK, HandlersConsistent, [Next]_vars, NEW e \in Enterprises
  PROVE  SubscriptionMove(e)
<1>0. UNCHANGED subscription => SubscriptionMove(e)
  BY DEF SubscriptionMove
<1>1. ASSUME NEW w \in Webhooks, Commit(w)
      PROVE  SubscriptionMove(e)
  <2> DEFINE f == payment[webhook[w].payment].enterprise
             seen == webhook[w].seen
             target == TargetStatus(webhook[w].event, seen.status)
  <2>1. /\ f \in Enterprises /\ seen \in Subscription
        /\ subscription' = [subscription EXCEPT ![f] = UpdatedSubscription(f, seen, target)]
    BY <1>1 DEF Commit, HandlersConsistent, WebhookHolds, OpenedForAnEnterprise
  <2> HIDE DEF f, seen
  <2>2. CASE e # f
    BY <2>1, <2>2 DEF TypeOK, SubscriptionMove
  <2>3. CASE e = f
    <3>1. subscription'[e] = UpdatedSubscription(e, seen, target) /\ subscription[e] \in Subscription
      BY <2>1, <2>3 DEF TypeOK
    <3>2. target \in {"ACTIVE", "PAST_DUE", None}
      BY DEF TargetStatus
    <3>3. /\ subscription'[e].trialEndDate = subscription[e].trialEndDate
          /\ \/ subscription'[e].status = subscription[e].status
             \/ target # None /\ seen.status # target /\ subscription'[e].status = target
      <4> HIDE DEF target
      <4> QED BY <3>1, <3>2, BillingAssumption DEF UpdatedSubscription, Subscription
    <3> QED BY <1>1, <2>3, <3>3 DEF SubscriptionMove, f, seen
  <2> QED BY <2>2, <2>3
<1>2. ASSUME NEW c \in Sweeps, NEW f \in Enterprises, TransitionRow(c, f)
      PROVE  SubscriptionMove(e)
  <2>1. CASE subscription[f].status # SweepFrom(c)
    BY <1>0, <1>2, <2>1 DEF TransitionRow
  <2>2. CASE subscription[f].status = SweepFrom(c)
    <3>1. subscription' = [subscription EXCEPT ![f] = [@ EXCEPT !.status = SweepTo(c)]]
      BY <1>2, <2>2 DEF TransitionRow
    <3>2. CASE e # f
      BY <3>1, <3>2 DEF TypeOK, SubscriptionMove
    <3>3. CASE e = f
      <4>1. /\ subscription'[e].status = SweepTo(c)
            /\ subscription'[e].trialEndDate = subscription[e].trialEndDate
        BY <3>1, <3>3 DEF TypeOK, Subscription
      <4> QED BY <1>2, <2>2, <3>3, <4>1 DEF SubscriptionMove
    <3> QED BY <3>2, <3>3
  <2> QED BY <2>1, <2>2
<1>3. ASSUME NEW a \in Admins, ChangeSubscriptionPlan(a)
      PROVE  SubscriptionMove(e)
  BY <1>3 DEF ChangeSubscriptionPlan, SubscriptionMove, TypeOK, Subscription
<1>4. (\E f \in Enterprises, p \in Payments : CreatePendingPayment(f, p)) => UNCHANGED subscription
  BY DEF CreatePendingPayment
<1>5. (\E w \in Webhooks, p \in Payments, event \in EventStatus, matches \in BOOLEAN :
         Receive(w, p, event, matches)) => UNCHANGED subscription
  BY DEF Receive, tables
<1>6. (\E w \in Webhooks : \/ LazyExpire(w) \/ RecordConflict(w) \/ Claim(w)
                           \/ AuditWebhook(w) \/ Ignore(w) \/ WebhookFails(w))
        => UNCHANGED subscription
  BY DEF LazyExpire, RecordConflict, Claim, AuditWebhook, Ignore, WebhookFails, tables
<1>7. (\E c \in Sweeps : \/ StartSweep(c) \/ NextPhase(c) \/ SweepEvent(c) \/ SweepAudit(c)
                         \/ SweepRowFails(c)) => UNCHANGED subscription
  BY DEF StartSweep, NextPhase, SweepEvent, SweepAudit, SweepRowFails, tables
<1>8. (\E x \in Expirers : ExpirerStep(x) \/ ExpiryAuditFails(x)) => UNCHANGED subscription
  BY DEF ExpirerStep, StartExpiry, ExpirePayment, ExpiryAudit, ExpiryAuditFails, tables
<1>9. (\E a \in Admins, f \in Enterprises, plan \in Plans : ReadForPlanChange(a, f, plan)) =>
        UNCHANGED subscription
  BY DEF ReadForPlanChange, tables
<1>10. (\E a \in Admins : PlanChangeAudit(a)) => UNCHANGED subscription
  BY DEF PlanChangeAudit
<1>11. Tick \/ ApiRestarts \/ UNCHANGED vars => UNCHANGED subscription
  BY DEF Tick, ApiRestarts, vars, tables
<1> QED BY <1>0, <1>1, <1>2, <1>3, <1>4, <1>5, <1>6, <1>7, <1>8, <1>9, <1>10, <1>11
        DEF Next, WebhookStep, SweepStep, AdminStep

\* Payments keep their owner and their deadline once opened, and their status once settled;
\* no invoice is ever removed.
LEMMA PaymentsStay ==
  ASSUME TypeOK, HandlersConsistent, [Next]_vars, NEW p \in Payments
  PROVE  /\ payment[p].status # "NONE" => payment'[p].enterprise = payment[p].enterprise
         /\ payment[p].status \in Settled => payment'[p].status = payment[p].status
         /\ invoices \subseteq invoices'
<1>0. [MoneyStep]_money
  BY MoneySteps
<1>1. /\ statusOf[p] = payment[p].status /\ statusOf'[p] = payment'[p].status
      /\ ownerOf[p] = payment[p].enterprise /\ ownerOf'[p] = payment'[p].enterprise
  BY DEF statusOf, ownerOf
<1>2. CASE UNCHANGED money
  BY <1>1, <1>2 DEF money
<1>3. ASSUME NEW q \in Payments, NEW e \in Enterprises, Opens(q, e)
      PROVE  /\ payment[p].status # "NONE" => statusOf'[p] = statusOf[p] /\ ownerOf'[p] = ownerOf[p]
             /\ invoices' = invoices
  BY <1>3 DEF Opens, statusOf, ownerOf
<1>4. ASSUME NEW q \in Payments, NEW final \in {"FAILED", "EXPIRED"}, Closes(q, final)
      PROVE  /\ ownerOf'[p] = ownerOf[p] /\ invoices' = invoices
             /\ payment[p].status # "PENDING" => statusOf'[p] = statusOf[p]
  BY <1>4 DEF Closes, statusOf, ownerOf
<1>5. ASSUME NEW q \in Payments, Pays(q)
      PROVE  /\ ownerOf'[p] = ownerOf[p] /\ invoices \subseteq invoices'
             /\ payment[p].status # "PENDING" => statusOf'[p] = statusOf[p]
  BY <1>5 DEF Pays, GenerateForPayment, statusOf, ownerOf
<1> QED BY <1>0, <1>1, <1>2, <1>3, <1>4, <1>5 DEF MoneyStep, Settled

LEMMA DeadlinesStay ==
  ASSUME TypeOK, HandlersConsistent, [Next]_vars, NEW p \in Payments,
         payment[p].status # "NONE"
  PROVE  payment'[p].expiresAt = payment[p].expiresAt
<1>1. \A status : \A q \in Payments : [payment[q] EXCEPT !.status = status].expiresAt = payment[q].expiresAt
  BY DEF TypeOK, Payment
<1>2. \A event : \A q \in Payments :
        [payment[q] EXCEPT !.conflictingEvent = event].expiresAt = payment[q].expiresAt
  BY DEF TypeOK, Payment
<1>3. ASSUME NEW e \in Enterprises, NEW q \in Payments, CreatePendingPayment(e, q)
      PROVE  payment'[p] = payment[p]
  BY <1>3 DEF CreatePendingPayment, TypeOK
<1>4. ASSUME NEW q, NEW status, payment' = [payment EXCEPT ![q] = [@ EXCEPT !.status = status]]
      PROVE  payment'[p].expiresAt = payment[p].expiresAt
  <2>1. CASE q = p
    <3>1. payment'[p] = [payment[p] EXCEPT !.status = status]
      BY <1>4, <2>1 DEF TypeOK
    <3> QED BY <1>1, <3>1
  <2>2. CASE q # p
    BY <1>4, <2>2 DEF TypeOK
  <2> QED BY <2>1, <2>2
<1>5. ASSUME NEW w \in Webhooks, RecordConflict(w)
      PROVE  payment'[p].expiresAt = payment[p].expiresAt
  <2>1. payment' = [payment EXCEPT ![webhook[w].payment] =
                      [@ EXCEPT !.conflictingEvent = webhook[w].event]]
    BY <1>5 DEF RecordConflict
  <2>2. CASE webhook[w].payment = p
    <3>1. payment'[p] = [payment[p] EXCEPT !.conflictingEvent = webhook[w].event]
      BY <2>1, <2>2 DEF TypeOK
    <3> QED BY <1>2, <3>1
  <2>3. CASE webhook[w].payment # p
    BY <2>1, <2>3 DEF TypeOK
  <2> QED BY <2>2, <2>3
<1>6. ASSUME NEW w \in Webhooks, WebhookStep(w) \/ WebhookFails(w)
      PROVE  payment'[p].expiresAt = payment[p].expiresAt
  <2>1. CASE LazyExpire(w)
    BY <1>4, <2>1 DEF LazyExpire
  <2>2. CASE Commit(w)
    BY <1>4, <2>2 DEF Commit
  <2>3. CASE Claim(w) \/ AuditWebhook(w) \/ Ignore(w) \/ WebhookFails(w)
    BY <2>3 DEF Claim, AuditWebhook, Ignore, WebhookFails, tables
  <2> QED BY <1>5, <1>6, <2>1, <2>2, <2>3 DEF WebhookStep
<1>7. ASSUME NEW x \in Expirers, ExpirerStep(x) \/ ExpiryAuditFails(x)
      PROVE  payment'[p].expiresAt = payment[p].expiresAt
  BY <1>4, <1>7 DEF ExpirerStep, StartExpiry, ExpirePayment, ExpiryAudit, ExpiryAuditFails, tables
<1>8. (\E w \in Webhooks, q \in Payments, event \in EventStatus, matches \in BOOLEAN :
         Receive(w, q, event, matches)) => UNCHANGED payment
  BY DEF Receive, tables
<1>9. (\E c \in Sweeps : SweepStep(c) \/ SweepRowFails(c)) => UNCHANGED payment
  BY DEF SweepStep, StartSweep, NextPhase, TransitionRow, SweepEvent, SweepAudit, SweepRowFails,
         tables
<1>10. /\ (\E a \in Admins, e \in Enterprises, plan \in Plans : ReadForPlanChange(a, e, plan)) =>
            UNCHANGED payment
       /\ (\E a \in Admins : AdminStep(a)) => UNCHANGED payment
  BY DEF ReadForPlanChange, AdminStep, ChangeSubscriptionPlan, PlanChangeAudit, tables
<1>11. Tick \/ ApiRestarts \/ UNCHANGED vars => UNCHANGED payment
  BY DEF Tick, ApiRestarts, vars, tables
<1> QED BY <1>3, <1>6, <1>7, <1>8, <1>9, <1>10, <1>11 DEF Next

-----------------------------------------------------------------------------
(* Access is paid for and restricted for a cause.                          *)

PaidStatuses == {"ACTIVE", "PAST_DUE", "SUSPENDED"}

\* What a transaction decided about a subscription is legal, and its tenant had paid if the
\* row said so when it was read.
ClaimsAreLegal ==
  \A w \in Webhooks :
    webhook[w].pc = "commit" =>
      /\ ~Rejected(webhook[w].event, webhook[w].seen.status)
      /\ webhook[w].seen.status \in PaidStatuses =>
           InvoicesOf(payment[webhook[w].payment].enterprise) # {}

\* The trials of a batch were over when it was read, and a trial is never extended.
BatchIsOver ==
  \A c \in Sweeps : sweep[c].phase = "trials" =>
    \A e \in sweep[c].batch : subscription[e].trialEndDate < now

\* A request that is to settle a payment read it before its deadline.
ClaimsAreTimely ==
  \A w \in Webhooks :
    LET p == webhook[w].payment
    IN webhook[w].pc \in {"claim", "commit"} /\ payment[p].status = "PENDING" =>
         webhook[w].readAt <= payment[p].expiresAt

PlanChangesAreLegal ==
  \A a \in Admins :
    admin[a].pc = "apply" => /\ admin[a].seen.status \notin TerminalSubscriptionStatuses
                             /\ admin[a].seen.planId # admin[a].planId

\* A failed payment is not asked of the state machine in a trial, and otherwise only where
\* access was paid for; a success is an invoice.
LEMMA FailuresComeAfterAccess ==
  ASSUME NEW event \in EventStatus, NEW status \in SubscriptionStatus, ~Rejected(event, status),
         TargetStatus(event, status) # None, event # "SUCCEEDED"
  PROVE  status \in {"ACTIVE", "PAST_DUE"} /\ TargetStatus(event, status) = "PAST_DUE"
<1>1. TargetStatus(event, status) = "PAST_DUE"
  BY DEF TargetStatus, EventStatus
<1>2. status # "PAST_DUE" => "PAST_DUE" \in AllowedTransitions[status]
  BY <1>1 DEF Rejected, CanTransition
<1>3. /\ AllowedTransitions["TRIAL"] = {"ACTIVE", "EXPIRED", "CANCELLED"}
      /\ AllowedTransitions["SUSPENDED"] = {"ACTIVE", "CANCELLED"}
      /\ AllowedTransitions["CANCELLED"] = {} /\ AllowedTransitions["EXPIRED"] = {}
  BY DEF AllowedTransitions
<1> HIDE DEF AllowedTransitions
<1>4. status # "TRIAL"
  BY <1>1 DEF TargetStatus, EventStatus
<1> QED BY <1>1, <1>2, <1>3, <1>4 DEF SubscriptionStatus

LEMMA ClaimsAreLegalNext ==
  /\ TypeOK /\ HandlersConsistent /\ PaidAccessIsInvoiced /\ ClaimsAreLegal /\ [Next]_vars
  => ClaimsAreLegal'
<1> SUFFICES ASSUME TypeOK, HandlersConsistent, PaidAccessIsInvoiced, ClaimsAreLegal,
                    [Next]_vars, NEW w \in Webhooks, webhook'[w].pc = "commit"
             PROVE  /\ ~Rejected(webhook'[w].event, webhook'[w].seen.status)
                    /\ webhook'[w].seen.status \in PaidStatuses =>
                         InvoicesOf(payment[webhook[w].payment].enterprise)' # {}
  BY DEF ClaimsAreLegal
<1>1. WebhookMove(w)
  BY WebhookMoves
<1>2. \A p \in Payments : /\ payment[p].status # "NONE" => payment'[p].enterprise = payment[p].enterprise
                          /\ invoices \subseteq invoices'
  BY PaymentsStay
<1>3. CASE webhook'[w] = webhook[w]
  <2>1. /\ webhook[w].payment \in Payments
        /\ payment[webhook[w].payment].status # "NONE"
        /\ ~Rejected(webhook[w].event, webhook[w].seen.status)
        /\ webhook[w].seen.status \in PaidStatuses =>
             InvoicesOf(payment[webhook[w].payment].enterprise) # {}
    BY <1>3 DEF ClaimsAreLegal, HandlersConsistent, WebhookHolds
  <2>2. /\ payment'[webhook[w].payment].enterprise = payment[webhook[w].payment].enterprise
        /\ invoices \subseteq invoices'
    BY <1>2, <2>1
  <2>3. InvoicesOf(payment[webhook[w].payment].enterprise) \subseteq
          InvoicesOf(payment[webhook[w].payment].enterprise)'
    BY <1>3, <2>2 DEF InvoicesOf
  <2> QED BY <1>3, <2>1, <2>3
<1>4. CASE /\ webhook[w].pc = "claim" /\ payment[webhook[w].payment].status = "PENDING"
           /\ UNCHANGED payment /\ webhook'[w].payment = webhook[w].payment
           /\ webhook'[w].seen = subscription[payment[webhook[w].payment].enterprise]
           /\ ~Rejected(webhook'[w].event, webhook'[w].seen.status)
  <2>1. webhook[w].payment \in Payments /\ payment[webhook[w].payment].enterprise \in Enterprises
    BY <1>4 DEF HandlersConsistent, WebhookHolds, OpenedForAnEnterprise
  <2>2. invoices \subseteq invoices'
    BY <1>2, <2>1
  <2>3. InvoicesOf(payment[webhook[w].payment].enterprise) \subseteq
          InvoicesOf(payment[webhook[w].payment].enterprise)'
    BY <1>4, <2>2 DEF InvoicesOf
  <2> QED BY <1>4, <2>1, <2>3 DEF PaidAccessIsInvoiced, PaidStatuses
<1> QED BY <1>1, <1>3, <1>4 DEF WebhookMove

LEMMA PaidAccessNext ==
  /\ TypeOK /\ HandlersConsistent /\ PaidAccessIsInvoiced /\ ClaimsAreLegal /\ [Next]_vars
  => PaidAccessIsInvoiced'
<1> SUFFICES ASSUME TypeOK, HandlersConsistent, PaidAccessIsInvoiced, ClaimsAreLegal,
                    [Next]_vars, NEW e \in Enterprises,
                    subscription'[e].status \in PaidStatuses
             PROVE  InvoicesOf(e)' # {}
  BY DEF PaidAccessIsInvoiced, PaidStatuses
<1>1. SubscriptionMove(e)
  BY SubscriptionMoves
<1>2. InvoicesOf(e) # {} => InvoicesOf(e)' # {}
  <2>1. Payments # {} => invoices \subseteq invoices'
    BY PaymentsStay
  <2>2. InvoicesOf(e) # {} => Payments # {}
    BY DEF TypeOK, InvoicesOf, Invoice
  <2> QED BY <2>1, <2>2 DEF InvoicesOf
<1>3. CASE subscription'[e].status = subscription[e].status
  BY <1>2, <1>3 DEF PaidAccessIsInvoiced, PaidStatuses
<1>4. ASSUME NEW w \in Webhooks, Commit(w), payment[webhook[w].payment].enterprise = e,
             TargetStatus(webhook[w].event, webhook[w].seen.status) # None
      PROVE  InvoicesOf(e)' # {}
  <2>1. CASE webhook[w].event = "SUCCEEDED"
    <3>1. GenerateForPayment(webhook[w].payment, e)
      BY <1>4, <2>1 DEF Commit
    <3>2. [payment |-> webhook[w].payment, enterprise |-> e, number |-> counter[e] + 1] \in invoices'
      BY <3>1 DEF GenerateForPayment
    <3> QED BY <3>2 DEF InvoicesOf
  <2>2. CASE webhook[w].event # "SUCCEEDED"
    <3>1. /\ webhook[w].event \in EventStatus /\ webhook[w].seen.status \in SubscriptionStatus
          /\ ~Rejected(webhook[w].event, webhook[w].seen.status)
          /\ webhook[w].seen.status \in PaidStatuses => InvoicesOf(e) # {}
      BY <1>4 DEF Commit, HandlersConsistent, WebhookHolds, Subscription, ClaimsAreLegal
    <3>2. webhook[w].seen.status \in {"ACTIVE", "PAST_DUE"}
      BY <1>4, <2>2, <3>1, FailuresComeAfterAccess
    <3> QED BY <1>2, <3>1, <3>2 DEF PaidStatuses
  <2> QED BY <2>1, <2>2
<1>5. ASSUME NEW c \in Sweeps, subscription[e].status = SweepFrom(c),
             subscription'[e].status = SweepTo(c)
      PROVE  InvoicesOf(e)' # {}
  BY <1>2, <1>5 DEF SweepFrom, SweepTo, PaidAccessIsInvoiced, PaidStatuses
<1> QED BY <1>1, <1>3, <1>4, <1>5 DEF SubscriptionMove

\* Nothing but an invoiced payment gives access beyond the trial: whoever decides on a
\* subscription read a row that was paid for, or brings the invoice in its own transaction.
THEOREM AccessIsPaidFor == Spec => []PaidAccessIsInvoiced
<1>1. Init => PaidAccessIsInvoiced /\ ClaimsAreLegal
  BY DEF Init, PaidAccessIsInvoiced, ClaimsAreLegal, IdleWebhook
<1>2. Spec => [](TypeOK /\ HandlersConsistent)
  BY TypeCorrect, Consistent, PTL
<1> QED BY <1>1, <1>2, ClaimsAreLegalNext, PaidAccessNext, PTL DEF Spec

-----------------------------------------------------------------------------
(* What a step does to one run of the subscription job.                    *)

\* The run reads a batch of trials that are over, goes on with what is left of its batch, is
\* not at the trials, or stops.
LEMMA SweepMoves ==
  ASSUME TypeOK, HandlersConsistent, [Next]_vars, NEW c \in Sweeps
  PROVE  /\ \/ sweep'[c].phase # "trials"
            \/ sweep'[c].batch = FindExpirableTrials /\ UNCHANGED <<subscription, now>>
            \/ sweep'[c].phase = sweep[c].phase /\ sweep'[c].batch \subseteq sweep[c].batch
         /\ sweep[c].step = "event" =>
              sweep'[c] = sweep[c] \/ SweepEvent(c) \/ faults' = faults + 1
<1> DEFINE Goal ==
      /\ \/ sweep'[c].phase # "trials"
         \/ sweep'[c].batch = FindExpirableTrials /\ UNCHANGED <<subscription, now>>
         \/ sweep'[c].phase = sweep[c].phase /\ sweep'[c].batch \subseteq sweep[c].batch
      /\ sweep[c].step = "event" =>
           sweep'[c] = sweep[c] \/ SweepEvent(c) \/ faults' = faults + 1
<1>0. sweep'[c] = sweep[c] => Goal
  OBVIOUS
<1>1. sweep[c] \in SweepState /\ sweep \in [Sweeps -> SweepState]
  BY DEF TypeOK
<1>2. ASSUME NEW d \in Sweeps, NEW next, sweep' = [sweep EXCEPT ![d] = next],
             d = c => Goal
      PROVE  Goal
  BY <1>0, <1>1, <1>2
<1>3. ASSUME NEW d \in Sweeps, StartSweep(d)
      PROVE  Goal
  <2>1. CASE d = c
    <3>1. /\ sweep[c].step # "event"
          /\ sweep'[c].batch = FindExpirableTrials /\ UNCHANGED <<subscription, now>>
      BY <1>1, <1>3, <2>1 DEF StartSweep, HandlersConsistent, SweepHolds, SweepState, tables
    <3> QED BY <3>1
  <2>2. CASE d # c
    BY <1>0, <1>1, <1>3, <2>2 DEF StartSweep
  <2> QED BY <2>1, <2>2
<1>4. ASSUME NEW d \in Sweeps, NextPhase(d)
      PROVE  Goal
  <2>1. CASE d = c
    <3>1. sweep[c].step = "row" /\ sweep'[c].phase # "trials"
      <4>1. CASE sweep' = [sweep EXCEPT ![c] =
                   [@ EXCEPT !.phase = "overdue", !.batch = FindOverdueGracePeriods]]
        BY <1>1, <1>4, <2>1, <4>1 DEF NextPhase, SweepState
      <4>2. CASE sweep' = [sweep EXCEPT ![c] = IdleSweep]
        BY <1>1, <1>4, <2>1, <4>2 DEF NextPhase, SweepState, IdleSweep
      <4> QED BY <1>4, <2>1, <4>1, <4>2 DEF NextPhase
    <3> QED BY <3>1
  <2>2. CASE d # c
    BY <1>0, <1>1, <1>4, <2>2 DEF NextPhase
  <2> QED BY <2>1, <2>2
<1>5. ASSUME NEW d \in Sweeps, NEW e \in Enterprises, TransitionRow(d, e)
      PROVE  Goal
  <2>1. CASE d = c
    <3>1. /\ sweep[c].step = "row"
          /\ sweep'[c].phase = sweep[c].phase /\ sweep'[c].batch \subseteq sweep[c].batch
      <4>1. CASE sweep' = [sweep EXCEPT ![c] = [@ EXCEPT !.step = "event", !.row = e]]
        BY <1>1, <1>5, <2>1, <4>1 DEF TransitionRow, SweepState
      <4>2. CASE sweep' = [sweep EXCEPT ![c].batch = @ \ {e}]
        <5>1. sweep'[c] = [sweep[c] EXCEPT !.batch = sweep[c].batch \ {e}]
          BY <1>1, <4>2
        <5> QED BY <1>1, <1>5, <2>1, <5>1 DEF TransitionRow, SweepState
      <4> QED BY <1>5, <2>1, <4>1, <4>2 DEF TransitionRow
    <3> QED BY <3>1
  <2>2. CASE d # c
    BY <1>0, <1>1, <1>5, <2>2 DEF TransitionRow
  <2> QED BY <2>1, <2>2
<1>6. ASSUME NEW d \in Sweeps, SweepEvent(d)
      PROVE  Goal
  <2>1. CASE d = c
    <3>1. sweep'[c].phase = sweep[c].phase /\ sweep'[c].batch = sweep[c].batch
      BY <1>1, <1>6, <2>1 DEF SweepEvent, SweepState
    <3> QED BY <1>6, <2>1, <3>1
  <2>2. CASE d # c
    BY <1>0, <1>1, <1>6, <2>2 DEF SweepEvent
  <2> QED BY <2>1, <2>2
<1>7. ASSUME NEW d \in Sweeps, SweepAudit(d) \/ SweepRowFails(d)
      PROVE  Goal
  <2>1. CASE d = c
    <3>1. sweep'[c] = RowDone(c)
      BY <1>1, <1>7, <2>1 DEF SweepAudit, SweepRowFails
    <3>2. sweep'[c].phase = sweep[c].phase /\ sweep'[c].batch \subseteq sweep[c].batch
      BY <1>1, <3>1 DEF RowDone, SweepState
    <3>3. sweep[c].step = "event" => faults' = faults + 1
      BY <1>7, <2>1 DEF SweepAudit, SweepRowFails
    <3> QED BY <3>2, <3>3
  <2>2. CASE d # c
    BY <1>0, <1>1, <1>7, <2>2 DEF SweepAudit, SweepRowFails
  <2> QED BY <2>1, <2>2
<1>8. ASSUME ApiRestarts
      PROVE  Goal
  BY <1>8 DEF ApiRestarts, IdleSweep
<1>9. UNCHANGED sweep => Goal
  BY <1>0
<1> HIDE DEF Goal
<1>10. (\E e \in Enterprises, p \in Payments : CreatePendingPayment(e, p)) => UNCHANGED sweep
  BY DEF CreatePendingPayment, handlers
<1>11. (\E w \in Webhooks, p \in Payments, event \in EventStatus, matches \in BOOLEAN :
          Receive(w, p, event, matches)) => UNCHANGED sweep
  BY DEF Receive
<1>12. (\E w \in Webhooks : WebhookStep(w) \/ WebhookFails(w)) => UNCHANGED sweep
  BY DEF WebhookStep, LazyExpire, RecordConflict, Claim, Commit, AuditWebhook, Ignore, WebhookFails
<1>13. (\E x \in Expirers : ExpirerStep(x) \/ ExpiryAuditFails(x)) => UNCHANGED sweep
  BY DEF ExpirerStep, StartExpiry, ExpirePayment, ExpiryAudit, ExpiryAuditFails
<1>14. /\ (\E a \in Admins, e \in Enterprises, plan \in Plans : ReadForPlanChange(a, e, plan)) =>
            UNCHANGED sweep
       /\ (\E a \in Admins : AdminStep(a)) => UNCHANGED sweep
  BY DEF ReadForPlanChange, AdminStep, ChangeSubscriptionPlan, PlanChangeAudit
<1>15. Tick \/ UNCHANGED vars => UNCHANGED sweep
  BY DEF Tick, vars, handlers
<1>16. Goal
  BY <1>3, <1>4, <1>5, <1>6, <1>7, <1>8, <1>9, <1>10, <1>11, <1>12, <1>13, <1>14, <1>15
     DEF Next, SweepStep
<1> QED BY <1>16 DEF Goal

LEMMA TimePasses ==
  ASSUME TypeOK, [Next]_vars
  PROVE  now \in Nat /\ now' \in Nat /\ now <= now'
<1>1. (\E e \in Enterprises, p \in Payments : CreatePendingPayment(e, p)) => UNCHANGED now
  BY DEF CreatePendingPayment
<1>2. (\E w \in Webhooks, p \in Payments, event \in EventStatus, matches \in BOOLEAN :
         Receive(w, p, event, matches)) => UNCHANGED now
  BY DEF Receive
<1>3. (\E w \in Webhooks : WebhookStep(w) \/ WebhookFails(w)) => UNCHANGED now
  BY DEF WebhookStep, LazyExpire, RecordConflict, Claim, Commit, AuditWebhook, Ignore, WebhookFails
<1>4. (\E c \in Sweeps : SweepStep(c) \/ SweepRowFails(c)) => UNCHANGED now
  BY DEF SweepStep, StartSweep, NextPhase, TransitionRow, SweepEvent, SweepAudit, SweepRowFails
<1>5. (\E x \in Expirers : ExpirerStep(x) \/ ExpiryAuditFails(x)) => UNCHANGED now
  BY DEF ExpirerStep, StartExpiry, ExpirePayment, ExpiryAudit, ExpiryAuditFails
<1>6. /\ (\E a \in Admins, e \in Enterprises, plan \in Plans : ReadForPlanChange(a, e, plan)) =>
           UNCHANGED now
      /\ (\E a \in Admins : AdminStep(a)) => UNCHANGED now
  BY DEF ReadForPlanChange, AdminStep, ChangeSubscriptionPlan, PlanChangeAudit
<1>7. ApiRestarts \/ UNCHANGED vars => UNCHANGED now
  BY DEF ApiRestarts, vars
<1>8. now' = now \/ now' = now + 1
  BY <1>1, <1>2, <1>3, <1>4, <1>5, <1>6, <1>7 DEF Next, Tick
<1> QED BY <1>8 DEF TypeOK

LEMMA BatchIsOverNext ==
  TypeOK /\ HandlersConsistent /\ BatchIsOver /\ [Next]_vars => BatchIsOver'
<1> SUFFICES ASSUME TypeOK, HandlersConsistent, BatchIsOver, [Next]_vars,
                    NEW c \in Sweeps, sweep'[c].phase = "trials", NEW e \in sweep'[c].batch
             PROVE  subscription'[e].trialEndDate < now'
  BY DEF BatchIsOver
<1>1. now \in Nat /\ now' \in Nat /\ now <= now'
  BY TimePasses
<1>2. \/ sweep'[c].batch = FindExpirableTrials /\ UNCHANGED <<subscription, now>>
      \/ sweep'[c].phase = sweep[c].phase /\ sweep'[c].batch \subseteq sweep[c].batch
  BY SweepMoves
<1>3. CASE sweep'[c].batch = FindExpirableTrials /\ UNCHANGED <<subscription, now>>
  BY <1>3 DEF FindExpirableTrials
<1>4. CASE sweep'[c].phase = sweep[c].phase /\ sweep'[c].batch \subseteq sweep[c].batch
  <2>1. e \in Enterprises /\ subscription[e].trialEndDate < now
    BY <1>4 DEF BatchIsOver, TypeOK, SweepState
  <2>2. subscription'[e].trialEndDate = subscription[e].trialEndDate
    BY <2>1, SubscriptionMoves DEF SubscriptionMove
  <2>3. subscription[e].trialEndDate \in Nat
    BY <2>1 DEF TypeOK, Subscription
  <2> QED BY <1>1, <2>1, <2>2, <2>3
<1> QED BY <1>2, <1>3, <1>4

LEMMA RestrictionNext ==
  /\ TypeOK /\ HandlersConsistent /\ ClaimsAreLegal /\ BatchIsOver /\ RestrictionHasACause
  /\ [Next]_vars
  => RestrictionHasACause'
<1> SUFFICES ASSUME TypeOK, HandlersConsistent, ClaimsAreLegal, BatchIsOver,
                    RestrictionHasACause, [Next]_vars, NEW e \in Enterprises
             PROVE  /\ subscription'[e].status \in {"PAST_DUE", "SUSPENDED"} =>
                         \E p \in Payments : payment'[p].status = "FAILED"
                                             /\ payment'[p].enterprise = e
                    /\ subscription'[e].status = "EXPIRED" =>
                         subscription'[e].trialEndDate < now'
  BY DEF RestrictionHasACause
<1> DEFINE Failed == \E p \in Payments : payment[p].status = "FAILED" /\ payment[p].enterprise = e
<1>1. SubscriptionMove(e)
  BY SubscriptionMoves
<1>2. Failed => Failed'
  BY PaymentsStay DEF Settled
<1>3. /\ subscription[e].trialEndDate < now => subscription'[e].trialEndDate < now'
  <2>1. subscription[e].trialEndDate \in Nat
    BY DEF TypeOK, Subscription
  <2> QED BY <1>1, <2>1, TimePasses DEF SubscriptionMove
<1>4. CASE subscription'[e].status = subscription[e].status
  BY <1>2, <1>3, <1>4 DEF RestrictionHasACause
<1>5. ASSUME NEW w \in Webhooks, Commit(w), payment[webhook[w].payment].enterprise = e,
             subscription'[e].status = TargetStatus(webhook[w].event, webhook[w].seen.status),
             TargetStatus(webhook[w].event, webhook[w].seen.status) # None
      PROVE  \/ subscription'[e].status = "ACTIVE"
             \/ subscription'[e].status = "PAST_DUE" /\ Failed'
  <2>1. webhook[w].payment \in Payments /\ webhook[w].event \in EventStatus
    BY <1>5 DEF Commit, HandlersConsistent, WebhookHolds
  <2>2. payment'[webhook[w].payment].status = webhook[w].event
        /\ payment'[webhook[w].payment].enterprise = e
    BY <1>5, <2>1 DEF Commit, TypeOK, Payment
  <2>3. CASE webhook[w].event = "SUCCEEDED"
    <3>1. TargetStatus(webhook[w].event, webhook[w].seen.status) = "ACTIVE"
      BY <2>3 DEF TargetStatus
    <3> QED BY <1>5, <3>1
  <2>4. CASE webhook[w].event = "FAILED"
    <3>1. subscription'[e].status = "PAST_DUE"
      BY <1>5, <2>4 DEF TargetStatus
    <3>2. Failed'
      BY <2>1, <2>2, <2>4
    <3> QED BY <3>1, <3>2
  <2> QED BY <2>1, <2>3, <2>4 DEF EventStatus
<1>6. ASSUME NEW c \in Sweeps, TransitionRow(c, e), subscription[e].status = SweepFrom(c),
             subscription'[e].status = SweepTo(c)
      PROVE  \/ subscription'[e].status = "EXPIRED" /\ subscription'[e].trialEndDate < now'
             \/ subscription'[e].status = "SUSPENDED" /\ Failed'
  <2>1. CASE sweep[c].phase = "trials"
    <3>1. subscription[e].trialEndDate < now
      BY <1>6, <2>1 DEF TransitionRow, BatchIsOver
    <3> QED BY <1>3, <1>6, <2>1, <3>1 DEF SweepTo
  <2>2. CASE sweep[c].phase # "trials"
    BY <1>2, <1>6, <2>2 DEF SweepFrom, SweepTo, RestrictionHasACause
  <2> QED BY <2>1, <2>2
<1> HIDE DEF Failed
<1>7. \/ subscription'[e].status = subscription[e].status
      \/ subscription'[e].status = "ACTIVE"
      \/ subscription'[e].status \in {"PAST_DUE", "SUSPENDED"} /\ Failed'
      \/ subscription'[e].status = "EXPIRED" /\ subscription'[e].trialEndDate < now'
  BY <1>1, <1>5, <1>6 DEF SubscriptionMove
<1>8. Failed' => \E p \in Payments : payment'[p].status = "FAILED" /\ payment'[p].enterprise = e
  BY DEF Failed
<1> QED BY <1>4, <1>7, <1>8

\* Whatever the job and the webhooks interleave, access is only restricted for a failed
\* payment of the same tenant, and a trial only ends once its whole length has passed.
THEOREM RestrictionsAreCaused == Spec => []RestrictionHasACause
<1>1. Init => PaidAccessIsInvoiced /\ ClaimsAreLegal /\ BatchIsOver /\ RestrictionHasACause
  BY DEF Init, PaidAccessIsInvoiced, ClaimsAreLegal, BatchIsOver, RestrictionHasACause,
         IdleWebhook, IdleSweep
<1>2. Spec => [](TypeOK /\ HandlersConsistent)
  BY TypeCorrect, Consistent, PTL
<1> QED BY <1>1, <1>2, ClaimsAreLegalNext, PaidAccessNext, BatchIsOverNext, RestrictionNext, PTL
        DEF Spec

-----------------------------------------------------------------------------
(* A payment is resolved in time.                                          *)

LEMMA ClaimsAreTimelyNext ==
  TypeOK /\ HandlersConsistent /\ ClaimsAreTimely /\ [Next]_vars => ClaimsAreTimely'
<1> SUFFICES ASSUME TypeOK, HandlersConsistent, ClaimsAreTimely, [Next]_vars,
                    NEW w \in Webhooks, webhook'[w].pc \in {"claim", "commit"},
                    payment'[webhook'[w].payment].status = "PENDING"
             PROVE  webhook'[w].readAt <= payment'[webhook'[w].payment].expiresAt
  BY DEF ClaimsAreTimely
<1>1. WebhookMove(w)
  BY WebhookMoves
<1>2. \A p \in Payments : payment[p].status # "NONE" =>
        /\ payment'[p].expiresAt = payment[p].expiresAt
        /\ payment[p].status # "PENDING" => payment'[p].status = payment[p].status
  BY PaymentsStay, DeadlinesStay DEF TypeOK, Payment, PaymentStatus, Settled
<1>3. CASE webhook'[w] = webhook[w]
  <2>1. webhook[w].payment \in Payments /\ payment[webhook[w].payment].status # "NONE"
    BY <1>3 DEF HandlersConsistent, WebhookHolds
  <2> QED BY <1>2, <1>3, <2>1 DEF ClaimsAreTimely
<1>4. CASE /\ webhook'[w].readAt = now /\ webhook'[w].payment \in Payments
           /\ ~Overdue(webhook'[w].payment) /\ payment[webhook'[w].payment].status # "NONE"
  <2> DEFINE p == webhook'[w].payment
  <2>1. payment[p].status # "NONE"
    BY <1>4
  <2>2. payment[p].status = "PENDING" /\ payment[p].expiresAt \in Nat /\ now \in Nat
    BY <1>2, <1>4, <2>1 DEF TypeOK, Payment
  <2> QED BY <1>2, <1>4, <2>1, <2>2 DEF Overdue
<1>5. CASE /\ webhook[w].pc = "claim" /\ UNCHANGED payment
           /\ webhook'[w].payment = webhook[w].payment /\ webhook'[w].readAt = webhook[w].readAt
  BY <1>5 DEF ClaimsAreTimely
<1> QED BY <1>1, <1>3, <1>4, <1>5 DEF WebhookMove

\* Only a transaction that has claimed a payment resolves it.
LEMMA CommitsResolve ==
  ASSUME TypeOK, HandlersConsistent, [Next]_vars, NEW p \in Payments,
         payment[p].status = "PENDING", payment'[p].status \in EventStatus
  PROVE  \E w \in Webhooks : Commit(w) /\ webhook[w].payment = p
<1>1. ~UNCHANGED payment
  BY DEF EventStatus
<1>2. ASSUME NEW q, NEW status, payment' = [payment EXCEPT ![q] = [@ EXCEPT !.status = status]],
             status \notin EventStatus
      PROVE  FALSE
  <2>1. payment'[p] = IF q = p THEN [payment[p] EXCEPT !.status = status] ELSE payment[p]
    BY <1>2 DEF TypeOK
  <2>2. [payment[p] EXCEPT !.status = status].status = status
    BY DEF TypeOK, Payment
  <2> QED BY <1>2, <2>1, <2>2 DEF EventStatus
<1>3. ASSUME NEW w \in Webhooks, RecordConflict(w)
      PROVE  FALSE
  <2>1. payment' = [payment EXCEPT ![webhook[w].payment] =
                      [@ EXCEPT !.conflictingEvent = webhook[w].event]]
    BY <1>3 DEF RecordConflict
  <2>2. \/ payment'[p] = payment[p]
        \/ payment'[p] = [payment[p] EXCEPT !.conflictingEvent = webhook[w].event]
    BY <2>1 DEF TypeOK
  <2>3. [payment[p] EXCEPT !.conflictingEvent = webhook[w].event].status = payment[p].status
    BY DEF TypeOK, Payment
  <2> QED BY <2>2, <2>3 DEF EventStatus
<1>4. ASSUME NEW e \in Enterprises, NEW q \in Payments, CreatePendingPayment(e, q)
      PROVE  FALSE
  BY <1>4 DEF CreatePendingPayment, TypeOK, EventStatus
<1>5. ASSUME NEW w \in Webhooks, LazyExpire(w)
      PROVE  FALSE
  <2>1. payment' = [payment EXCEPT ![webhook[w].payment] = [@ EXCEPT !.status = "EXPIRED"]]
    BY <1>5, <1>1 DEF LazyExpire
  <2> QED BY <1>2, <2>1 DEF EventStatus
<1>6. ASSUME NEW x \in Expirers, ExpirerStep(x) \/ ExpiryAuditFails(x)
      PROVE  FALSE
  <2>1. PICK q \in Payments : payment' = [payment EXCEPT ![q] = [@ EXCEPT !.status = "EXPIRED"]]
    BY <1>6, <1>1 DEF ExpirerStep, StartExpiry, ExpirePayment, ExpiryAudit, ExpiryAuditFails, tables
  <2> QED BY <1>2, <2>1 DEF EventStatus
<1>7. ASSUME NEW w \in Webhooks, Commit(w), webhook[w].payment # p
      PROVE  FALSE
  BY <1>7 DEF Commit, TypeOK, EventStatus
<1>8. (\E w \in Webhooks : Claim(w) \/ AuditWebhook(w) \/ Ignore(w) \/ WebhookFails(w)) =>
        UNCHANGED payment
  BY DEF Claim, AuditWebhook, Ignore, WebhookFails, tables
<1>9. (\E w \in Webhooks, q \in Payments, event \in EventStatus, matches \in BOOLEAN :
         Receive(w, q, event, matches)) => UNCHANGED payment
  BY DEF Receive, tables
<1>10. (\E c \in Sweeps : SweepStep(c) \/ SweepRowFails(c)) => UNCHANGED payment
  BY DEF SweepStep, StartSweep, NextPhase, TransitionRow, SweepEvent, SweepAudit, SweepRowFails,
         tables
<1>11. /\ (\E a \in Admins, e \in Enterprises, plan \in Plans : ReadForPlanChange(a, e, plan)) =>
            UNCHANGED payment
       /\ (\E a \in Admins : AdminStep(a)) => UNCHANGED payment
  BY DEF ReadForPlanChange, AdminStep, ChangeSubscriptionPlan, PlanChangeAudit, tables
<1>12. Tick \/ ApiRestarts \/ UNCHANGED vars => UNCHANGED payment
  BY DEF Tick, ApiRestarts, vars, tables
<1> QED BY <1>1, <1>3, <1>4, <1>5, <1>6, <1>7, <1>8, <1>9, <1>10, <1>11, <1>12
        DEF Next, WebhookStep

\* BIL-19: whoever resolves a payment read it before its deadline.
THEOREM ResolutionIsTimely == Spec => ResolvedInTime
<1> DEFINE InTime ==
      \A p \in Payments :
        payment[p].status = "PENDING" /\ payment'[p].status \in EventStatus =>
          \E w \in Webhooks : /\ webhook[w].payment = p
                              /\ webhook[w].event = payment'[p].status
                              /\ webhook[w].readAt <= payment[p].expiresAt
<1>1. ASSUME TypeOK, HandlersConsistent, ClaimsAreTimely, [Next]_vars, NEW p \in Payments,
             payment[p].status = "PENDING", payment'[p].status \in EventStatus
      PROVE  \E w \in Webhooks : /\ webhook[w].payment = p
                                 /\ webhook[w].event = payment'[p].status
                                 /\ webhook[w].readAt <= payment[p].expiresAt
  <2>1. PICK w \in Webhooks : Commit(w) /\ webhook[w].payment = p
    BY <1>1, CommitsResolve
  <2>2. payment'[p].status = webhook[w].event
    BY <1>1, <2>1 DEF Commit, TypeOK, Payment
  <2> QED BY <1>1, <2>1, <2>2 DEF ClaimsAreTimely, Commit
<1>2. TypeOK /\ HandlersConsistent /\ ClaimsAreTimely /\ [Next]_vars => [InTime]_vars
  BY <1>1
<1>3. Init => ClaimsAreTimely
  BY DEF Init, ClaimsAreTimely, IdleWebhook
<1>4. Spec => [](TypeOK /\ HandlersConsistent)
  BY TypeCorrect, Consistent, PTL
<1> QED BY <1>2, <1>3, <1>4, ClaimsAreTimelyNext, PTL DEF Spec, ResolvedInTime

-----------------------------------------------------------------------------
(* The history and the audit log.                                          *)

\* The rows that a step adds to a history.
HistoryMove(e) ==
  \/ history'[e] = history[e]
  \/ \E w \in Webhooks :
       LET seen == webhook[w].seen
           target == TargetStatus(webhook[w].event, seen.status)
       IN /\ Commit(w) /\ target # None /\ seen.status # target
          /\ history'[e] = Append(history[e],
               [fromStatus |-> seen.status, toStatus |-> target,
                fromPlanId |-> seen.planId, toPlanId |-> seen.planId])
  \/ \E c \in Sweeps :
       /\ SweepEvent(c)
       /\ history'[e] = Append(history[e],
            [fromStatus |-> SweepFrom(c), toStatus |-> SweepTo(c),
             fromPlanId |-> None, toPlanId |-> None])
  \/ \E a \in Admins :
       /\ ChangeSubscriptionPlan(a)
       /\ history'[e] = Append(history[e],
            [fromStatus |-> admin[a].seen.status, toStatus |-> admin[a].seen.status,
             fromPlanId |-> admin[a].seen.planId, toPlanId |-> admin[a].planId])

LEMMA HistoryMoves ==
  ASSUME TypeOK, HandlersConsistent, [Next]_vars, NEW e \in Enterprises
  PROVE  HistoryMove(e)
<1>0. UNCHANGED history => HistoryMove(e)
  BY DEF HistoryMove
<1>1. ASSUME NEW f \in Enterprises, NEW row,
             history' = [history EXCEPT ![f] = Append(@, row)]
      PROVE  history'[e] = IF e = f THEN Append(history[e], row) ELSE history[e]
  BY <1>1 DEF TypeOK
<1>2. ASSUME NEW w \in Webhooks, Commit(w)
      PROVE  HistoryMove(e)
  <2> DEFINE f == payment[webhook[w].payment].enterprise
             seen == webhook[w].seen
             target == TargetStatus(webhook[w].event, seen.status)
             row == [fromStatus |-> seen.status, toStatus |-> target,
                     fromPlanId |-> seen.planId, toPlanId |-> seen.planId]
  <2>1. f \in Enterprises
    BY <1>2 DEF Commit, HandlersConsistent, WebhookHolds, OpenedForAnEnterprise
  <2>2. CASE target # None /\ seen.status # target
    <3>1. history' = [history EXCEPT ![f] = Append(@, row)]
      BY <1>2, <2>2 DEF Commit
    <3>2. history'[e] = IF e = f THEN Append(history[e], row) ELSE history[e]
      BY <1>1, <2>1, <3>1
    <3> QED BY <1>2, <2>2, <3>2 DEF HistoryMove
  <2>3. CASE ~(target # None /\ seen.status # target)
    BY <1>0, <1>2, <2>3 DEF Commit
  <2> QED BY <2>2, <2>3
<1>3. ASSUME NEW c \in Sweeps, SweepEvent(c)
      PROVE  HistoryMove(e)
  <2> DEFINE row == [fromStatus |-> SweepFrom(c), toStatus |-> SweepTo(c),
                     fromPlanId |-> None, toPlanId |-> None]
  <2>1. /\ sweep[c].row \in Enterprises
        /\ history' = [history EXCEPT ![sweep[c].row] = Append(@, row)]
    BY <1>3 DEF SweepEvent, HandlersConsistent, SweepHolds
  <2>2. history'[e] = IF e = sweep[c].row THEN Append(history[e], row) ELSE history[e]
    BY <1>1, <2>1
  <2> QED BY <1>3, <2>2 DEF HistoryMove
<1>4. ASSUME NEW a \in Admins, ChangeSubscriptionPlan(a)
      PROVE  HistoryMove(e)
  <2> DEFINE seen == admin[a].seen
             row == [fromStatus |-> seen.status, toStatus |-> seen.status,
                     fromPlanId |-> seen.planId, toPlanId |-> admin[a].planId]
  <2>1. /\ admin[a].enterprise \in Enterprises
        /\ history' = [history EXCEPT ![admin[a].enterprise] = Append(@, row)]
    BY <1>4 DEF ChangeSubscriptionPlan, HandlersConsistent, AdminHolds
  <2>2. history'[e] = IF e = admin[a].enterprise THEN Append(history[e], row) ELSE history[e]
    BY <1>1, <2>1
  <2> QED BY <1>4, <2>2 DEF HistoryMove
<1>5. (\E f \in Enterprises, p \in Payments : CreatePendingPayment(f, p)) => UNCHANGED history
  BY DEF CreatePendingPayment
<1>6. (\E w \in Webhooks, p \in Payments, event \in EventStatus, matches \in BOOLEAN :
         Receive(w, p, event, matches)) => UNCHANGED history
  BY DEF Receive, tables
<1>7. (\E w \in Webhooks : \/ LazyExpire(w) \/ RecordConflict(w) \/ Claim(w)
                           \/ AuditWebhook(w) \/ Ignore(w) \/ WebhookFails(w))
        => UNCHANGED history
  BY DEF LazyExpire, RecordConflict, Claim, AuditWebhook, Ignore, WebhookFails, tables
<1>8. (\E c \in Sweeps : \/ StartSweep(c) \/ NextPhase(c) \/ SweepAudit(c) \/ SweepRowFails(c)
                         \/ \E f \in Enterprises : TransitionRow(c, f)) => UNCHANGED history
  BY DEF StartSweep, NextPhase, SweepAudit, SweepRowFails, TransitionRow, tables
<1>9. (\E x \in Expirers : ExpirerStep(x) \/ ExpiryAuditFails(x)) => UNCHANGED history
  BY DEF ExpirerStep, StartExpiry, ExpirePayment, ExpiryAudit, ExpiryAuditFails, tables
<1>10. /\ (\E a \in Admins, f \in Enterprises, plan \in Plans : ReadForPlanChange(a, f, plan)) =>
            UNCHANGED history
       /\ (\E a \in Admins : PlanChangeAudit(a)) => UNCHANGED history
  BY DEF ReadForPlanChange, PlanChangeAudit, tables
<1>11. Tick \/ ApiRestarts \/ UNCHANGED vars => UNCHANGED history
  BY DEF Tick, ApiRestarts, vars, tables
<1> QED BY <1>0, <1>2, <1>3, <1>4, <1>5, <1>6, <1>7, <1>8, <1>9, <1>10, <1>11
        DEF Next, WebhookStep, SweepStep, AdminStep

\* Rows of a history stay where they are.
LEMMA HistoryStays ==
  ASSUME TypeOK, HandlersConsistent, [Next]_vars, NEW e \in Enterprises,
         NEW i \in DOMAIN history[e]
  PROVE  i \in DOMAIN history'[e] /\ history'[e][i] = history[e][i]
<1>1. history[e] \in Seq(SubscriptionEvent)
  BY DEF TypeOK
<1>2. \A row : Append(history[e], row)[i] = history[e][i] /\ i \in DOMAIN Append(history[e], row)
  BY <1>1
<1> QED BY <1>2, HistoryMoves DEF HistoryMove

LEMMA RecordedTransitionsNext ==
  /\ TypeOK /\ HandlersConsistent /\ ClaimsAreLegal /\ PlanChangesAreLegal
  /\ RecordedTransitionsAreAllowed /\ [Next]_vars
  => RecordedTransitionsAreAllowed'
<1> DEFINE Legal(event) ==
      \/ CanTransition(event.fromStatus, event.toStatus)
      \/ /\ event.fromStatus = event.toStatus
         /\ event.fromStatus \notin TerminalSubscriptionStatuses
         /\ event.fromPlanId # event.toPlanId
<1> SUFFICES ASSUME TypeOK, HandlersConsistent, ClaimsAreLegal, PlanChangesAreLegal,
                    RecordedTransitionsAreAllowed, [Next]_vars,
                    NEW e \in Enterprises, NEW i \in DOMAIN history'[e]
             PROVE  Legal(history'[e][i])
  BY DEF RecordedTransitionsAreAllowed
<1>1. history[e] \in Seq(SubscriptionEvent)
  BY DEF TypeOK
<1>2. \A j \in DOMAIN history[e] : Legal(history[e][j])
  BY DEF RecordedTransitionsAreAllowed
<1>3. CASE history'[e] = history[e]
  BY <1>2, <1>3
<1>4. ASSUME NEW row, history'[e] = Append(history[e], row), Legal(row)
      PROVE  Legal(history'[e][i])
  <2> HIDE DEF Legal
  <2>1. \/ i \in DOMAIN history[e] /\ history'[e][i] = history[e][i]
        \/ history'[e][i] = row
    BY <1>1, <1>4
  <2> QED BY <1>2, <1>4, <2>1
<1>5. ASSUME NEW w \in Webhooks, Commit(w),
             TargetStatus(webhook[w].event, webhook[w].seen.status) # None,
             webhook[w].seen.status # TargetStatus(webhook[w].event, webhook[w].seen.status)
      PROVE  CanTransition(webhook[w].seen.status,
                           TargetStatus(webhook[w].event, webhook[w].seen.status))
  BY <1>5 DEF Commit, ClaimsAreLegal, Rejected
<1>6. ASSUME NEW c \in Sweeps
      PROVE  CanTransition(SweepFrom(c), SweepTo(c))
  BY DEF CanTransition, SweepFrom, SweepTo, AllowedTransitions
<1>7. ASSUME NEW a \in Admins, ChangeSubscriptionPlan(a)
      PROVE  /\ admin[a].seen.status \notin TerminalSubscriptionStatuses
             /\ admin[a].seen.planId # admin[a].planId
  BY <1>7 DEF ChangeSubscriptionPlan, PlanChangesAreLegal
<1>8. HistoryMove(e)
  BY HistoryMoves
<1>9. ASSUME NEW w \in Webhooks, Commit(w),
             TargetStatus(webhook[w].event, webhook[w].seen.status) # None,
             webhook[w].seen.status # TargetStatus(webhook[w].event, webhook[w].seen.status),
             history'[e] = Append(history[e],
               [fromStatus |-> webhook[w].seen.status,
                toStatus |-> TargetStatus(webhook[w].event, webhook[w].seen.status),
                fromPlanId |-> webhook[w].seen.planId, toPlanId |-> webhook[w].seen.planId])
      PROVE  Legal(history'[e][i])
  <2> DEFINE row == [fromStatus |-> webhook[w].seen.status,
                     toStatus |-> TargetStatus(webhook[w].event, webhook[w].seen.status),
                     fromPlanId |-> webhook[w].seen.planId, toPlanId |-> webhook[w].seen.planId]
  <2>1. Legal(row)
    BY <1>5, <1>9
  <2> HIDE DEF Legal
  <2> QED BY <1>4, <1>9, <2>1
<1>10. ASSUME NEW c \in Sweeps,
              history'[e] = Append(history[e],
                [fromStatus |-> SweepFrom(c), toStatus |-> SweepTo(c),
                 fromPlanId |-> None, toPlanId |-> None])
       PROVE  Legal(history'[e][i])
  <2> DEFINE row == [fromStatus |-> SweepFrom(c), toStatus |-> SweepTo(c),
                     fromPlanId |-> None, toPlanId |-> None]
  <2>1. Legal(row)
    BY <1>6
  <2> HIDE DEF Legal
  <2> QED BY <1>4, <1>10, <2>1
<1>11. ASSUME NEW a \in Admins, ChangeSubscriptionPlan(a),
              history'[e] = Append(history[e],
                [fromStatus |-> admin[a].seen.status, toStatus |-> admin[a].seen.status,
                 fromPlanId |-> admin[a].seen.planId, toPlanId |-> admin[a].planId])
       PROVE  Legal(history'[e][i])
  <2> DEFINE row == [fromStatus |-> admin[a].seen.status, toStatus |-> admin[a].seen.status,
                     fromPlanId |-> admin[a].seen.planId, toPlanId |-> admin[a].planId]
  <2>1. Legal(row)
    BY <1>7, <1>11
  <2> HIDE DEF Legal
  <2> QED BY <1>4, <1>11, <2>1
<1> HIDE DEF Legal
<1> QED BY <1>3, <1>8, <1>9, <1>10, <1>11 DEF HistoryMove

\* A plan change in flight keeps what it checked.
LEMMA PlanChangesAreLegalNext ==
  TypeOK /\ HandlersConsistent /\ PlanChangesAreLegal /\ [Next]_vars => PlanChangesAreLegal'
<1> SUFFICES ASSUME TypeOK, HandlersConsistent, PlanChangesAreLegal, [Next]_vars,
                    NEW a \in Admins, admin'[a].pc = "apply"
             PROVE  /\ admin'[a].seen.status \notin TerminalSubscriptionStatuses
                    /\ admin'[a].seen.planId # admin'[a].planId
  BY DEF PlanChangesAreLegal
<1>1. CASE admin'[a] = admin[a]
  BY <1>1 DEF PlanChangesAreLegal
<1>2. ASSUME NEW b \in Admins, NEW e \in Enterprises, NEW plan \in Plans,
             ReadForPlanChange(b, e, plan)
      PROVE  \/ admin'[a] = admin[a]
             \/ /\ admin'[a].seen.status \notin TerminalSubscriptionStatuses
                /\ admin'[a].seen.planId # admin'[a].planId
  BY <1>2 DEF ReadForPlanChange, TypeOK
<1>3. ASSUME NEW b \in Admins, AdminStep(b)
      PROVE  admin'[a] = admin[a]
  <2>1. b # a
    <3>1. CASE ChangeSubscriptionPlan(a)
      <4>1. admin'[a] = [admin[a] EXCEPT !.pc = "audit", !.seen = None]
        BY <3>1 DEF ChangeSubscriptionPlan, TypeOK
      <4> QED BY <4>1 DEF TypeOK, AdminState
    <3>2. CASE PlanChangeAudit(a)
      BY <3>2 DEF PlanChangeAudit, TypeOK, IdleAdmin
    <3> QED BY <1>3, <3>1, <3>2 DEF AdminStep
  <2> QED BY <1>3, <2>1 DEF AdminStep, ChangeSubscriptionPlan, PlanChangeAudit, TypeOK
<1>4. ~ApiRestarts
  BY DEF ApiRestarts, IdleAdmin
<1>5. (\E f \in Enterprises, p \in Payments : CreatePendingPayment(f, p)) => UNCHANGED admin
  BY DEF CreatePendingPayment, handlers
<1>6. (\E w \in Webhooks, p \in Payments, event \in EventStatus, matches \in BOOLEAN :
         Receive(w, p, event, matches)) => UNCHANGED admin
  BY DEF Receive
<1>7. (\E w \in Webhooks : WebhookStep(w) \/ WebhookFails(w)) => UNCHANGED admin
  BY DEF WebhookStep, LazyExpire, RecordConflict, Claim, Commit, AuditWebhook, Ignore, WebhookFails
<1>8. (\E c \in Sweeps : SweepStep(c) \/ SweepRowFails(c)) => UNCHANGED admin
  BY DEF SweepStep, StartSweep, NextPhase, TransitionRow, SweepEvent, SweepAudit, SweepRowFails
<1>9. (\E x \in Expirers : ExpirerStep(x) \/ ExpiryAuditFails(x)) => UNCHANGED admin
  BY DEF ExpirerStep, StartExpiry, ExpirePayment, ExpiryAudit, ExpiryAuditFails
<1>10. Tick \/ UNCHANGED vars => UNCHANGED admin
  BY DEF Tick, vars, handlers
<1> QED BY <1>1, <1>2, <1>3, <1>4, <1>5, <1>6, <1>7, <1>8, <1>9, <1>10 DEF Next

\* Every row of a history is a transition of the state machine, or a change of plan of a
\* subscription that was neither cancelled nor expired when it was asked for.
THEOREM HistoryIsLegal == Spec => []RecordedTransitionsAreAllowed
<1>1. Init => /\ PaidAccessIsInvoiced /\ ClaimsAreLegal
              /\ PlanChangesAreLegal /\ RecordedTransitionsAreAllowed
  BY DEF Init, PaidAccessIsInvoiced, ClaimsAreLegal, PlanChangesAreLegal,
         RecordedTransitionsAreAllowed, IdleWebhook, IdleAdmin
<1>2. Spec => [](TypeOK /\ HandlersConsistent)
  BY TypeCorrect, Consistent, PTL
<1> QED BY <1>1, <1>2, ClaimsAreLegalNext, PaidAccessNext, PlanChangesAreLegalNext,
           RecordedTransitionsNext, PTL DEF Spec

\* Faults are counted, and never forgotten.
LEMMA FaultsStay ==
  ASSUME TypeOK, [Next]_vars
  PROVE  faults \in Nat /\ (faults' = faults \/ faults' = faults + 1)
<1>1. (\E e \in Enterprises, p \in Payments : CreatePendingPayment(e, p)) => UNCHANGED faults
  BY DEF CreatePendingPayment
<1>2. (\E w \in Webhooks, p \in Payments, event \in EventStatus, matches \in BOOLEAN :
         Receive(w, p, event, matches)) => UNCHANGED faults
  BY DEF Receive
<1>3. (\E w \in Webhooks : WebhookStep(w)) => UNCHANGED faults
  BY DEF WebhookStep, LazyExpire, RecordConflict, Claim, Commit, AuditWebhook, Ignore
<1>4. (\E c \in Sweeps : SweepStep(c)) => UNCHANGED faults
  BY DEF SweepStep, StartSweep, NextPhase, TransitionRow, SweepEvent, SweepAudit
<1>5. (\E x \in Expirers : ExpirerStep(x)) => UNCHANGED faults
  BY DEF ExpirerStep, StartExpiry, ExpirePayment, ExpiryAudit
<1>6. /\ (\E a \in Admins, e \in Enterprises, plan \in Plans : ReadForPlanChange(a, e, plan)) =>
           UNCHANGED faults
      /\ (\E a \in Admins : AdminStep(a)) => UNCHANGED faults
  BY DEF ReadForPlanChange, AdminStep, ChangeSubscriptionPlan, PlanChangeAudit
<1>7. Tick \/ UNCHANGED vars => UNCHANGED faults
  BY DEF Tick, vars
<1>8. faults' = faults \/ faults' = faults + 1
  BY <1>1, <1>2, <1>3, <1>4, <1>5, <1>6, <1>7
  DEF Next, WebhookFails, SweepRowFails, ExpiryAuditFails, ApiRestarts
<1> QED BY <1>8 DEF TypeOK

LEMMA RecordedNext ==
  TypeOK /\ HandlersConsistent /\ RecordedUnlessFault /\ [Next]_vars => RecordedUnlessFault'
<1> SUFFICES ASSUME TypeOK, HandlersConsistent, RecordedUnlessFault, [Next]_vars,
                    faults' = 0, NEW e \in Enterprises
             PROVE  StatusIsRecorded(e)'
  BY DEF RecordedUnlessFault
<1>1. faults = 0
  BY FaultsStay
<1>2. StatusIsRecorded(e)
  BY <1>1 DEF RecordedUnlessFault
<1>3. \A i \in DOMAIN history[e] : i \in DOMAIN history'[e] /\ history'[e][i] = history[e][i]
  BY HistoryStays
<1>4. history[e] \in Seq(SubscriptionEvent)
  BY DEF TypeOK
<1>5. ASSUME NEW row, history'[e] = Append(history[e], row),
             row.toStatus = subscription'[e].status
      PROVE  StatusIsRecorded(e)'
  <2>1. /\ Len(history[e]) + 1 \in DOMAIN history'[e]
        /\ history'[e][Len(history[e]) + 1] = row
    BY <1>4, <1>5
  <2> QED BY <1>5, <2>1 DEF StatusIsRecorded
<1>6. CASE subscription'[e].status = subscription[e].status
  <2>1. CASE subscription[e].status = "TRIAL"
    BY <1>6, <2>1 DEF StatusIsRecorded
  <2>2. ASSUME NEW i \in DOMAIN history[e], history[e][i].toStatus = subscription[e].status
        PROVE  StatusIsRecorded(e)'
    BY <1>3, <1>6, <2>2 DEF StatusIsRecorded
  <2>3. ASSUME NEW c \in Sweeps, sweep[c].step = "event", sweep[c].row = e,
               SweepTo(c) = subscription[e].status
        PROVE  StatusIsRecorded(e)'
    <3>1. sweep'[c] = sweep[c] \/ SweepEvent(c)
      <4>1. faults' # faults + 1
        BY <1>1
      <4> QED BY <2>3, <4>1, SweepMoves
    <3>2. CASE sweep'[c] = sweep[c]
      <4>1. sweep'[c].step = "event" /\ sweep'[c].row = e
            /\ SweepTo(c)' = subscription'[e].status
        BY <1>6, <2>3, <3>2 DEF SweepTo
      <4> QED BY <4>1 DEF StatusIsRecorded
    <3>3. CASE SweepEvent(c)
      <4> DEFINE row == [fromStatus |-> SweepFrom(c), toStatus |-> SweepTo(c),
                         fromPlanId |-> None, toPlanId |-> None]
      <4>1. history'[e] = Append(history[e], row) /\ row.toStatus = subscription'[e].status
        BY <1>6, <2>3, <3>3 DEF SweepEvent, TypeOK
      <4> HIDE DEF row
      <4> QED BY <1>5, <4>1
    <3> QED BY <3>1, <3>2, <3>3
  <2> QED BY <1>2, <2>1, <2>2, <2>3 DEF StatusIsRecorded
<1>7. ASSUME NEW w \in Webhooks, Commit(w), payment[webhook[w].payment].enterprise = e,
             TargetStatus(webhook[w].event, webhook[w].seen.status) # None,
             webhook[w].seen.status # TargetStatus(webhook[w].event, webhook[w].seen.status),
             subscription'[e].status = TargetStatus(webhook[w].event, webhook[w].seen.status)
      PROVE  StatusIsRecorded(e)'
  <2> DEFINE row == [fromStatus |-> webhook[w].seen.status,
                     toStatus |-> TargetStatus(webhook[w].event, webhook[w].seen.status),
                     fromPlanId |-> webhook[w].seen.planId, toPlanId |-> webhook[w].seen.planId]
  <2>1. history' = [history EXCEPT ![e] = Append(@, row)]
    BY <1>7 DEF Commit
  <2>2. row.toStatus = subscription'[e].status
    BY <1>7
  <2> HIDE DEF row
  <2>3. history'[e] = Append(history[e], row)
    BY <2>1 DEF TypeOK
  <2> QED BY <1>5, <2>2, <2>3
<1>8. ASSUME NEW c \in Sweeps, TransitionRow(c, e), subscription[e].status = SweepFrom(c),
             subscription'[e].status = SweepTo(c)
      PROVE  StatusIsRecorded(e)'
  <2>1. sweep'[c] = [sweep[c] EXCEPT !.step = "event", !.row = e]
    BY <1>8 DEF TransitionRow, TypeOK
  <2>2. sweep'[c].step = "event" /\ sweep'[c].row = e /\ sweep'[c].phase = sweep[c].phase
    BY <2>1 DEF TypeOK, SweepState
  <2>3. SweepTo(c)' = subscription'[e].status
    BY <1>8, <2>2 DEF SweepTo
  <2> QED BY <2>2, <2>3 DEF StatusIsRecorded
<1> QED BY <1>6, <1>7, <1>8, SubscriptionMoves DEF SubscriptionMove

\* As long as nothing fails, no change of status is missing from the history: the job that
\* has written one is still to record it.
THEOREM StatusesAreRecorded == Spec => []RecordedUnlessFault
<1>1. Init => RecordedUnlessFault
  BY DEF Init, RecordedUnlessFault, StatusIsRecorded
<1>2. Spec => [](TypeOK /\ HandlersConsistent)
  BY TypeCorrect, Consistent, PTL
<1> QED BY <1>1, <1>2, RecordedNext, PTL DEF Spec

-----------------------------------------------------------------------------
(* Whoever settles a payment audits it.                                    *)

\* The settlement of a payment is in the hands of the request or of the run that made it.
LEMMA SettledByWhoAudits ==
  ASSUME TypeOK, HandlersConsistent, [Next]_vars, NEW p \in Payments,
         payment[p].status \notin Settled, payment'[p].status \in Settled
  PROVE  AboutToAudit(p)'
<1>1. ASSUME NEW w \in Webhooks, webhook'[w].pc = "audit", webhook'[w].payment = p,
             webhook'[w].outcome # "status_conflict"
      PROVE  AboutToAudit(p)'
  BY <1>1 DEF AboutToAudit
<1>2. ASSUME NEW q, NEW status, payment' = [payment EXCEPT ![q] = [@ EXCEPT !.status = status]]
      PROVE  q = p
  <2>1. payment'[p] = IF q = p THEN [payment[p] EXCEPT !.status = status] ELSE payment[p]
    BY <1>2 DEF TypeOK
  <2> QED BY <2>1
<1>3. ~UNCHANGED payment
  OBVIOUS
<1>4. ASSUME NEW w \in Webhooks, RecordConflict(w)
      PROVE  FALSE
  <2>1. payment' = [payment EXCEPT ![webhook[w].payment] =
                      [@ EXCEPT !.conflictingEvent = webhook[w].event]]
    BY <1>4 DEF RecordConflict
  <2>2. \/ payment'[p] = payment[p]
        \/ payment'[p] = [payment[p] EXCEPT !.conflictingEvent = webhook[w].event]
    BY <2>1 DEF TypeOK
  <2>3. [payment[p] EXCEPT !.conflictingEvent = webhook[w].event].status = payment[p].status
    BY DEF TypeOK, Payment
  <2> QED BY <2>2, <2>3
<1>5. ASSUME NEW e \in Enterprises, NEW q \in Payments, CreatePendingPayment(e, q)
      PROVE  FALSE
  BY <1>5 DEF CreatePendingPayment, TypeOK, Settled
<1>6. ASSUME NEW w \in Webhooks, LazyExpire(w)
      PROVE  AboutToAudit(p)'
  <2>1. /\ payment' = [payment EXCEPT ![webhook[w].payment] = [@ EXCEPT !.status = "EXPIRED"]]
        /\ webhook'[w] = [webhook[w] EXCEPT !.pc = "audit", !.outcome = "payment_expired"]
    BY <1>3, <1>6 DEF LazyExpire, TypeOK
  <2>2. webhook[w].payment = p
    BY <1>2, <2>1
  <2>3. /\ webhook'[w].pc = "audit" /\ webhook'[w].payment = p
        /\ webhook'[w].outcome = "payment_expired"
    BY <2>1, <2>2 DEF TypeOK, WebhookState
  <2> QED BY <1>1, <2>3
<1>7. ASSUME NEW w \in Webhooks, Commit(w)
      PROVE  AboutToAudit(p)'
  <2>1. /\ payment' = [payment EXCEPT ![webhook[w].payment] = [@ EXCEPT !.status = webhook[w].event]]
        /\ webhook'[w] = [webhook[w] EXCEPT !.pc = "audit", !.seen = None, !.outcome = "processed"]
    BY <1>7 DEF Commit, TypeOK
  <2>2. webhook[w].payment = p
    BY <1>2, <2>1
  <2>3. webhook'[w].pc = "audit" /\ webhook'[w].payment = p /\ webhook'[w].outcome = "processed"
    BY <2>1, <2>2 DEF TypeOK, WebhookState
  <2> QED BY <1>1, <2>3
<1>8. ASSUME NEW x \in Expirers, NEW q \in Payments, ExpirePayment(x, q)
      PROVE  AboutToAudit(p)'
  <2>1. /\ payment' = [payment EXCEPT ![q] = [@ EXCEPT !.status = "EXPIRED"]]
        /\ expirer'[x] = [expirer[x] EXCEPT !.row = q]
    BY <1>3, <1>8 DEF ExpirePayment, TypeOK
  <2>2. q = p /\ expirer'[x].row = q
    BY <1>2, <2>1 DEF TypeOK, ExpirerState
  <2> QED BY <2>2 DEF AboutToAudit
<1>9. (\E x \in Expirers : StartExpiry(x) \/ ExpiryAudit(x) \/ ExpiryAuditFails(x)) =>
        UNCHANGED payment
  BY DEF StartExpiry, ExpiryAudit, ExpiryAuditFails, tables
<1>10. (\E w \in Webhooks : Claim(w) \/ AuditWebhook(w) \/ Ignore(w) \/ WebhookFails(w)) =>
         UNCHANGED payment
  BY DEF Claim, AuditWebhook, Ignore, WebhookFails, tables
<1>11. (\E w \in Webhooks, q \in Payments, event \in EventStatus, matches \in BOOLEAN :
          Receive(w, q, event, matches)) => UNCHANGED payment
  BY DEF Receive, tables
<1>12. (\E c \in Sweeps : SweepStep(c) \/ SweepRowFails(c)) => UNCHANGED payment
  BY DEF SweepStep, StartSweep, NextPhase, TransitionRow, SweepEvent, SweepAudit, SweepRowFails,
         tables
<1>13. /\ (\E a \in Admins, e \in Enterprises, plan \in Plans : ReadForPlanChange(a, e, plan)) =>
            UNCHANGED payment
       /\ (\E a \in Admins : AdminStep(a)) => UNCHANGED payment
  BY DEF ReadForPlanChange, AdminStep, ChangeSubscriptionPlan, PlanChangeAudit, tables
<1>14. Tick \/ ApiRestarts \/ UNCHANGED vars => UNCHANGED payment
  BY DEF Tick, ApiRestarts, vars, tables
<1> QED BY <1>3, <1>4, <1>5, <1>6, <1>7, <1>8, <1>9, <1>10, <1>11, <1>12, <1>13, <1>14
        DEF Next, WebhookStep, ExpirerStep

Audited(p) == \E row \in auditLog : /\ row.resource = p
                                    /\ row.action \in {"processed", "payment_expired", "EXPIRE_PAYMENT"}

\* Whoever is to audit a payment does, unless something fails.
LEMMA AuditsFollow ==
  ASSUME TypeOK, HandlersConsistent, [Next]_vars, faults' # faults + 1,
         NEW p \in Payments, AboutToAudit(p)
  PROVE  AboutToAudit(p)' \/ Audited(p)'
<1>1. ASSUME NEW w \in Webhooks, webhook[w].pc = "audit", webhook[w].payment = p,
             webhook[w].outcome # "status_conflict"
      PROVE  AboutToAudit(p)' \/ Audited(p)'
  <2>1. CASE webhook'[w] = webhook[w]
    BY <1>1, <2>1 DEF AboutToAudit
  <2>2. ASSUME AuditWebhook(w)
        PROVE  Audited(p)'
    <3>1. webhook[w].outcome \in {"processed", "payment_expired"}
      BY <1>1 DEF HandlersConsistent, WebhookHolds, Outcomes
    <3>2. [resource |-> p, action |-> webhook[w].outcome] \in auditLog'
      BY <1>1, <2>2 DEF AuditWebhook
    <3> QED BY <3>1, <3>2 DEF Audited
  <2>3. webhook'[w] = webhook[w] \/ AuditWebhook(w)
    <3>1. ASSUME NEW v \in Webhooks, NEW q \in Payments, NEW event \in EventStatus,
                 NEW matches \in BOOLEAN, Receive(v, q, event, matches)
          PROVE  webhook'[w] = webhook[w]
      BY <1>1, <3>1 DEF Receive, TypeOK
    <3>2. ASSUME NEW v \in Webhooks, WebhookStep(v)
          PROVE  webhook'[w] = webhook[w] \/ AuditWebhook(w)
      BY <1>1, <3>2 DEF WebhookStep, LazyExpire, RecordConflict, Claim, Commit, AuditWebhook, Ignore,
                        TypeOK
    <3>3. (\E e \in Enterprises, q \in Payments : CreatePendingPayment(e, q)) => UNCHANGED webhook
      BY DEF CreatePendingPayment, handlers
    <3>4. (\E c \in Sweeps : SweepStep(c)) => UNCHANGED webhook
      BY DEF SweepStep, StartSweep, NextPhase, TransitionRow, SweepEvent, SweepAudit
    <3>5. (\E x \in Expirers : ExpirerStep(x)) => UNCHANGED webhook
      BY DEF ExpirerStep, StartExpiry, ExpirePayment, ExpiryAudit
    <3>6. /\ (\E a \in Admins, e \in Enterprises, plan \in Plans : ReadForPlanChange(a, e, plan)) =>
               UNCHANGED webhook
          /\ (\E a \in Admins : AdminStep(a)) => UNCHANGED webhook
      BY DEF ReadForPlanChange, AdminStep, ChangeSubscriptionPlan, PlanChangeAudit
    <3>7. Tick \/ UNCHANGED vars => UNCHANGED webhook
      BY DEF Tick, vars, handlers
    <3> QED BY <3>1, <3>2, <3>3, <3>4, <3>5, <3>6, <3>7
            DEF Next, WebhookFails, SweepRowFails, ExpiryAuditFails, ApiRestarts
  <2> QED BY <2>1, <2>2, <2>3
<1>2. ASSUME NEW x \in Expirers, expirer[x].row = p
      PROVE  AboutToAudit(p)' \/ Audited(p)'
  <2>1. expirer[x].row # None /\ expirer[x] # IdleExpirer
    BY <1>2, BillingAssumption DEF IdleExpirer
  <2>2. CASE expirer'[x] = expirer[x]
    BY <1>2, <2>2 DEF AboutToAudit
  <2>3. ASSUME ExpiryAudit(x)
        PROVE  Audited(p)'
    <3>1. [resource |-> p, action |-> "EXPIRE_PAYMENT"] \in auditLog'
      BY <1>2, <2>3 DEF ExpiryAudit
    <3> QED BY <3>1 DEF Audited
  <2>4. expirer'[x] = expirer[x] \/ ExpiryAudit(x)
    <3>1. ASSUME NEW y \in Expirers, ExpirerStep(y)
          PROVE  expirer'[x] = expirer[x] \/ ExpiryAudit(x)
      BY <2>1, <3>1 DEF ExpirerStep, StartExpiry, ExpirePayment, ExpiryAudit, TypeOK
    <3>2. (\E w \in Webhooks, q \in Payments, event \in EventStatus, matches \in BOOLEAN :
             Receive(w, q, event, matches)) => UNCHANGED expirer
      BY DEF Receive
    <3>3. (\E w \in Webhooks : WebhookStep(w)) => UNCHANGED expirer
      BY DEF WebhookStep, LazyExpire, RecordConflict, Claim, Commit, AuditWebhook, Ignore
    <3>4. (\E e \in Enterprises, q \in Payments : CreatePendingPayment(e, q)) => UNCHANGED expirer
      BY DEF CreatePendingPayment, handlers
    <3>5. (\E c \in Sweeps : SweepStep(c)) => UNCHANGED expirer
      BY DEF SweepStep, StartSweep, NextPhase, TransitionRow, SweepEvent, SweepAudit
    <3>6. /\ (\E a \in Admins, e \in Enterprises, plan \in Plans : ReadForPlanChange(a, e, plan)) =>
               UNCHANGED expirer
          /\ (\E a \in Admins : AdminStep(a)) => UNCHANGED expirer
      BY DEF ReadForPlanChange, AdminStep, ChangeSubscriptionPlan, PlanChangeAudit
    <3>7. Tick \/ UNCHANGED vars => UNCHANGED expirer
      BY DEF Tick, vars, handlers
    <3> QED BY <3>1, <3>2, <3>3, <3>4, <3>5, <3>6, <3>7
            DEF Next, WebhookFails, SweepRowFails, ExpiryAuditFails, ApiRestarts
  <2> QED BY <2>2, <2>3, <2>4
<1> QED BY <1>1, <1>2 DEF AboutToAudit

\* Rows of the audit log are never removed.
LEMMA AuditLogGrows ==
  ASSUME [Next]_vars
  PROVE  auditLog \subseteq auditLog'
<1>1. (\E e \in Enterprises, p \in Payments : CreatePendingPayment(e, p)) => UNCHANGED auditLog
  BY DEF CreatePendingPayment
<1>2. (\E w \in Webhooks, p \in Payments, event \in EventStatus, matches \in BOOLEAN :
         Receive(w, p, event, matches)) => UNCHANGED auditLog
  BY DEF Receive, tables
<1>3. (\E w \in Webhooks : WebhookStep(w) \/ WebhookFails(w)) => auditLog \subseteq auditLog'
  BY DEF WebhookStep, LazyExpire, RecordConflict, Claim, Commit, AuditWebhook, Ignore, WebhookFails,
         tables
<1>4. (\E c \in Sweeps : SweepStep(c) \/ SweepRowFails(c)) => auditLog \subseteq auditLog'
  BY DEF SweepStep, StartSweep, NextPhase, TransitionRow, SweepEvent, SweepAudit, SweepRowFails,
         tables
<1>5. (\E x \in Expirers : ExpirerStep(x) \/ ExpiryAuditFails(x)) => auditLog \subseteq auditLog'
  BY DEF ExpirerStep, StartExpiry, ExpirePayment, ExpiryAudit, ExpiryAuditFails, tables
<1>6. /\ (\E a \in Admins, e \in Enterprises, plan \in Plans : ReadForPlanChange(a, e, plan)) =>
           UNCHANGED auditLog
      /\ (\E a \in Admins : AdminStep(a)) => auditLog \subseteq auditLog'
  BY DEF ReadForPlanChange, AdminStep, ChangeSubscriptionPlan, PlanChangeAudit, tables
<1>7. Tick \/ ApiRestarts \/ UNCHANGED vars => UNCHANGED auditLog
  BY DEF Tick, ApiRestarts, vars, tables
<1> QED BY <1>1, <1>2, <1>3, <1>4, <1>5, <1>6, <1>7 DEF Next

\* As long as nothing fails, a settled payment is in the audit log, or the request or the
\* run that settled it is about to write it there.
THEOREM SettlementsAreAudited == Spec => []SettlementIsAudited
<1>1. Init => SettlementIsAudited
  BY DEF Init, SettlementIsAudited, Settled
<1>2. ASSUME TypeOK, HandlersConsistent, SettlementIsAudited, [Next]_vars, faults' = 0,
             NEW p \in Payments, payment'[p].status \in Settled
      PROVE  AboutToAudit(p)' \/ Audited(p)'
  <2>1. faults = 0 /\ faults' # faults + 1
    BY <1>2, FaultsStay
  <2>2. CASE payment[p].status \notin Settled
    BY <1>2, <2>2, SettledByWhoAudits
  <2>3. CASE payment[p].status \in Settled
    <3>1. AboutToAudit(p) \/ Audited(p)
      BY <1>2, <2>1, <2>3 DEF SettlementIsAudited, Audited
    <3>2. Audited(p) => Audited(p)'
      BY <1>2, AuditLogGrows DEF Audited
    <3> QED BY <1>2, <2>1, <3>1, <3>2, AuditsFollow
  <2> QED BY <2>2, <2>3
<1>3. TypeOK /\ HandlersConsistent /\ SettlementIsAudited /\ [Next]_vars => SettlementIsAudited'
  BY <1>2 DEF SettlementIsAudited, Audited
<1>4. Spec => [](TypeOK /\ HandlersConsistent)
  BY TypeCorrect, Consistent, PTL
<1> QED BY <1>1, <1>3, <1>4, PTL DEF Spec
=============================================================================
