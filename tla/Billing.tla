------------------------------ MODULE Billing ------------------------------
(***************************************************************************)
(* Payments and subscriptions of the platform (apps/api/src/payments,      *)
(* apps/api/src/subscriptions): provider webhooks, the two hourly jobs and *)
(* the super-admin's plan change all read rows, decide, and write them     *)
(* back, concurrently and at PostgreSQL's READ COMMITTED isolation.        *)
(*                                                                         *)
(* A step of this module is one statement (or one transaction whose inner  *)
(* order cannot be observed); everything a handler keeps between two of    *)
(* its statements is in its own record.  An enterprise has exactly one     *)
(* subscription, the one provisioning creates.                             *)
(***************************************************************************)
EXTENDS Integers, Sequences, FiniteSets

CONSTANTS
  Enterprises,   \* tenants
  Payments,      \* payments that may be bootstrapped, one provider reference each
  Plans,         \* subscription plans
  Webhooks,      \* webhook requests the API can be serving at once
  Sweeps,        \* overlapping runs of SubscriptionLifecycleService
  Expirers,      \* overlapping runs of PaymentLifecycleService
  Admins,        \* super-admins changing a plan
  TrialLength,   \* plan.trialDays
  GracePeriod,   \* env.paymentGracePeriodDays()
  PendingTtl,    \* env.paymentPendingExpiryHours()
  None,          \* SQL NULL, and the absence of a value in a handler
  MaxTime,       \* bound on the clock
  MaxFaults,     \* bound on restarts and failed statements
  MaxEvents      \* bound on the length of a history, for plan changes only

ASSUME BillingAssumption ==
  /\ TrialLength \in Nat /\ GracePeriod \in Nat /\ PendingTtl \in Nat
  /\ MaxTime \in Nat /\ MaxFaults \in Nat /\ MaxEvents \in Nat
  /\ None \notin Enterprises /\ None \notin Payments /\ None \notin Plans
  /\ None \notin {"ACTIVE", "PAST_DUE"} /\ None \notin Nat
  /\ IsFiniteSet(Payments)

VARIABLES
  subscription,  \* table subscriptions, by enterprise
  history,       \* table subscription_events, by enterprise, oldest first
  payment,       \* table payments
  invoices,      \* table invoices
  counter,       \* table invoice_counters, by enterprise
  auditLog,      \* rows of audit_logs about payments and subscriptions
  webhook,       \* webhook requests in flight
  sweep,         \* runs of the subscription job
  expirer,       \* runs of the payment job
  admin,         \* plan changes in flight
  now,           \* the clock
  faults         \* restarts and failed statements so far

tables == <<subscription, history, payment, invoices, counter, auditLog>>
handlers == <<webhook, sweep, expirer, admin>>
vars == <<subscription, history, payment, invoices, counter, auditLog,
          webhook, sweep, expirer, admin, now, faults>>

-----------------------------------------------------------------------------
(* subscription-state-machine.ts.                                          *)

SubscriptionStatus ==
  {"TRIAL", "ACTIVE", "PAST_DUE", "SUSPENDED", "CANCELLED", "EXPIRED"}

AllowedTransitions ==
  [TRIAL     |-> {"ACTIVE", "EXPIRED", "CANCELLED"},
   ACTIVE    |-> {"PAST_DUE", "SUSPENDED", "CANCELLED"},
   PAST_DUE  |-> {"ACTIVE", "SUSPENDED", "CANCELLED"},
   SUSPENDED |-> {"ACTIVE", "CANCELLED"},
   CANCELLED |-> {},
   EXPIRED   |-> {}]

CanTransition(from, to) == to \in AllowedTransitions[from]

TerminalSubscriptionStatuses == {"CANCELLED", "EXPIRED"}

-----------------------------------------------------------------------------
(* Rows and handler records.                                               *)

PaymentStatus == {"NONE", "PENDING", "SUCCEEDED", "FAILED", "EXPIRED"}
EventStatus == {"SUCCEEDED", "FAILED"}
Settled == {"SUCCEEDED", "FAILED", "EXPIRED"}

\* What a webhook request leaves in the audit log.  A request rejected without any
\* effect (wrong amount, invalid transition) only leaves a rejection there, which
\* nothing below depends on.
Outcomes == {"processed", "status_conflict", "payment_expired"}

Subscription == [status: SubscriptionStatus, planId: Plans, trialEndDate: Nat,
                 renewalDate: Nat \cup {None}]

SubscriptionEvent == [fromStatus: SubscriptionStatus, toStatus: SubscriptionStatus,
                      fromPlanId: Plans \cup {None}, toPlanId: Plans \cup {None}]

Payment == [status: PaymentStatus, enterprise: Enterprises \cup {None},
            expiresAt: Nat, conflictingEvent: EventStatus \cup {None}]

Invoice == [payment: Payments, enterprise: Enterprises, number: Nat]

AuditRow == [resource: Payments \cup Enterprises,
             action: Outcomes \cup {"EXPIRE_PAYMENT", "EXPIRE_TRIAL",
                                    "SUSPEND_SUBSCRIPTION", "CHANGE_PLAN"}]

\* Where a webhook request stands: next statement to execute, and what it holds.
WebhookState == [pc: {"idle", "expire", "conflict", "claim", "commit", "audit", "ignored"},
                 payment: Payments \cup {None}, event: EventStatus \cup {None},
                 readAt: Nat, seen: Subscription \cup {None},
                 outcome: Outcomes \cup {None}]

SweepState == [phase: {"idle", "trials", "overdue"}, batch: SUBSET Enterprises,
               step: {"row", "event", "audit"}, row: Enterprises \cup {None}]

ExpirerState == [batch: SUBSET Payments, row: Payments \cup {None}]

AdminState == [pc: {"idle", "apply", "audit"}, enterprise: Enterprises \cup {None},
               planId: Plans \cup {None}, seen: Subscription \cup {None}]

IdleWebhook == [pc |-> "idle", payment |-> None, event |-> None,
                readAt |-> 0, seen |-> None, outcome |-> None]
IdleSweep == [phase |-> "idle", batch |-> {}, step |-> "row", row |-> None]
IdleExpirer == [batch |-> {}, row |-> None]
IdleAdmin == [pc |-> "idle", enterprise |-> None, planId |-> None, seen |-> None]

\* One invariant says that every variable stays within its table's column types
\* and every handler within the shapes of its local state.
TypeOK ==
  /\ subscription \in [Enterprises -> Subscription]
  /\ history \in [Enterprises -> Seq(SubscriptionEvent)]
  /\ payment \in [Payments -> Payment]
  /\ invoices \subseteq Invoice
  /\ counter \in [Enterprises -> Nat]
  /\ auditLog \subseteq AuditRow
  /\ webhook \in [Webhooks -> WebhookState]
  /\ sweep \in [Sweeps -> SweepState]
  /\ expirer \in [Expirers -> ExpirerState]
  /\ admin \in [Admins -> AdminState]
  /\ now \in Nat
  /\ faults \in Nat

Init ==
  /\ \E plan \in [Enterprises -> Plans] :
       subscription = [e \in Enterprises |->
         [status |-> "TRIAL", planId |-> plan[e],
          trialEndDate |-> TrialLength, renewalDate |-> None]]
  /\ history = [e \in Enterprises |-> <<>>]
  /\ payment = [p \in Payments |-> [status |-> "NONE", enterprise |-> None,
                                    expiresAt |-> 0, conflictingEvent |-> None]]
  /\ invoices = {}
  /\ counter = [e \in Enterprises |-> 0]
  /\ auditLog = {}
  /\ webhook = [w \in Webhooks |-> IdleWebhook]
  /\ sweep = [c \in Sweeps |-> IdleSweep]
  /\ expirer = [x \in Expirers |-> IdleExpirer]
  /\ admin = [a \in Admins |-> IdleAdmin]
  /\ now = 0
  /\ faults = 0

-----------------------------------------------------------------------------
(* PaymentsBootstrapService: a PENDING payment for the current             *)
(* subscription, whatever its status and whatever payments already exist.  *)

CreatePendingPayment(e, p) ==
  /\ payment[p].status = "NONE"
  /\ now + PendingTtl < MaxTime
  /\ payment' = [payment EXCEPT ![p] =
       [status |-> "PENDING", enterprise |-> e,
        expiresAt |-> now + PendingTtl, conflictingEvent |-> None]]
  /\ UNCHANGED <<subscription, history, invoices, counter, auditLog, handlers,
                 now, faults>>

-----------------------------------------------------------------------------
(* PaymentsWebhookService.handle.  An open transaction that updated a      *)
(* payment keeps its row locked: other writers of that row wait.           *)

Locked(p) == \E w \in Webhooks : webhook[w].pc = "commit" /\ webhook[w].payment = p

\* Faulty variant: the expiry date is never looked at (before BIL-19).
NeverOverdue(p) == FALSE

Overdue(p) == payment[p].status = "PENDING" /\ payment[p].expiresAt < now

\* What the handler does next with the payment it has just read.
Classify(p, event) ==
  CASE payment[p].status = event               -> "ignored"
    [] payment[p].status \in Settled \ {event} -> "conflict"
    [] OTHER                                   -> "claim"

\* Signature and shape accepted, the payment is read by provider reference.  An
\* event whose amount does not match a payment that is still due changes nothing.
Receive(w, p, event, matches) ==
  /\ webhook[w].pc = "idle"
  /\ payment[p].status # "NONE"
  /\ payment[p].status = "PENDING" /\ ~Overdue(p) => matches
  /\ webhook' = [webhook EXCEPT ![w] =
       [IdleWebhook EXCEPT
          !.pc = IF Overdue(p) THEN "expire" ELSE Classify(p, event),
          !.payment = p, !.event = event, !.readAt = now]]
  /\ UNCHANGED <<tables, sweep, expirer, admin, now, faults>>

\* Lazy expiry: a compare-and-swap, then a fresh read if somebody was faster
\* (the payment is settled by then, so that its amount no longer matters).
LazyExpire(w) ==
  LET p == webhook[w].payment
      event == webhook[w].event
  IN /\ webhook[w].pc = "expire"
     /\ ~Locked(p)
     /\ \/ /\ payment[p].status = "PENDING"
           /\ payment' = [payment EXCEPT ![p].status = "EXPIRED"]
           /\ webhook' = [webhook EXCEPT ![w] =
             [@ EXCEPT !.pc = "audit", !.outcome = "payment_expired"]]
        \/ /\ payment[p].status # "PENDING"
           /\ webhook' = [webhook EXCEPT ![w].pc = Classify(p, event)]
           /\ UNCHANGED payment
     /\ UNCHANGED <<subscription, history, invoices, counter, auditLog,
                    sweep, expirer, admin, now, faults>>

\* Faulty variant: the conflicting event is applied to the settled payment.
ApplyConflict(w) ==
  /\ webhook[w].pc = "conflict"
  /\ payment' = [payment EXCEPT ![webhook[w].payment].status = webhook[w].event]
  /\ webhook' = [webhook EXCEPT ![w] =
             [@ EXCEPT !.pc = "audit", !.outcome = "status_conflict"]]
  /\ UNCHANGED <<subscription, history, invoices, counter, auditLog,
                 sweep, expirer, admin, now, faults>>

\* A different event for a settled payment: kept in its metadata, no transition.
RecordConflict(w) ==
  LET p == webhook[w].payment
  IN /\ webhook[w].pc = "conflict"
     /\ payment' = [payment EXCEPT ![p].conflictingEvent = webhook[w].event]
     /\ webhook' = [webhook EXCEPT ![w] =
             [@ EXCEPT !.pc = "audit", !.outcome = "status_conflict"]]
     /\ UNCHANGED <<subscription, history, invoices, counter, auditLog,
                    sweep, expirer, admin, now, faults>>

\* Faulty variant: a trial's failed payment activates the subscription.
TargetStatusActivatesTrial(event, status) ==
  IF event = "FAILED" /\ status # "TRIAL" THEN "PAST_DUE" ELSE "ACTIVE"

\* Status the event asks for, None when a trial's payment fails.
TargetStatus(event, status) ==
  CASE event = "SUCCEEDED"                      -> "ACTIVE"
    [] event = "FAILED" /\ status = "TRIAL"     -> None
    [] OTHER                                    -> "PAST_DUE"

Rejected(event, status) ==
  LET target == TargetStatus(event, status)
  IN target # None /\ status # target /\ ~CanTransition(status, target)

\* Faulty variant: the payment is not claimed by a compare-and-swap (BIL-01).
ClaimWithoutSwap(w) ==
  LET current == subscription[payment[webhook[w].payment].enterprise]
  IN /\ webhook[w].pc = "claim"
     /\ ~Rejected(webhook[w].event, current.status)
     /\ webhook' = [webhook EXCEPT ![w] = [@ EXCEPT !.pc = "commit", !.seen = current]]
     /\ UNCHANGED <<tables, sweep, expirer, admin, now, faults>>

\* First half of the transaction: the compare-and-swap that claims the payment
\* and the reads it makes; an invalid transition rolls everything back.
Claim(w) ==
  LET p == webhook[w].payment
      current == subscription[payment[p].enterprise]
  IN /\ webhook[w].pc = "claim"
     /\ ~Locked(p)
     /\ webhook' = [webhook EXCEPT ![w] =
          CASE payment[p].status # "PENDING" ->
                 [@ EXCEPT !.pc = "ignored"]
            [] payment[p].status = "PENDING" /\ Rejected(@.event, current.status) ->
                 IdleWebhook
            [] OTHER ->
                 [@ EXCEPT !.pc = "commit", !.seen = current]]
     /\ UNCHANGED <<tables, sweep, expirer, admin, now, faults>>

\* Faulty variant: one counter read, without its increment, gives the number.
GenerateFromStaleCounter(p, e) ==
  /\ counter' = [counter EXCEPT ![e] = @ + 1]
  /\ invoices' = invoices \cup
       {[payment |-> p, enterprise |-> e, number |-> counter[e]]}

\* InvoiceGenerationService.generateForPayment: next number of the enterprise.
GenerateForPayment(p, e) ==
  /\ counter' = [counter EXCEPT ![e] = @ + 1]
  /\ invoices' = invoices \cup
       {[payment |-> p, enterprise |-> e, number |-> counter[e] + 1]}

\* Row the transaction writes over whatever the subscription is by now: only
\* status and renewalDate are set, both computed from what Claim read.
UpdatedSubscription(e, seen, target) ==
  LET row == subscription[e]
  IN CASE target = "PAST_DUE" /\ seen.status # target ->
            [row EXCEPT !.status = target, !.renewalDate = now + GracePeriod]
       [] target = "PAST_DUE" /\ seen.status = target ->
            [row EXCEPT !.renewalDate = now + GracePeriod]
       [] target = "ACTIVE" /\ seen.status # target ->
            [row EXCEPT !.status = target, !.renewalDate = seen.renewalDate]
       [] OTHER -> row

\* Second half: every write of the transaction becomes visible.
Commit(w) ==
  LET p == webhook[w].payment
      event == webhook[w].event
      seen == webhook[w].seen
      e == payment[p].enterprise
      target == TargetStatus(event, seen.status)
  IN /\ webhook[w].pc = "commit"
     /\ payment' = [payment EXCEPT ![p].status = event]
     /\ subscription' = [subscription EXCEPT ![e] = UpdatedSubscription(e, seen, target)]
     /\ IF target # None /\ seen.status # target
        THEN history' = [history EXCEPT ![e] = Append(@,
               [fromStatus |-> seen.status, toStatus |-> target,
                fromPlanId |-> seen.planId, toPlanId |-> seen.planId])]
        ELSE UNCHANGED history
     /\ IF event = "SUCCEEDED"
        THEN GenerateForPayment(p, e)
        ELSE UNCHANGED <<invoices, counter>>
     /\ webhook' = [webhook EXCEPT ![w] =
          [@ EXCEPT !.pc = "audit", !.seen = None, !.outcome = "processed"]]
     /\ UNCHANGED <<auditLog, sweep, expirer, admin, now, faults>>

AuditWebhook(w) ==
  /\ webhook[w].pc = "audit"
  /\ auditLog' = auditLog \cup
       {[resource |-> webhook[w].payment, action |-> webhook[w].outcome]}
  /\ webhook' = [webhook EXCEPT ![w] = IdleWebhook]
  /\ UNCHANGED <<subscription, history, payment, invoices, counter,
                 sweep, expirer, admin, now, faults>>

\* HTTP 200 with outcome ignored_already_processed, and no trace.
Ignore(w) ==
  /\ webhook[w].pc = "ignored"
  /\ webhook' = [webhook EXCEPT ![w] = IdleWebhook]
  /\ UNCHANGED <<tables, sweep, expirer, admin, now, faults>>

-----------------------------------------------------------------------------
(* SubscriptionLifecycleService.run: trials, then overdue grace periods;   *)
(* each batch is read once and its rows are then handled one by one.       *)

\* Faulty variants: a trial expires on its last day; a trial never expires.
FindTrialsOnLastDay ==
  {e \in Enterprises : subscription[e].status = "TRIAL"
                       /\ subscription[e].trialEndDate <= now}

FindTrialsToCome ==
  {e \in Enterprises : subscription[e].status = "TRIAL"
                       /\ subscription[e].trialEndDate > now}

FindExpirableTrials ==
  {e \in Enterprises : subscription[e].status = "TRIAL"
                       /\ subscription[e].trialEndDate < now}

\* Faulty variant: the batch holds the grace periods that are still running.
FindRunningGracePeriods ==
  {e \in Enterprises : subscription[e].status = "PAST_DUE"
                       /\ subscription[e].renewalDate # None
                       /\ subscription[e].renewalDate > now}

FindOverdueGracePeriods ==
  {e \in Enterprises : subscription[e].status = "PAST_DUE"
                       /\ subscription[e].renewalDate # None
                       /\ subscription[e].renewalDate < now}

SweepFrom(c) == IF sweep[c].phase = "trials" THEN "TRIAL" ELSE "PAST_DUE"
SweepTo(c) == IF sweep[c].phase = "trials" THEN "EXPIRED" ELSE "SUSPENDED"

\* A row is done, or was skipped: the loop goes on.
RowDone(c) ==
  [sweep[c] EXCEPT !.batch = @ \ {sweep[c].row}, !.step = "row", !.row = None]

StartSweep(c) ==
  /\ sweep[c].phase = "idle"
  /\ sweep' = [sweep EXCEPT ![c] =
       [@ EXCEPT !.phase = "trials", !.batch = FindExpirableTrials]]
  /\ UNCHANGED <<tables, webhook, expirer, admin, now, faults>>

NextPhase(c) ==
  /\ sweep[c].step = "row" /\ sweep[c].batch = {}
  /\ \/ /\ sweep[c].phase = "trials"
        /\ sweep' = [sweep EXCEPT ![c] =
             [@ EXCEPT !.phase = "overdue", !.batch = FindOverdueGracePeriods]]
     \/ /\ sweep[c].phase = "overdue"
        /\ sweep' = [sweep EXCEPT ![c] = IdleSweep]
  /\ UNCHANGED <<tables, webhook, expirer, admin, now, faults>>

\* Faulty variant: the transition is audited, its event is forgotten.
TransitionRowWithoutEvent(c, e) ==
  /\ sweep[c].phase # "idle" /\ sweep[c].step = "row" /\ e \in sweep[c].batch
  /\ subscription[e].status = SweepFrom(c)
  /\ subscription' = [subscription EXCEPT ![e].status = SweepTo(c)]
  /\ sweep' = [sweep EXCEPT ![c] = [@ EXCEPT !.step = "audit", !.row = e]]
  /\ UNCHANGED <<history, payment, invoices, counter, auditLog,
                 webhook, expirer, admin, now, faults>>

\* updateSubscriptionStatus: compare-and-swap on the status the batch read.
TransitionRow(c, e) ==
  /\ sweep[c].phase # "idle" /\ sweep[c].step = "row" /\ e \in sweep[c].batch
  /\ \/ /\ subscription[e].status = SweepFrom(c)
        /\ subscription' = [subscription EXCEPT ![e].status = SweepTo(c)]
        /\ sweep' = [sweep EXCEPT ![c] = [@ EXCEPT !.step = "event", !.row = e]]
     \/ /\ subscription[e].status # SweepFrom(c)
        /\ sweep' = [sweep EXCEPT ![c].batch = @ \ {e}]
        /\ UNCHANGED subscription
  /\ UNCHANGED <<history, payment, invoices, counter, auditLog,
                 webhook, expirer, admin, now, faults>>

\* createSubscriptionEvent: a statement of its own, after the swap committed.
SweepEvent(c) ==
  LET e == sweep[c].row
  IN /\ sweep[c].step = "event"
     /\ history' = [history EXCEPT ![e] = Append(@,
          [fromStatus |-> SweepFrom(c), toStatus |-> SweepTo(c),
           fromPlanId |-> None, toPlanId |-> None])]
     /\ sweep' = [sweep EXCEPT ![c].step = "audit"]
     /\ UNCHANGED <<subscription, payment, invoices, counter, auditLog,
                    webhook, expirer, admin, now, faults>>

SweepAudit(c) ==
  /\ sweep[c].step = "audit"
  /\ auditLog' = auditLog \cup {[resource |-> sweep[c].row,
       action |-> IF sweep[c].phase = "trials" THEN "EXPIRE_TRIAL"
                                               ELSE "SUSPEND_SUBSCRIPTION"]}
  /\ sweep' = [sweep EXCEPT ![c] = RowDone(c)]
  /\ UNCHANGED <<subscription, history, payment, invoices, counter,
                 webhook, expirer, admin, now, faults>>

\* The event or the audit row cannot be written: the error is logged, and the
\* loop goes on with the transition committed.
SweepRowFails(c) ==
  /\ sweep[c].step \in {"event", "audit"}
  /\ faults < MaxFaults
  /\ faults' = faults + 1
  /\ sweep' = [sweep EXCEPT ![c] = RowDone(c)]
  /\ UNCHANGED <<tables, webhook, expirer, admin, now>>

-----------------------------------------------------------------------------
(* PaymentLifecycleService.run.                                            *)

StartExpiry(x) ==
  LET due == {p \in Payments : Overdue(p)}
  IN /\ expirer[x] = IdleExpirer
     /\ due # {}
     /\ expirer' = [expirer EXCEPT ![x].batch = due]
     /\ UNCHANGED <<tables, webhook, sweep, admin, now, faults>>

ExpirePayment(x, p) ==
  /\ expirer[x].row = None /\ p \in expirer[x].batch
  /\ ~Locked(p)
  /\ \/ /\ payment[p].status = "PENDING"
        /\ payment' = [payment EXCEPT ![p].status = "EXPIRED"]
        /\ expirer' = [expirer EXCEPT ![x].row = p]
     \/ /\ payment[p].status # "PENDING"
        /\ expirer' = [expirer EXCEPT ![x].batch = @ \ {p}]
        /\ UNCHANGED payment
  /\ UNCHANGED <<subscription, history, invoices, counter, auditLog,
                 webhook, sweep, admin, now, faults>>

ExpiryDone(x) == [batch |-> expirer[x].batch \ {expirer[x].row}, row |-> None]

ExpiryAudit(x) ==
  /\ expirer[x].row # None
  /\ auditLog' = auditLog \cup {[resource |-> expirer[x].row,
                                 action |-> "EXPIRE_PAYMENT"]}
  /\ expirer' = [expirer EXCEPT ![x] = ExpiryDone(x)]
  /\ UNCHANGED <<subscription, history, payment, invoices, counter,
                 webhook, sweep, admin, now, faults>>

ExpiryAuditFails(x) ==
  /\ expirer[x].row # None
  /\ faults < MaxFaults
  /\ faults' = faults + 1
  /\ expirer' = [expirer EXCEPT ![x] = ExpiryDone(x)]
  /\ UNCHANGED <<tables, webhook, sweep, admin, now>>

-----------------------------------------------------------------------------
(* SubscriptionsService.changePlan: the checks use one read, the           *)
(* transaction writes the plan and an event made from that read.           *)

ReadForPlanChange(a, e, plan) ==
  /\ admin[a].pc = "idle"
  /\ Len(history[e]) < MaxEvents
  /\ subscription[e].status \notin TerminalSubscriptionStatuses
  /\ subscription[e].planId # plan
  /\ admin' = [admin EXCEPT ![a] =
       [pc |-> "apply", enterprise |-> e, planId |-> plan, seen |-> subscription[e]]]
  /\ UNCHANGED <<tables, webhook, sweep, expirer, now, faults>>

ChangeSubscriptionPlan(a) ==
  LET e == admin[a].enterprise
      seen == admin[a].seen
  IN /\ admin[a].pc = "apply"
     /\ subscription' = [subscription EXCEPT ![e].planId = admin[a].planId]
     /\ history' = [history EXCEPT ![e] = Append(@,
          [fromStatus |-> seen.status, toStatus |-> seen.status,
           fromPlanId |-> seen.planId, toPlanId |-> admin[a].planId])]
     /\ admin' = [admin EXCEPT ![a] = [@ EXCEPT !.pc = "audit", !.seen = None]]
     /\ UNCHANGED <<payment, invoices, counter, auditLog,
                    webhook, sweep, expirer, now, faults>>

PlanChangeAudit(a) ==
  /\ admin[a].pc = "audit"
  /\ auditLog' = auditLog \cup {[resource |-> admin[a].enterprise,
                                 action |-> "CHANGE_PLAN"]}
  /\ admin' = [admin EXCEPT ![a] = IdleAdmin]
  /\ UNCHANGED <<subscription, history, payment, invoices, counter,
                 webhook, sweep, expirer, now, faults>>

-----------------------------------------------------------------------------
(* The environment: time passes, a request dies with a 500 (its open       *)
(* transaction rolls back), the API process restarts.                      *)

Tick ==
  /\ now < MaxTime
  /\ now' = now + 1
  /\ UNCHANGED <<tables, handlers, faults>>

WebhookFails(w) ==
  /\ webhook[w].pc # "idle"
  /\ faults < MaxFaults
  /\ faults' = faults + 1
  /\ webhook' = [webhook EXCEPT ![w] = IdleWebhook]
  /\ UNCHANGED <<tables, sweep, expirer, admin, now>>

ApiRestarts ==
  /\ faults < MaxFaults
  /\ faults' = faults + 1
  /\ webhook' = [w \in Webhooks |-> IdleWebhook]
  /\ sweep' = [c \in Sweeps |-> IdleSweep]
  /\ expirer' = [x \in Expirers |-> IdleExpirer]
  /\ admin' = [a \in Admins |-> IdleAdmin]
  /\ UNCHANGED <<tables, now>>

-----------------------------------------------------------------------------

WebhookStep(w) ==
  \/ LazyExpire(w) \/ RecordConflict(w) \/ Claim(w) \/ Commit(w)
  \/ AuditWebhook(w) \/ Ignore(w)

SweepStep(c) ==
  \/ StartSweep(c) \/ NextPhase(c) \/ SweepEvent(c) \/ SweepAudit(c)
  \/ \E e \in Enterprises : TransitionRow(c, e)

ExpirerStep(x) ==
  \/ StartExpiry(x) \/ ExpiryAudit(x)
  \/ \E p \in Payments : ExpirePayment(x, p)

AdminStep(a) == ChangeSubscriptionPlan(a) \/ PlanChangeAudit(a)

Next ==
  \/ \E e \in Enterprises, p \in Payments : CreatePendingPayment(e, p)
  \/ \E w \in Webhooks, p \in Payments, event \in EventStatus, matches \in BOOLEAN :
       Receive(w, p, event, matches)
  \/ \E w \in Webhooks : WebhookStep(w) \/ WebhookFails(w)
  \/ \E c \in Sweeps : SweepStep(c) \/ SweepRowFails(c)
  \/ \E x \in Expirers : ExpirerStep(x) \/ ExpiryAuditFails(x)
  \/ \E a \in Admins, e \in Enterprises, plan \in Plans : ReadForPlanChange(a, e, plan)
  \/ \E a \in Admins : AdminStep(a)
  \/ Tick
  \/ ApiRestarts

Spec == Init /\ [][Next]_vars

\* A request that was accepted runs to its end, the hourly jobs keep running,
\* and time passes.  Nothing obliges a provider to call, an administrator to
\* act or a fault to happen.
Fairness ==
  /\ \A w \in Webhooks : WF_vars(WebhookStep(w))
  /\ \A c \in Sweeps : WF_vars(SweepStep(c))
  /\ \A x \in Expirers : WF_vars(ExpirerStep(x))
  /\ \A a \in Admins : WF_vars(AdminStep(a))
  /\ WF_vars(Tick)

FairSpec == Spec /\ Fairness

-----------------------------------------------------------------------------
(* Safety.                                                                 *)

InvoicesOf(e) == {i \in invoices : i.enterprise = e}
InvoicesFor(p) == {i \in invoices : i.payment = p}

\* However many times and however concurrently a provider delivers its events
\* (BIL-01, BIL-02), a payment has exactly one invoice, for its own enterprise,
\* when it succeeded, and none otherwise.
InvoicedExactlyOnce ==
  \A p \in Payments :
    IF payment[p].status = "SUCCEEDED"
    THEN \E i \in invoices : InvoicesFor(p) = {i} /\ i.enterprise = payment[p].enterprise
    ELSE InvoicesFor(p) = {}

\* Invoice numbers of an enterprise are 1, 2, ..., without a gap or a repetition,
\* whatever transactions roll back (invoice-generation.service.ts:20-22).
NumbersWithoutGap ==
  \A e \in Enterprises :
    /\ {i.number : i \in InvoicesOf(e)} = 1..counter[e]
    /\ \A i, j \in InvoicesOf(e) : i.number = j.number => i = j

\* A subscription leaves its trial for paid access only against an invoiced
\* payment: nothing but a recorded payment activates it.
PaidAccessIsInvoiced ==
  \A e \in Enterprises :
    subscription[e].status \in {"ACTIVE", "PAST_DUE", "SUSPENDED"} => InvoicesOf(e) # {}

\* Access is only restricted for a reason on record: an overdue or suspended
\* subscription has a failed payment, an expired one had its whole trial.
RestrictionHasACause ==
  \A e \in Enterprises :
    /\ subscription[e].status \in {"PAST_DUE", "SUSPENDED"} =>
         \E p \in Payments : payment[p].status = "FAILED" /\ payment[p].enterprise = e
    /\ subscription[e].status = "EXPIRED" => subscription[e].trialEndDate < now

\* Every event of the history is a transition the state machine allows, or a
\* plan change that leaves the status alone.
RecordedTransitionsAreAllowed ==
  \A e \in Enterprises : \A i \in DOMAIN history[e] :
    LET event == history[e][i]
    IN \/ CanTransition(event.fromStatus, event.toStatus)
       \/ /\ event.fromStatus = event.toStatus
          /\ event.fromStatus \notin TerminalSubscriptionStatuses
          /\ event.fromPlanId # event.toPlanId

\* Somebody has committed the settlement of p and has still to audit it.
AboutToAudit(p) ==
  \/ \E w \in Webhooks : webhook[w].pc = "audit" /\ webhook[w].payment = p
                         /\ webhook[w].outcome # "status_conflict"
  \/ \E x \in Expirers : expirer[x].row = p

\* As long as nothing fails, a settled payment is in the audit log, or the
\* handler that settled it is about to write it there.
SettlementIsAudited ==
  faults = 0 => \A p \in Payments :
    payment[p].status \in Settled =>
      \/ AboutToAudit(p)
      \/ \E row \in auditLog : row.resource = p
           /\ row.action \in {"processed", "payment_expired", "EXPIRE_PAYMENT"}

\* A status other than the initial one is the target of some recorded event, or
\* the job that has just written it is about to record it.
StatusIsRecorded(e) ==
  \/ subscription[e].status = "TRIAL"
  \/ \E i \in DOMAIN history[e] : history[e][i].toStatus = subscription[e].status
  \/ \E c \in Sweeps : sweep[c].step = "event" /\ sweep[c].row = e
                       /\ SweepTo(c) = subscription[e].status

\* As long as nothing fails, no status change is missing from the history.
RecordedUnlessFault == faults = 0 => \A e \in Enterprises : StatusIsRecorded(e)

\* What a handler may rely on at each of its statements: the payment it holds was
\* opened for an enterprise, and an open transaction holds the only claim on a
\* payment that is still PENDING.
OpenedForAnEnterprise ==
  \A p \in Payments : payment[p].status # "NONE" => payment[p].enterprise \in Enterprises

WebhookHolds(w) ==
  /\ webhook[w].pc # "idle" =>
       /\ webhook[w].payment \in Payments /\ webhook[w].event \in EventStatus
       /\ payment[webhook[w].payment].status # "NONE"
  /\ webhook[w].pc = "audit" => webhook[w].outcome \in Outcomes
  /\ webhook[w].pc = "commit" =>
       /\ webhook[w].seen \in Subscription
       /\ payment[webhook[w].payment].status = "PENDING"
       /\ \A v \in Webhooks :
            webhook[v].pc = "commit" /\ webhook[v].payment = webhook[w].payment => v = w

SweepHolds(c) ==
  sweep[c].step # "row" => sweep[c].row \in Enterprises /\ sweep[c].phase # "idle"

AdminHolds(a) ==
  /\ admin[a].pc # "idle" => admin[a].enterprise \in Enterprises
  /\ admin[a].pc = "apply" => admin[a].planId \in Plans /\ admin[a].seen \in Subscription

HandlersConsistent ==
  /\ OpenedForAnEnterprise
  /\ \A w \in Webhooks : WebhookHolds(w)
  /\ \A c \in Sweeps : SweepHolds(c)
  /\ \A a \in Admins : AdminHolds(a)

-----------------------------------------------------------------------------
(* What a step may never do.                                               *)

\* A settled payment never changes status again: not by a replay, not by the
\* conflicting event of BIL-07, not by the job that expires payments.
SettledIsFinal ==
  [][\A p \in Payments : payment[p].status \in Settled =>
       payment'[p].status = payment[p].status]_vars

\* BIL-19: a payment is only resolved by the event of a request that read it
\* before its deadline, however long it then takes.
ResolvedInTime ==
  [][\A p \in Payments :
       payment[p].status = "PENDING" /\ payment'[p].status \in EventStatus =>
         \E w \in Webhooks : /\ webhook[w].payment = p
                             /\ webhook[w].event = payment'[p].status
                             /\ webhook[w].readAt <= payment[p].expiresAt]_vars

-----------------------------------------------------------------------------
(* Refinement.                                                             *)

Settlement == INSTANCE PaymentSettlement WITH
  status <- [p \in Payments |-> payment[p].status],
  owner <- [p \in Payments |-> payment[p].enterprise],
  ledger <- invoices

\* Requests, jobs and restarts notwithstanding, every step is a step of the
\* abstract settlement or leaves payments and invoices alone.
ImplementsSettlement == Settlement!Spec

-----------------------------------------------------------------------------
(* Liveness, under FairSpec.                                               *)

\* No payment stays PENDING for ever: a webhook or the hourly job settles it.
PendingIsSettled ==
  \A p \in Payments : payment[p].status = "PENDING" ~> payment[p].status \in Settled

\* No trial lasts for ever.
TrialEnds == \A e \in Enterprises : subscription[e].status = "TRIAL" ~>
                                    subscription[e].status # "TRIAL"

\* An unpaid subscription is paid or suspended once its grace period is over
\* (unless that period ends after the bounded clock does).
GraceEnds ==
  \A e \in Enterprises :
    subscription[e].status = "PAST_DUE" ~>
      \/ subscription[e].status # "PAST_DUE"
      \/ subscription[e].renewalDate >= MaxTime

-----------------------------------------------------------------------------
(* What comments of the code promise and its interleavings do not keep.    *)

\* subscription-state-machine.ts:4-5: EXPIRED and CANCELLED are terminal.
TerminalIsFinal ==
  [][\A e \in Enterprises : subscription[e].status \in TerminalSubscriptionStatuses =>
       subscription'[e].status = subscription[e].status]_vars

\* payments-webhook.service.ts:310-313: whoever loses the compare-and-swap is a
\* duplicate of the event that won it.
OnlyDuplicatesAreIgnored ==
  \A w \in Webhooks :
    webhook[w].pc = "ignored" =>
      payment[webhook[w].payment].status = webhook[w].event

\* payments-webhook.service.ts:271-275: a further failure restarts the grace
\* period, so nobody is suspended before the date the row shows.
SuspendedAfterGrace ==
  [][\A e \in Enterprises :
       subscription[e].status = "PAST_DUE" /\ subscription'[e].status = "SUSPENDED" =>
         subscription[e].renewalDate < now]_vars

\* schema.prisma:985: the log holds every status transition.
EveryTransitionIsRecorded == \A e \in Enterprises : StatusIsRecorded(e)

\* BIL-13: the plan of a terminal subscription does not change.
TerminalPlanIsFrozen ==
  [][\A e \in Enterprises : subscription[e].status \in TerminalSubscriptionStatuses =>
       subscription'[e].planId = subscription[e].planId]_vars
=============================================================================
