---------------------------- MODULE Entitlements ----------------------------
(***************************************************************************)
(* What a subscription allows, as the guards of the API see it             *)
(* (apps/api/src/entitlements): each process keeps the entitlements of the *)
(* tenants it serves in a bounded cache, for a while, and the guards of    *)
(* POST /users/invite consult it before a user is inserted.  A step is     *)
(* what JavaScript does between two awaits.                                *)
(***************************************************************************)
EXTENDS Integers, SequencesExt

CONSTANTS
  Tenants, Processes,
  Requests,     \* invitations the API can be serving at once
  Offers,       \* entitlements the subscription of each tenant may come to give
  Ttl,          \* entitlementsCacheTtlMs
  MaxEntries,   \* entitlementsCacheMaxEntries
  MaxWait,      \* bound on the time between a read and the step that uses it
  MaxUsers,     \* bound on the users for which invitations are tried
  Unlimited,    \* PlanLimit.value NULL, or no row
  None

\* Entitlements: whether the status lets writes through, and the limit on users.
Value == [open: BOOLEAN, max: Nat \cup {Unlimited}]

ASSUME EntitlementsAssumption ==
  /\ Offers \in [Tenants -> SUBSET Value]
  /\ Ttl \in Nat /\ MaxEntries \in Nat /\ MaxWait \in Nat
  /\ IsFiniteSet(Requests) /\ Requests # {}
  /\ Unlimited \notin Nat /\ None \notin Tenants \cup Processes

VARIABLES
  subscription, \* entitlements of each tenant in the database
  age,          \* time since they last changed, as far as it matters (history)
  users,        \* rows of users of each tenant
  cache,        \* EntitlementsService.cache of each process: a Map, in its order
  changed,      \* invalidate calls to come, after the commit of a change
  request

vars == <<subscription, age, users, cache, changed, request>>

-----------------------------------------------------------------------------
(* State.                                                                  *)

\* Nothing is stale for longer.
Horizon == Ttl + MaxWait

Offered == UNION {Offers[t] : t \in Tenants}

\* left is the time before expiresAt; an entry that has expired stays in the map.
CacheEntry == [tenant: Tenants, value: Offered, left: 0..Ttl]

RequestState ==
  [pc: {"idle", "ask", "resolve", "store", "count", "insert"}, guard: {"access", "limit"},
   process: Processes \cup {None}, tenant: Tenants \cup {None},
   value: Offered \cup {None}, wait: 0..MaxWait]

IdleRequest ==
  [pc |-> "idle", guard |-> "access", process |-> None, tenant |-> None, value |-> None, wait |-> 0]

\* Where a request can be with what it holds: LimitGuard counts against a number only.
Prepared(req) ==
  \/ req.pc = "idle"
  \/ /\ req.process \in Processes /\ req.tenant \in Tenants
     /\ req.pc = "store" => req.value \in Offers[req.tenant]
     /\ req.pc \in {"count", "insert"} => req.guard = "limit" /\ req.value \in Offers[req.tenant]
     /\ req.pc = "count" => req.value.max # Unlimited

\* The rows, the caches and the requests keep their shapes, and no request counts users
\* against a limit that its plan has not.
TypeOK ==
  /\ subscription \in [Tenants -> Offered]
  /\ \A t \in Tenants : subscription[t] \in Offers[t]
  /\ age \in [Tenants -> 0..(Horizon + 1)]
  /\ users \in [Tenants -> Nat]
  /\ cache \in [Processes -> Seq(CacheEntry)]
  /\ changed \subseteq Processes \X Tenants
  /\ \A p \in Processes : \A i \in DOMAIN cache[p] : cache[p][i].value \in Offers[cache[p][i].tenant]
  /\ request \in [Requests -> RequestState]
  /\ \A r \in Requests : Prepared(request[r])

\* Provisioning has created each tenant with its administrator.
Init ==
  /\ subscription \in [Tenants -> Offered] /\ \A t \in Tenants : subscription[t] \in Offers[t]
  /\ age = [t \in Tenants |-> Horizon + 1]
  /\ users = [t \in Tenants |-> 1]
  /\ cache = [p \in Processes |-> <<>>]
  /\ changed = {}
  /\ request = [r \in Requests |-> IdleRequest]

-----------------------------------------------------------------------------
(* The cache, a JavaScript Map.                                            *)

\* The place of a tenant in a map.
Places(c, t) == {i \in DOMAIN c : c[i].tenant = t}

\* Map.delete.
Delete(c, t) == IF Places(c, t) = {} THEN c ELSE RemoveAt(c, CHOOSE i \in Places(c, t) : TRUE)

\* Map.set: a key that is there keeps its place.
Set(c, entry) ==
  IF Places(c, entry.tenant) = {} THEN Append(c, entry)
  ELSE [i \in DOMAIN c |-> IF c[i].tenant = entry.tenant THEN entry ELSE c[i]]

\* The first key is deleted when the map is full, even if the entry replaces another.
Evict(c) == IF Len(c) >= MaxEntries /\ c # <<>> THEN Tail(c) ELSE c

Store(c, entry) == Set(Evict(c), entry)

\* The entry getCurrent answers with, if there is one.
Hits(c, t) == {i \in Places(c, t) : c[i].left > 0}

-----------------------------------------------------------------------------
(* An invitation: the guards, the count and the insertion.                 *)

Goto(r, label) == request' = [request EXCEPT ![r].pc = label]

End(r) == request' = [request EXCEPT ![r] = IdleRequest]

Receive(r, p, t) ==
  /\ request[r].pc = "idle"
  /\ users[t] < MaxUsers
  /\ request' = [request EXCEPT ![r] = [IdleRequest EXCEPT !.pc = "ask", !.process = p,
                                                           !.tenant = t]]
  /\ UNCHANGED <<subscription, age, users, cache, changed>>

\* The guard lets the request through, to the next one.
AskAgain(r) ==
  request' = [request EXCEPT ![r] = [@ EXCEPT !.pc = "ask", !.guard = "limit", !.value = None, !.wait = 0]]

Keep(r, label, value) ==
  request' = [request EXCEPT ![r] = [@ EXCEPT !.pc = label, !.value = value, !.wait = 0]]

\* A guard decides on the entitlements it is given.  SubscriptionAccessGuard refuses a status
\* that blocks and lets LimitGuard ask; LimitGuard lets an unlimited plan through, and counts
\* the users against the limit of another.
Decide(r, value) ==
  \/ request[r].guard = "access" /\ ~value.open /\ End(r)
  \/ request[r].guard = "access" /\ value.open /\ AskAgain(r)
  \/ request[r].guard = "limit" /\ value.max = Unlimited /\ Keep(r, "insert", value)
  \/ request[r].guard = "limit" /\ value.max # Unlimited /\ Keep(r, "count", value)

\* Faulty variant: reading an entry renews it.
HitAndRenew(r) ==
  LET p == request[r].process
      t == request[r].tenant
  IN  /\ request[r].pc = "ask"
      /\ \E i \in Hits(cache[p], t) :
           /\ cache' = [cache EXCEPT ![p] = Set(Delete(@, t), [@[i] EXCEPT !.left = Ttl])]
           /\ Decide(r, cache[p][i].value)
      /\ UNCHANGED <<subscription, age, users, changed>>

\* getCurrent finds an entry that has not expired, and moves it to the end of the map.
Hit(r) ==
  LET p == request[r].process
      t == request[r].tenant
  IN  /\ request[r].pc = "ask"
      /\ \E i \in Hits(cache[p], t) :
           /\ cache' = [cache EXCEPT ![p] = Set(Delete(@, t), @[i])]
           /\ Decide(r, cache[p][i].value)
      /\ UNCHANGED <<subscription, age, users, changed>>

Miss(r) ==
  /\ request[r].pc = "ask"
  /\ Hits(cache[request[r].process], request[r].tenant) = {}
  /\ Goto(r, "resolve")
  /\ UNCHANGED <<subscription, age, users, cache, changed>>

\* The query of resolve runs; its answer is on its way.
Resolve(r) ==
  /\ request[r].pc = "resolve"
  /\ Keep(r, "store", subscription[request[r].tenant])
  /\ UNCHANGED <<subscription, age, users, cache, changed>>

\* The answer is stored, whatever has changed since, and the guard decides on it.
Resolved(r) ==
  LET entry == [tenant |-> request[r].tenant, value |-> request[r].value, left |-> Ttl]
  IN  /\ request[r].pc = "store"
      /\ cache' = IF Ttl > 0 THEN [cache EXCEPT ![request[r].process] = Store(@, entry)] ELSE cache
      /\ Decide(r, request[r].value)
      /\ UNCHANGED <<subscription, age, users, changed>>

\* Faulty variant: the limit itself is let through.
CountOneMore(r) ==
  /\ request[r].pc = "count"
  /\ IF users[request[r].tenant] > request[r].value.max THEN End(r) ELSE Goto(r, "insert")
  /\ UNCHANGED <<subscription, age, users, cache, changed>>

\* LimitGuard counts the users in a transaction of its own.
Count(r) ==
  /\ request[r].pc = "count"
  /\ IF users[request[r].tenant] >= request[r].value.max THEN End(r) ELSE Goto(r, "insert")
  /\ UNCHANGED <<subscription, age, users, cache, changed>>

\* InvitationsService.invite inserts the user.
Insert(r) ==
  /\ request[r].pc = "insert"
  /\ users' = [users EXCEPT ![request[r].tenant] = @ + 1]
  /\ End(r)
  /\ UNCHANGED <<subscription, age, cache, changed>>

\* A query fails, or the email or the role is refused.
Fail(r) ==
  /\ request[r].pc \in {"resolve", "store", "count", "insert"}
  /\ End(r)
  /\ UNCHANGED <<subscription, age, users, cache, changed>>

-----------------------------------------------------------------------------
(* Changes, time and restarts.                                             *)

\* A change of plan or status commits.  Plan changes and webhooks invalidate the cache of
\* their process p afterwards; the jobs invalidate nothing.
Change(t, value, p) ==
  /\ value # subscription[t]
  /\ subscription' = [subscription EXCEPT ![t] = value]
  /\ age' = [age EXCEPT ![t] = 0]
  /\ changed' = IF p = None THEN changed ELSE changed \cup {<<p, t>>}
  /\ UNCHANGED <<users, cache, request>>

Invalidate(p, t) ==
  /\ <<p, t>> \in changed
  /\ cache' = [cache EXCEPT ![p] = Delete(@, t)]
  /\ changed' = changed \ {<<p, t>>}
  /\ UNCHANGED <<subscription, age, users, request>>

\* Time passes; the answer of a query is never kept waiting longer than MaxWait.
Tick ==
  /\ \A r \in Requests : request[r].pc = "store" => request[r].wait < MaxWait
  /\ age' = [t \in Tenants |-> IF age[t] > Horizon THEN age[t] ELSE age[t] + 1]
  /\ cache' = [p \in Processes |-> [i \in DOMAIN cache[p] |->
       [cache[p][i] EXCEPT !.left = IF @ = 0 THEN 0 ELSE @ - 1]]]
  /\ request' = [r \in Requests |->
       IF request[r].pc = "store" THEN [request[r] EXCEPT !.wait = @ + 1] ELSE request[r]]
  /\ UNCHANGED <<subscription, users, changed>>

\* A process stops with its memory and its requests, and starts again.
Restart(p) ==
  /\ cache' = [cache EXCEPT ![p] = <<>>]
  /\ changed' = {c \in changed : c[1] # p}
  /\ request' = [r \in Requests |-> IF request[r].process = p THEN IdleRequest ELSE request[r]]
  /\ UNCHANGED <<subscription, age, users>>

-----------------------------------------------------------------------------
Step(r) == Hit(r) \/ Miss(r) \/ Resolve(r) \/ Resolved(r) \/ Count(r) \/ Insert(r) \/ Fail(r)

Next ==
  \/ \E r \in Requests, p \in Processes, t \in Tenants : Receive(r, p, t)
  \/ \E r \in Requests : Step(r)
  \/ \E t \in Tenants : \E value \in Offers[t], p \in Processes \cup {None} : Change(t, value, p)
  \/ \E p \in Processes, t \in Tenants : Invalidate(p, t)
  \/ Tick
  \/ \E p \in Processes : Restart(p)

Spec == Init /\ [][Next]_vars

-----------------------------------------------------------------------------
(* Properties.                                                             *)

\* The memory of a cache is bounded (BIL-17), and a tenant has one entry in it.
CacheFits ==
  \A p \in Processes :
    /\ Len(cache[p]) <= MaxEntries \/ Len(cache[p]) <= 1
    /\ \A i, j \in DOMAIN cache[p] : cache[p][i].tenant = cache[p][j].tenant => i = j

\* What a process would answer is out of date for at most the TTL and the time a query
\* takes, although other processes and the jobs invalidate nothing, and although a query in
\* flight stores what it read before the invalidation.
StalenessIsBounded ==
  \A p \in Processes : \A i \in DOMAIN cache[p] :
    LET entry == cache[p][i]
    IN  entry.left > 0 /\ entry.value # subscription[entry.tenant] =>
          age[entry.tenant] <= (Ttl - entry.left) + MaxWait

\* SubscriptionAccessGuard lets nobody in whose subscription has been blocking for longer
\* than the TTL and the time a query takes.
LockedOutInTime ==
  [][ \A r \in Requests :
        /\ request[r].pc # "idle" /\ request[r].guard = "access" /\ request'[r].guard = "limit"
        /\ ~subscription[request[r].tenant].open
        => age[request[r].tenant] <= Horizon ]_vars

\* Invitations that have passed the guards and not inserted yet.
Inserting(t) == {r \in Requests : request[r].pc = "insert" /\ request[r].tenant = t}

\* The count and the insertion are two transactions: the quota of a tenant whose plans all
\* have one, of at most max, is exceeded by less than the number of requests in flight.
QuotaIsNearlyKept ==
  \A t \in Tenants : \A max \in {value.max : value \in Offers[t]} \ {0, Unlimited} :
    (\A value \in Offers[t] : value.max # Unlimited /\ value.max <= max) =>
      users[t] + Cardinality(Inserting(t)) <= max - 1 + Cardinality(Requests)
=============================================================================
