------------------------- MODULE EntitlementsProofs -------------------------
(***************************************************************************)
(* Theorems about Entitlements, for any number of tenants, processes and   *)
(* requests and any TTL and size of the cache: the cache fits, what it     *)
(* answers is out of date for a bounded time, nobody gets in later than    *)
(* that, and a quota is exceeded by less than the requests in flight.      *)
(***************************************************************************)
EXTENDS Entitlements, FiniteSetTheorems, SequenceTheorems, TLAPS

-----------------------------------------------------------------------------
(* The operations of a map.                                                *)

Once(c) == \A i, j \in DOMAIN c : c[i].tenant = c[j].tenant => i = j

\* RemoveAt takes one place out and keeps the others in their order.
LEMMA Removed ==
  ASSUME NEW S, NEW c \in Seq(S), NEW i \in DOMAIN c
  PROVE  /\ RemoveAt(c, i) \in Seq(S)
         /\ Len(RemoveAt(c, i)) = Len(c) - 1
         /\ \A k \in 1..(Len(c) - 1) : RemoveAt(c, i)[k] = IF k < i THEN c[k] ELSE c[k + 1]
<1>1. i \in 1..Len(c) /\ Len(c) \in Nat
  BY LenProperties
<1> DEFINE a == SubSeq(c, 1, i - 1)
           b == SubSeq(c, i + 1, Len(c))
<1>2. /\ a \in Seq(S) /\ Len(a) = i - 1
      /\ \A k \in 1..(i - 1) : a[k] = c[k]
  <2>1. 1 \in 1..(Len(c) + 1) /\ i - 1 \in 0..Len(c)
    BY <1>1
  <2> QED  BY <1>1, <2>1, SubSeqProperties
<1>3. /\ b \in Seq(S) /\ Len(b) = Len(c) - i
      /\ \A k \in 1..(Len(c) - i) : b[k] = c[i + k]
  <2>1. i + 1 \in 1..(Len(c) + 1) /\ Len(c) \in 0..Len(c)
    BY <1>1
  <2> QED  BY <1>1, <2>1, SubSeqProperties
<1>4. /\ a \o b \in Seq(S)
      /\ Len(a \o b) = Len(a) + Len(b)
      /\ \A k \in 1..(Len(a) + Len(b)) : (a \o b)[k] = IF k <= Len(a) THEN a[k] ELSE b[k - Len(a)]
  BY <1>2, <1>3, ConcatProperties
<1>5. RemoveAt(c, i) = a \o b
  BY DEF RemoveAt
<1> HIDE DEF a, b
<1>6. ASSUME NEW k \in 1..(Len(c) - 1)
      PROVE  (a \o b)[k] = IF k < i THEN c[k] ELSE c[k + 1]
  <2>1. CASE k < i
    <3>1. k \in 1..(i - 1) /\ k \in 1..(Len(a) + Len(b)) /\ k <= Len(a)
      BY <1>1, <1>2, <1>3, <2>1
    <3> QED  BY <1>2, <1>4, <2>1, <3>1
  <2>2. CASE ~(k < i)
    <3>1. /\ k \in 1..(Len(a) + Len(b)) /\ ~(k <= Len(a))
          /\ k - Len(a) \in 1..(Len(c) - i) /\ i + (k - Len(a)) = k + 1
      BY <1>1, <1>2, <1>3, <2>2
    <3>2. b[k - Len(a)] = c[i + (k - Len(a))]
      BY <1>3, <3>1
    <3>3. (a \o b)[k] = b[k - Len(a)]
      BY <1>4, <3>1
    <3>4. (a \o b)[k] = c[k + 1]
      BY <3>1, <3>2, <3>3
    <3> QED  BY <2>2, <3>4
  <2> QED  BY <2>1, <2>2
<1>7. RemoveAt(c, i) \in Seq(S) /\ Len(RemoveAt(c, i)) = Len(c) - 1
  BY <1>1, <1>2, <1>3, <1>4, <1>5
<1>8. \A k \in 1..(Len(c) - 1) : RemoveAt(c, i)[k] = IF k < i THEN c[k] ELSE c[k + 1]
  BY <1>5, <1>6
<1> QED  BY <1>7, <1>8

\* delete leaves entries that were there, no more of them, and each key once.
LEMMA Deleted ==
  ASSUME NEW S, NEW c \in Seq(S), NEW t
  PROVE  /\ Delete(c, t) \in Seq(S)
         /\ Len(Delete(c, t)) <= Len(c)
         /\ Places(c, t) # {} => Len(Delete(c, t)) = Len(c) - 1
         /\ \A k \in DOMAIN Delete(c, t) : \E l \in DOMAIN c : Delete(c, t)[k] = c[l]
         /\ Once(c) => Once(Delete(c, t))
<1>1. Len(c) \in Nat /\ DOMAIN c = 1..Len(c)
  BY LenProperties
<1>2. CASE Places(c, t) = {}
  BY <1>1, <1>2 DEF Delete
<1>3. CASE Places(c, t) # {}
  <2> DEFINE i == CHOOSE j \in Places(c, t) : TRUE
             d == RemoveAt(c, i)
  <2>1. i \in DOMAIN c
    BY <1>3 DEF Places
  <2>2. Delete(c, t) = d
    BY <1>3 DEF Delete
  <2>3. /\ d \in Seq(S) /\ Len(d) = Len(c) - 1
        /\ \A k \in 1..(Len(c) - 1) : d[k] = IF k < i THEN c[k] ELSE c[k + 1]
    BY <2>1, Removed
  <2>4. DOMAIN d = 1..(Len(c) - 1)
    BY <2>3, LenProperties
  <2> HIDE DEF i, d
  <2>5. \A k \in DOMAIN d : \E l \in DOMAIN c : d[k] = c[l]
    <3> TAKE k \in DOMAIN d
    <3>1. k \in DOMAIN c /\ k + 1 \in DOMAIN c
      BY <1>1, <2>4
    <3> QED  BY <2>3, <2>4, <3>1
  <2>6. ASSUME Once(c)
        PROVE  Once(d)
    <3> SUFFICES ASSUME NEW k \in DOMAIN d, NEW l \in DOMAIN d, d[k].tenant = d[l].tenant
                 PROVE  k = l
      BY DEF Once
    <3> DEFINE at(n) == IF n < i THEN n ELSE n + 1
    <3>1. at(k) \in DOMAIN c /\ at(l) \in DOMAIN c /\ d[k] = c[at(k)] /\ d[l] = c[at(l)]
      BY <1>1, <2>1, <2>3, <2>4
    <3>2. at(k) = at(l)
      <4> HIDE DEF at
      <4> QED  BY <2>6, <3>1 DEF Once
    <3> QED  BY <1>1, <2>1, <2>4, <3>2
  <2> QED  BY <1>1, <1>3, <2>2, <2>3, <2>5, <2>6
<1> QED  BY <1>2, <1>3

\* set leaves entries that were there or the new one, at most one more of them, each key once.
LEMMA WasSet ==
  ASSUME NEW S, NEW c \in Seq(S), NEW e \in S
  PROVE  /\ Set(c, e) \in Seq(S)
         /\ Len(Set(c, e)) <= Len(c) + 1
         /\ \A k \in DOMAIN Set(c, e) : Set(c, e)[k] = e \/ \E l \in DOMAIN c : Set(c, e)[k] = c[l]
         /\ Once(c) => Once(Set(c, e))
<1>1. Len(c) \in Nat /\ DOMAIN c = 1..Len(c)
  BY LenProperties
<1>2. CASE Places(c, e.tenant) = {}
  <2>1. Set(c, e) = Append(c, e)
    BY <1>2 DEF Set
  <2>2. /\ Append(c, e) \in Seq(S) /\ Len(Append(c, e)) = Len(c) + 1
        /\ \A k \in 1..Len(c) : Append(c, e)[k] = c[k]
        /\ Append(c, e)[Len(c) + 1] = e
        /\ DOMAIN Append(c, e) = 1..(Len(c) + 1)
    BY <1>1, AppendProperties, LenProperties
  <2>3. \A k \in 1..(Len(c) + 1) : k \in 1..Len(c) \/ k = Len(c) + 1
    BY <1>1
  <2>4. \A k \in 1..Len(c) : c[k].tenant # e.tenant
    BY <1>1, <1>2 DEF Places
  <2>5. Once(c) => Once(Append(c, e))
    BY <1>1, <2>2, <2>3, <2>4 DEF Once
  <2> QED  BY <1>1, <2>1, <2>2, <2>3, <2>5
<1>3. CASE Places(c, e.tenant) # {}
  <2> DEFINE s == [i \in DOMAIN c |-> IF c[i].tenant = e.tenant THEN e ELSE c[i]]
  <2>1. Set(c, e) = s
    BY <1>3 DEF Set
  <2>2. s \in [1..Len(c) -> S]
    BY <1>1, ElementOfSeq
  <2>3. s \in Seq(S) /\ Len(s) = Len(c)
    BY <1>1, <2>2, IsASeq, LenProperties
  <2>4. Once(c) => Once(s)
    BY DEF Once
  <2> QED  BY <1>1, <2>1, <2>3, <2>4
<1> QED  BY <1>2, <1>3

\* Evicting leaves room for one entry, or nothing.
LEMMA Evicted ==
  ASSUME NEW S, NEW c \in Seq(S), Len(c) <= MaxEntries \/ Len(c) <= 1
  PROVE  /\ Evict(c) \in Seq(S)
         /\ Len(Evict(c)) + 1 <= MaxEntries \/ Len(Evict(c)) = 0
         /\ \A k \in DOMAIN Evict(c) : \E l \in DOMAIN c : Evict(c)[k] = c[l]
         /\ Once(c) => Once(Evict(c))
<1>1. Len(c) \in Nat /\ DOMAIN c = 1..Len(c) /\ MaxEntries \in Nat
  BY LenProperties, EntitlementsAssumption
<1>2. CASE Len(c) >= MaxEntries /\ c # <<>>
  <2>1. Evict(c) = Tail(c)
    BY <1>2 DEF Evict
  <2>2. /\ Tail(c) \in Seq(S) /\ Len(Tail(c)) = Len(c) - 1
        /\ \A k \in 1..Len(Tail(c)) : Tail(c)[k] = c[k + 1]
    BY <1>2, HeadTailProperties
  <2>3. DOMAIN Tail(c) = 1..(Len(c) - 1) /\ Len(c) >= 1
    <3>1. Len(c) # 0
      BY <1>2, EmptySeq
    <3> QED  BY <1>1, <2>2, <3>1, LenProperties
  <2>4. \A k \in DOMAIN Tail(c) : k + 1 \in DOMAIN c /\ Tail(c)[k] = c[k + 1]
    BY <1>1, <2>2, <2>3
  <2>5. Once(c) => Once(Tail(c))
    BY <1>1, <2>3, <2>4 DEF Once
  <2> QED  BY <1>1, <1>2, <2>1, <2>2, <2>3, <2>4, <2>5
<1>3. CASE ~(Len(c) >= MaxEntries /\ c # <<>>)
  <2>1. Evict(c) = c
    BY <1>3 DEF Evict
  <2>2. c = <<>> => Len(c) = 0
    BY EmptySeq
  <2> QED  BY <1>1, <1>3, <2>1, <2>2
<1> QED  BY <1>2, <1>3

-----------------------------------------------------------------------------
(* The invariant.                                                          *)

\* What a request carries to the cache is out of date for no longer than it has waited.
Carries(req) ==
  req.pc = "store" /\ req.value # subscription[req.tenant] => age[req.tenant] <= req.wait

Carried == \A r \in Requests : Carries(request[r])

EntitlementsInv == TypeOK /\ CacheFits /\ StalenessIsBounded /\ QuotaIsNearlyKept /\ Carried

\* The parts of the invariant, by the variables they are about.
RowsOK ==
  /\ subscription \in [Tenants -> Offered]
  /\ \A t \in Tenants : subscription[t] \in Offers[t]
  /\ age \in [Tenants -> 0..(Horizon + 1)]
  /\ users \in [Tenants -> Nat]
  /\ changed \subseteq Processes \X Tenants

RequestsOK ==
  /\ request \in [Requests -> RequestState]
  /\ \A r \in Requests : Prepared(request[r]) /\ Carries(request[r])

\* An entry has a value its tenant may have, and is not out of date for too long.
Good(e) ==
  /\ e \in CacheEntry /\ e.value \in Offers[e.tenant]
  /\ e.left > 0 /\ e.value # subscription[e.tenant] =>
       age[e.tenant] <= (Ttl - e.left) + MaxWait

Fits(c) == (Len(c) <= MaxEntries \/ Len(c) <= 1) /\ Once(c)

CacheOK(c) == c \in Seq(CacheEntry) /\ Fits(c) /\ \A i \in DOMAIN c : Good(c[i])

CachesOK ==
  /\ cache \in [Processes -> Seq(CacheEntry)]
  /\ \A p \in Processes : CacheOK(cache[p])

LEMMA Parts == EntitlementsInv <=> RowsOK /\ RequestsOK /\ CachesOK /\ QuotaIsNearlyKept
<1>1. EntitlementsInv => RowsOK /\ RequestsOK
  BY DEF EntitlementsInv, TypeOK, RowsOK, RequestsOK, Carried
<1>2. ASSUME EntitlementsInv, NEW p \in Processes
      PROVE  CacheOK(cache[p])
  <2>1. cache[p] \in Seq(CacheEntry)
    BY <1>2 DEF EntitlementsInv, TypeOK
  <2>2. Fits(cache[p])
    BY <1>2 DEF EntitlementsInv, CacheFits, Fits, Once
  <2>3. \A i \in DOMAIN cache[p] : cache[p][i] \in CacheEntry
    BY <2>1, ElementOfSeq, LenProperties
  <2>4. \A i \in DOMAIN cache[p] : Good(cache[p][i])
    BY <1>2, <2>3 DEF EntitlementsInv, TypeOK, StalenessIsBounded, Good
  <2> QED  BY <2>1, <2>2, <2>4 DEF CacheOK
<1>3. EntitlementsInv => CachesOK /\ QuotaIsNearlyKept
  BY <1>2 DEF EntitlementsInv, TypeOK, CachesOK
<1>4. ASSUME RowsOK, RequestsOK, CachesOK, QuotaIsNearlyKept
      PROVE  EntitlementsInv
  <2>1. TypeOK /\ Carried
    BY <1>4 DEF RowsOK, RequestsOK, CachesOK, CacheOK, Good, TypeOK, Carried
  <2>2. CacheFits
    BY <1>4 DEF CachesOK, CacheOK, Fits, Once, CacheFits
  <2>3. StalenessIsBounded
    BY <1>4 DEF CachesOK, CacheOK, Good, StalenessIsBounded
  <2> QED  BY <1>4, <2>1, <2>2, <2>3 DEF EntitlementsInv
<1> QED  BY <1>1, <1>3, <1>4

\* Entitlements that a tenant may have.
LEMMA Offer ==
  ASSUME NEW t \in Tenants, NEW value \in Offers[t]
  PROVE  /\ value \in Value /\ value \in Offered
         /\ value.max # Unlimited => value.max \in Nat
BY EntitlementsAssumption DEF Value, Offered

LEMMA InitInv == Init => EntitlementsInv
<1> SUFFICES ASSUME Init  PROVE RowsOK /\ RequestsOK /\ CachesOK /\ QuotaIsNearlyKept
  BY Parts
<1>1. RowsOK
  BY EntitlementsAssumption DEF Init, RowsOK, Horizon
<1>2. RequestsOK
  BY EntitlementsAssumption DEF Init, RequestsOK, RequestState, IdleRequest, Prepared, Carries
<1>3. CachesOK
  <2>1. <<>> \in Seq(CacheEntry) /\ Len(<<>>) = 0 /\ DOMAIN <<>> = {}
    BY EmptySeq, LenProperties
  <2>2. CacheOK(<<>>)
    BY <2>1 DEF CacheOK, Fits, Once
  <2> QED  BY <2>1, <2>2 DEF Init, CachesOK
<1>4. QuotaIsNearlyKept
  <2> SUFFICES ASSUME NEW t \in Tenants,
                      NEW max \in {value.max : value \in Offers[t]} \ {0, Unlimited}
               PROVE  users[t] + Cardinality(Inserting(t)) <= max - 1 + Cardinality(Requests)
    BY DEF QuotaIsNearlyKept
  <2>1. max \in Nat \ {0}
    BY Offer
  <2>2. Inserting(t) = {}
    BY DEF Init, Inserting, IdleRequest
  <2>3. Cardinality(Inserting(t)) = 0
    BY <2>2, FS_EmptySet
  <2>4. Cardinality(Requests) \in Nat \ {0}
    BY EntitlementsAssumption, FS_CardinalityType, FS_EmptySet
  <2> QED  BY <2>1, <2>3, <2>4 DEF Init
<1> QED  BY <1>1, <1>2, <1>3, <1>4

-----------------------------------------------------------------------------
(* What a step does to the rows and to the requests.                       *)

LEMMA RowsStep == RowsOK /\ RequestsOK /\ [Next]_vars => RowsOK'
<1> SUFFICES ASSUME RowsOK, RequestsOK, [Next]_vars  PROVE RowsOK'
  OBVIOUS
<1> USE DEF RowsOK
<1>1. CASE UNCHANGED <<subscription, age, users, changed>>
  BY <1>1
<1>2. ASSUME NEW r \in Requests, Insert(r)
      PROVE  RowsOK'
  <2>1. request[r].tenant \in Tenants
    BY <1>2 DEF Insert, RequestsOK, Prepared
  <2> QED  BY <1>2, <2>1 DEF Insert
<1>3. ASSUME NEW t \in Tenants, NEW value \in Offers[t], NEW p \in Processes \cup {None},
             Change(t, value, p)
      PROVE  RowsOK'
  BY <1>3, Offer, EntitlementsAssumption DEF Change, Horizon
<1>4. ASSUME NEW p \in Processes, NEW t \in Tenants, Invalidate(p, t)
      PROVE  RowsOK'
  BY <1>4 DEF Invalidate
<1>5. ASSUME Tick
      PROVE  RowsOK'
  BY <1>5, EntitlementsAssumption DEF Tick, Horizon
<1>6. ASSUME NEW p \in Processes, Restart(p)
      PROVE  RowsOK'
  BY <1>6 DEF Restart
<1> QED
  BY <1>1, <1>2, <1>3, <1>4, <1>5, <1>6
  DEF Next, vars, Step, Receive, Hit, Miss, Resolve, Resolved, Count, Fail

\* A request changes alone, to a state of its own.
LEMMA OneRequest ==
  ASSUME RequestsOK, NEW r \in Requests, NEW q \in RequestState,
         Prepared(q), Carries(q), UNCHANGED <<subscription, age>>,
         request' = [request EXCEPT ![r] = q]
  PROVE  RequestsOK'
BY DEF RequestsOK, Carries

LEMMA Idle == IdleRequest \in RequestState /\ Prepared(IdleRequest) /\ Carries(IdleRequest)
BY EntitlementsAssumption DEF IdleRequest, RequestState, Prepared, Carries

\* The fields of a request that goes on.
LEMMA AskFields ==
  ASSUME NEW req \in RequestState, NEW q,
         q = [req EXCEPT !.pc = "ask", !.guard = "limit", !.value = None, !.wait = 0]
  PROVE  /\ q.pc = "ask" /\ q.process = req.process /\ q.tenant = req.tenant
         /\ q \in RequestState
<1>1. 0 \in 0..MaxWait /\ None \in Offered \cup {None}
  BY EntitlementsAssumption
<1> QED  BY <1>1 DEF RequestState

Kept(req, label, value) == [req EXCEPT !.pc = label, !.value = value, !.wait = 0]

LEMMA KeepFields ==
  ASSUME NEW req \in RequestState, NEW value \in Offered,
         NEW label \in {"insert", "count", "store"}, NEW q, q = Kept(req, label, value)
  PROVE  /\ q.pc = label /\ q.process = req.process /\ q.tenant = req.tenant
         /\ q.value = value /\ q.guard = req.guard
         /\ q \in RequestState
<1>1. 0 \in 0..MaxWait /\ value \in Offered \cup {None}
  BY EntitlementsAssumption
<1> QED  BY <1>1 DEF RequestState, Kept

\* What a guard decides, for an answer its tenant may have.
LEMMA Decided ==
  ASSUME RequestsOK, NEW r \in Requests, request[r].pc \in {"ask", "store"},
         NEW value \in Offers[request[r].tenant], Decide(r, value)
  PROVE  \E q \in RequestState :
           /\ Prepared(q) /\ Carries(q) /\ request' = [request EXCEPT ![r] = q]
           /\ q.pc = "insert" => q.tenant = request[r].tenant /\ value.max = Unlimited
           /\ q.guard = "limit" => request[r].guard = "limit" \/ value.open
<1>1. request[r] \in RequestState /\ Prepared(request[r])
  BY DEF RequestsOK
<1>2. request[r].tenant \in Tenants /\ request[r].process \in Processes
  BY <1>1 DEF Prepared
<1>3. value \in Offered
  BY <1>2, Offer
<1>4. CASE End(r)
  <2>1. IdleRequest.pc = "idle" /\ IdleRequest.guard = "access"
    BY DEF IdleRequest
  <2>2. request' = [request EXCEPT ![r] = IdleRequest]
    BY <1>4 DEF End
  <2> QED  BY <2>1, <2>2, Idle
<1>5. CASE request[r].guard = "access" /\ value.open /\ AskAgain(r)
  <2>0. PICK q : q = [request[r] EXCEPT !.pc = "ask", !.guard = "limit", !.value = None, !.wait = 0]
    OBVIOUS
  <2>1. /\ q.pc = "ask" /\ q.process = request[r].process /\ q.tenant = request[r].tenant
        /\ q \in RequestState
    BY <1>1, <2>0, AskFields
  <2>2. request' = [request EXCEPT ![r] = q]
    BY <1>5, <2>0 DEF AskAgain
  <2>3. Prepared(q) /\ Carries(q) /\ q.pc # "insert"
    BY <1>2, <2>1 DEF Prepared, Carries
  <2> QED  BY <1>5, <2>1, <2>2, <2>3
<1>6. ASSUME NEW label \in {"insert", "count"}, request[r].guard = "limit", Keep(r, label, value),
             label = "insert" <=> value.max = Unlimited
      PROVE  \E q \in RequestState :
               /\ Prepared(q) /\ Carries(q) /\ request' = [request EXCEPT ![r] = q]
               /\ q.pc = "insert" => q.tenant = request[r].tenant /\ value.max = Unlimited
  <2>0. PICK q : q = Kept(request[r], label, value)
    OBVIOUS
  <2>1. /\ q.pc = label /\ q.process = request[r].process /\ q.tenant = request[r].tenant
        /\ q.value = value /\ q.guard = request[r].guard /\ q \in RequestState
    <3>1. label \in {"insert", "count", "store"} /\ request[r] \in RequestState
      BY <1>1
    <3> QED  BY <1>3, <2>0, <3>1, KeepFields
  <2>2. request' = [request EXCEPT ![r] = q]
    BY <1>6, <2>0 DEF Keep, Kept
  <2>3. Prepared(q) /\ Carries(q)
    BY <1>2, <1>6, <2>1 DEF Prepared, Carries
  <2> QED  BY <1>6, <2>1, <2>2, <2>3
<1>7. CASE request[r].guard = "limit" /\ value.max = Unlimited /\ Keep(r, "insert", value)
  BY <1>6, <1>7
<1>8. CASE request[r].guard = "limit" /\ value.max # Unlimited /\ Keep(r, "count", value)
  BY <1>6, <1>8
<1> QED  BY <1>4, <1>5, <1>7, <1>8 DEF Decide

LEMMA RequestsStep == RowsOK /\ RequestsOK /\ CachesOK /\ [Next]_vars => RequestsOK'
<1> SUFFICES ASSUME RowsOK, RequestsOK, CachesOK, [Next]_vars  PROVE RequestsOK'
  OBVIOUS
<1>1. ASSUME NEW r \in Requests, UNCHANGED <<subscription, age>>, End(r)
      PROVE  RequestsOK'
  BY <1>1, Idle, OneRequest DEF End
<1>2. ASSUME NEW r \in Requests, UNCHANGED <<subscription, age>>,
             NEW label \in {"resolve", "insert"}, Goto(r, label),
             request[r].pc = (IF label = "resolve" THEN "ask" ELSE "count")
      PROVE  RequestsOK'
  <2> DEFINE q == [request[r] EXCEPT !.pc = label]
  <2>1. request[r] \in RequestState /\ Prepared(request[r])
    BY DEF RequestsOK
  <2>2. /\ q.pc = label /\ q.process = request[r].process /\ q.tenant = request[r].tenant
        /\ q.value = request[r].value /\ q.guard = request[r].guard
        /\ q \in RequestState
    BY <2>1 DEF RequestState
  <2>3. request' = [request EXCEPT ![r] = q]
    BY <1>2 DEF Goto
  <2> HIDE DEF q
  <2>4. Prepared(q) /\ Carries(q)
    BY <1>2, <2>1, <2>2 DEF Prepared, Carries
  <2> QED  BY <1>2, <2>2, <2>3, <2>4, OneRequest
<1>3. ASSUME NEW r \in Requests, UNCHANGED <<subscription, age>>,
             request[r].pc \in {"ask", "store"},
             NEW value \in Offers[request[r].tenant], Decide(r, value)
      PROVE  RequestsOK'
  <2>1. PICK q \in RequestState : Prepared(q) /\ Carries(q) /\ request' = [request EXCEPT ![r] = q]
    BY <1>3, Decided
  <2> QED  BY <1>3, <2>1, OneRequest
<1>4. CASE UNCHANGED vars
  BY <1>4 DEF vars, RequestsOK, Carries
<1>5. ASSUME NEW r \in Requests, NEW p \in Processes, NEW t \in Tenants, Receive(r, p, t)
      PROVE  RequestsOK'
  <2>0. PICK q : q = [IdleRequest EXCEPT !.pc = "ask", !.process = p, !.tenant = t]
    OBVIOUS
  <2>1. q \in RequestState /\ q.pc = "ask" /\ q.process = p /\ q.tenant = t
    <3>1. q = [pc |-> "ask", guard |-> "access", process |-> p, tenant |-> t, value |-> None, wait |-> 0]
      BY <2>0 DEF IdleRequest
    <3> QED  BY <3>1, EntitlementsAssumption DEF RequestState
  <2>2. request' = [request EXCEPT ![r] = q] /\ UNCHANGED <<subscription, age>>
    BY <1>5, <2>0 DEF Receive
  <2>3. Prepared(q) /\ Carries(q)
    BY <2>1 DEF Prepared, Carries
  <2> QED  BY <2>1, <2>2, <2>3, OneRequest
<1>6. ASSUME NEW r \in Requests, Hit(r)
      PROVE  RequestsOK'
  <2>1. PICK i \in Hits(cache[request[r].process], request[r].tenant) :
          Decide(r, cache[request[r].process][i].value)
    BY <1>6 DEF Hit
  <2>2. request[r].pc = "ask" /\ UNCHANGED <<subscription, age>>
    BY <1>6 DEF Hit
  <2>3. request[r].process \in Processes
    BY <2>2 DEF RequestsOK, Prepared
  <2>4. cache[request[r].process][i].value \in Offers[request[r].tenant]
    BY <2>3 DEF Hits, Places, CachesOK, CacheOK, Good
  <2> QED  BY <1>3, <2>1, <2>2, <2>4
<1>7. ASSUME NEW r \in Requests, Miss(r)
      PROVE  RequestsOK'
  BY <1>2, <1>7 DEF Miss
<1>8. ASSUME NEW r \in Requests, Resolve(r)
      PROVE  RequestsOK'
  <2> DEFINE value == subscription[request[r].tenant]
  <2>0. PICK q : q = Kept(request[r], "store", value)
    OBVIOUS
  <2>1. request[r] \in RequestState /\ Prepared(request[r]) /\ request[r].pc = "resolve"
    BY <1>8 DEF RequestsOK, Resolve
  <2>2. request[r].tenant \in Tenants /\ request[r].process \in Processes
    BY <2>1 DEF Prepared
  <2>3. value \in Offers[request[r].tenant] /\ value \in Offered
    BY <2>2, Offer DEF RowsOK
  <2>4. /\ q.pc = "store" /\ q.process = request[r].process /\ q.tenant = request[r].tenant
        /\ q.value = value /\ q \in RequestState
    <3>1. "store" \in {"insert", "count", "store"}
      OBVIOUS
    <3> HIDE DEF value
    <3> QED  BY <2>0, <2>1, <2>3, <3>1, KeepFields
  <2>5. request' = [request EXCEPT ![r] = q] /\ UNCHANGED <<subscription, age>>
    BY <1>8, <2>0 DEF Resolve, Keep, Kept
  <2>6. Prepared(q) /\ Carries(q)
    BY <2>2, <2>3, <2>4 DEF Prepared, Carries
  <2> QED  BY <2>4, <2>5, <2>6, OneRequest
<1>9. ASSUME NEW r \in Requests, Resolved(r)
      PROVE  RequestsOK'
  <2>1. /\ request[r].pc = "store" /\ Decide(r, request[r].value)
        /\ UNCHANGED <<subscription, age>>
    BY <1>9 DEF Resolved
  <2>2. request[r].value \in Offers[request[r].tenant]
    BY <2>1 DEF RequestsOK, Prepared
  <2> QED  BY <1>3, <2>1, <2>2
<1>10. ASSUME NEW r \in Requests, Count(r)
       PROVE  RequestsOK'
  BY <1>1, <1>2, <1>10 DEF Count
<1>11. ASSUME NEW r \in Requests, Insert(r) \/ Fail(r)
       PROVE  RequestsOK'
  BY <1>1, <1>11 DEF Insert, Fail
<1>12. ASSUME NEW t \in Tenants, NEW value \in Offers[t], NEW p \in Processes \cup {None},
              Change(t, value, p)
       PROVE  RequestsOK'
  <2>1. /\ UNCHANGED request
        /\ subscription' = [subscription EXCEPT ![t] = value] /\ age' = [age EXCEPT ![t] = 0]
    BY <1>12 DEF Change
  <2>2. ASSUME NEW r \in Requests
        PROVE  Carries(request[r])'
    <3>1. request[r] \in RequestState /\ Carries(request[r]) /\ Prepared(request[r])
      BY DEF RequestsOK
    <3>2. request[r].wait >= 0
      BY <3>1, EntitlementsAssumption DEF RequestState
    <3>3. request[r].pc = "store" => request[r].tenant \in Tenants
      BY <3>1 DEF Prepared
    <3> QED  BY <2>1, <3>1, <3>2, <3>3 DEF Carries, RowsOK
  <2> QED  BY <2>1, <2>2 DEF RequestsOK
<1>13. ASSUME NEW p \in Processes, NEW t \in Tenants, Invalidate(p, t)
       PROVE  RequestsOK'
  BY <1>13 DEF Invalidate, RequestsOK, Carries
<1>14. ASSUME Tick
       PROVE  RequestsOK'
  <2> DEFINE new(r) == IF request[r].pc = "store" THEN [request[r] EXCEPT !.wait = @ + 1] ELSE request[r]
  <2>1. /\ request' = [r \in Requests |-> new(r)] /\ UNCHANGED subscription
        /\ age' = [t \in Tenants |-> IF age[t] > Horizon THEN age[t] ELSE age[t] + 1]
    BY <1>14 DEF Tick
  <2>2. ASSUME NEW r \in Requests, NEW q, q = new(r)
        PROVE  /\ q \in RequestState /\ Prepared(q)
               /\ q.pc = "store" /\ q.value # subscription[q.tenant] => age'[q.tenant] <= q.wait
    <3>1. request[r] \in RequestState /\ Prepared(request[r]) /\ Carries(request[r])
      BY DEF RequestsOK
    <3>2. CASE request[r].pc # "store"
      BY <2>2, <3>1, <3>2
    <3>3. CASE request[r].pc = "store"
      <4>1. request[r].wait + 1 \in 0..MaxWait /\ request[r].wait \in Nat
        BY <1>14, <3>1, <3>3, EntitlementsAssumption DEF Tick, RequestState
      <4>2. q = [request[r] EXCEPT !.wait = request[r].wait + 1]
        BY <2>2, <3>3
      <4>3. /\ q.pc = request[r].pc /\ q.process = request[r].process
            /\ q.tenant = request[r].tenant /\ q.value = request[r].value
            /\ q.wait = request[r].wait + 1 /\ q \in RequestState
        BY <3>1, <4>1, <4>2 DEF RequestState
      <4>4. Prepared(q)
        BY <3>1, <3>3, <4>3 DEF Prepared
      <4>5. request[r].tenant \in Tenants
        BY <3>1, <3>3 DEF Prepared
      <4>6. /\ age[request[r].tenant] \in Nat /\ age'[request[r].tenant] \in Nat
            /\ age'[request[r].tenant] <= age[request[r].tenant] + 1
        BY <2>1, <4>5, EntitlementsAssumption DEF RowsOK, Horizon
      <4>7. q.value # subscription[q.tenant] => age'[q.tenant] <= q.wait
        BY <3>1, <3>3, <4>1, <4>3, <4>6 DEF Carries
      <4> QED  BY <4>3, <4>4, <4>7
    <3> QED  BY <3>2, <3>3
  <2>3. \A r \in Requests : request'[r] = new(r)
    BY <2>1
  <2>4. request' \in [Requests -> RequestState] /\ \A r \in Requests : Prepared(request'[r])
    <3> HIDE DEF new
    <3> QED  BY <2>1, <2>2
  <2>5. \A r \in Requests : Carries(request[r])'
    <3> HIDE DEF new
    <3> QED  BY <2>1, <2>2, <2>3 DEF Carries
  <2> QED  BY <2>4, <2>5 DEF RequestsOK
<1>15. ASSUME NEW p \in Processes, Restart(p)
       PROVE  RequestsOK'
  <2>1. /\ request' = [r \in Requests |-> IF request[r].process = p THEN IdleRequest ELSE request[r]]
        /\ UNCHANGED <<subscription, age>>
    BY <1>15 DEF Restart
  <2> QED  BY <2>1, Idle DEF RequestsOK, Carries
<1> QED
  BY <1>4, <1>5, <1>6, <1>7, <1>8, <1>9, <1>10, <1>11, <1>12, <1>13, <1>14, <1>15 DEF Next, Step

-----------------------------------------------------------------------------
(* What a step does to the caches.                                         *)

LEMMA OneCache ==
  ASSUME CachesOK, NEW p \in Processes, NEW c, CacheOK(c), UNCHANGED <<subscription, age>>,
         cache' = [cache EXCEPT ![p] = c]
  PROVE  CachesOK'
<1>1. \A d : CacheOK(d) => CacheOK(d)'
  BY DEF CacheOK, Good, Fits, Once
<1>2. cache' \in [Processes -> Seq(CacheEntry)]
  BY DEF CachesOK, CacheOK
<1>3. ASSUME NEW q \in Processes
      PROVE  CacheOK(cache[q])'
  <2>1. PICK d : d = cache'[q]
    OBVIOUS
  <2>2. CacheOK(d)
    BY <2>1 DEF CachesOK
  <2>3. CacheOK(d)'
    BY <1>1, <2>2
  <2> QED  BY <2>1, <2>3 DEF CacheOK, Good, Fits, Once
<1> QED  BY <1>2, <1>3 DEF CachesOK

LEMMA SameCaches == CachesOK /\ UNCHANGED <<subscription, age, cache>> => CachesOK'
BY DEF CachesOK, CacheOK, Good, Fits, Once

LEMMA DeleteOK ==
  ASSUME NEW c, CacheOK(c), NEW t
  PROVE  CacheOK(Delete(c, t))
<1>1. c \in Seq(CacheEntry) /\ Len(c) \in Nat
  BY LenProperties DEF CacheOK
<1>2. /\ Delete(c, t) \in Seq(CacheEntry) /\ Len(Delete(c, t)) <= Len(c)
      /\ \A k \in DOMAIN Delete(c, t) : \E l \in DOMAIN c : Delete(c, t)[k] = c[l]
      /\ Once(c) => Once(Delete(c, t))
  BY <1>1, Deleted
<1>3. Len(Delete(c, t)) \in Nat
  BY <1>2, LenProperties
<1> QED  BY <1>1, <1>2, <1>3, EntitlementsAssumption DEF CacheOK, Fits

LEMMA SetOK ==
  ASSUME NEW c \in Seq(CacheEntry), NEW e, Good(e), Once(c), \A i \in DOMAIN c : Good(c[i]),
         Len(c) + 1 <= MaxEntries \/ Len(c) + 1 <= 1
  PROVE  CacheOK(Set(c, e))
<1>1. e \in CacheEntry
  BY DEF Good
<1>2. /\ Set(c, e) \in Seq(CacheEntry) /\ Len(Set(c, e)) <= Len(c) + 1
      /\ \A k \in DOMAIN Set(c, e) : Set(c, e)[k] = e \/ \E l \in DOMAIN c : Set(c, e)[k] = c[l]
      /\ Once(c) => Once(Set(c, e))
  BY <1>1, WasSet
<1>3. Len(Set(c, e)) \in Nat /\ Len(c) \in Nat
  BY <1>2, LenProperties
<1> QED  BY <1>2, <1>3, EntitlementsAssumption DEF CacheOK, Fits

LEMMA CachesStep == RowsOK /\ RequestsOK /\ CachesOK /\ [Next]_vars => CachesOK'
<1> SUFFICES ASSUME RowsOK, RequestsOK, CachesOK, [Next]_vars  PROVE CachesOK'
  OBVIOUS
<1>1. CASE UNCHANGED <<subscription, age, cache>>
  BY <1>1, SameCaches
<1>2. ASSUME NEW r \in Requests, Hit(r)
      PROVE  CachesOK'
  <2>1. PICK p \in Processes, t \in Tenants : p = request[r].process /\ t = request[r].tenant
    BY <1>2 DEF Hit, RequestsOK, Prepared
  <2>2. PICK c : c = cache[p]
    OBVIOUS
  <2>3. PICK i \in Hits(c, t) : cache' = [cache EXCEPT ![p] = Set(Delete(c, t), c[i])]
    BY <1>2, <2>1, <2>2 DEF Hit
  <2>4. CacheOK(c)
    BY <2>2 DEF CachesOK
  <2>5. i \in DOMAIN c /\ Places(c, t) # {} /\ Good(c[i]) /\ c \in Seq(CacheEntry)
    BY <2>3, <2>4 DEF Hits, Places, CacheOK
  <2>6. Len(Delete(c, t)) = Len(c) - 1 /\ Len(c) \in Nat
    BY <2>5, Deleted, LenProperties
  <2>7. CacheOK(Delete(c, t))
    BY <2>4, DeleteOK
  <2>8. Len(Delete(c, t)) + 1 <= MaxEntries \/ Len(Delete(c, t)) + 1 <= 1
    BY <2>4, <2>6 DEF CacheOK, Fits
  <2>9. CacheOK(Set(Delete(c, t), c[i]))
    BY <2>5, <2>7, <2>8, SetOK DEF CacheOK, Fits
  <2>10. UNCHANGED <<subscription, age>>
    BY <1>2 DEF Hit
  <2> QED  BY <2>3, <2>9, <2>10, OneCache
<1>3. ASSUME NEW r \in Requests, Resolved(r)
      PROVE  CachesOK'
  <2>1. PICK p \in Processes : p = request[r].process
    BY <1>3 DEF Resolved, RequestsOK, Prepared
  <2>2. PICK e : e = [tenant |-> request[r].tenant, value |-> request[r].value, left |-> Ttl]
    OBVIOUS
  <2>3. PICK c : c = cache[p]
    OBVIOUS
  <2>4. /\ cache' = IF Ttl > 0 THEN [cache EXCEPT ![p] = Store(c, e)] ELSE cache
        /\ UNCHANGED <<subscription, age>> /\ request[r].pc = "store"
    BY <1>3, <2>1, <2>2, <2>3 DEF Resolved
  <2>5. CacheOK(c)
    BY <2>3 DEF CachesOK
  <2>6. Good(e)
    <3>1. request[r] \in RequestState /\ Prepared(request[r]) /\ Carries(request[r])
      BY DEF RequestsOK
    <3>2. /\ request[r].tenant \in Tenants /\ request[r].value \in Offers[request[r].tenant]
          /\ request[r].wait \in 0..MaxWait
      BY <2>4, <3>1 DEF Prepared, RequestState
    <3>3. request[r].value \in Offered
      BY <3>2, Offer
    <3>4. e.tenant = request[r].tenant /\ e.value = request[r].value /\ e.left = Ttl
      BY <2>2
    <3>5. e \in CacheEntry
      BY <2>2, <3>2, <3>3, EntitlementsAssumption DEF CacheEntry
    <3>6. age[request[r].tenant] \in Nat
      BY <3>2, EntitlementsAssumption DEF RowsOK, Horizon
    <3>7. e.value # subscription[e.tenant] => age[e.tenant] <= (Ttl - e.left) + MaxWait
      BY <2>4, <3>1, <3>2, <3>4, <3>6, EntitlementsAssumption DEF Carries
    <3> QED  BY <3>2, <3>4, <3>5, <3>7 DEF Good
  <2>7. CASE Ttl > 0
    <3>1. c \in Seq(CacheEntry) /\ (Len(c) <= MaxEntries \/ Len(c) <= 1)
      BY <2>5 DEF CacheOK, Fits
    <3>2. /\ Evict(c) \in Seq(CacheEntry)
          /\ Len(Evict(c)) + 1 <= MaxEntries \/ Len(Evict(c)) = 0
          /\ \A k \in DOMAIN Evict(c) : \E l \in DOMAIN c : Evict(c)[k] = c[l]
          /\ Once(c) => Once(Evict(c))
      BY <3>1, Evicted
    <3>3. CacheOK(Set(Evict(c), e))
      BY <2>5, <2>6, <3>2, SetOK DEF CacheOK, Fits
    <3> QED  BY <2>4, <2>7, <3>3, OneCache DEF Store
  <2>8. CASE ~(Ttl > 0)
    BY <2>4, <2>8, SameCaches
  <2> QED  BY <2>7, <2>8
<1>4. ASSUME NEW t \in Tenants, NEW value \in Offers[t], NEW p \in Processes \cup {None},
             Change(t, value, p)
      PROVE  CachesOK'
  <2>1. /\ UNCHANGED cache
        /\ subscription' = [subscription EXCEPT ![t] = value] /\ age' = [age EXCEPT ![t] = 0]
    BY <1>4 DEF Change
  <2>2. ASSUME NEW e, Good(e)
        PROVE  Good(e)'
    <3>1. e \in CacheEntry /\ e.tenant \in Tenants /\ e.left \in 0..Ttl
      BY <2>2 DEF Good, CacheEntry
    <3>2. 0 <= (Ttl - e.left) + MaxWait
      BY <3>1, EntitlementsAssumption
    <3> QED  BY <2>1, <2>2, <3>1, <3>2 DEF Good, RowsOK
  <2> QED  BY <2>1, <2>2 DEF CachesOK, CacheOK, Fits, Once
<1>5. ASSUME NEW p \in Processes, NEW t \in Tenants, Invalidate(p, t)
      PROVE  CachesOK'
  <2>1. cache' = [cache EXCEPT ![p] = Delete(cache[p], t)] /\ UNCHANGED <<subscription, age>>
    BY <1>5 DEF Invalidate
  <2>2. CacheOK(Delete(cache[p], t))
    BY DeleteOK DEF CachesOK
  <2> QED  BY <2>1, <2>2, OneCache
<1>6. ASSUME NEW p \in Processes, Restart(p)
      PROVE  CachesOK'
  <2>1. cache' = [cache EXCEPT ![p] = <<>>] /\ UNCHANGED <<subscription, age>>
    BY <1>6 DEF Restart
  <2>2. <<>> \in Seq(CacheEntry) /\ Len(<<>>) = 0 /\ DOMAIN <<>> = {}
    BY EmptySeq, LenProperties
  <2>3. CacheOK(<<>>)
    BY <2>2 DEF CacheOK, Fits, Once
  <2> QED  BY <2>1, <2>3, OneCache
<1>7. ASSUME Tick
      PROVE  CachesOK'
  <2> DEFINE older(e) == [e EXCEPT !.left = IF @ = 0 THEN 0 ELSE @ - 1]
             aged(c) == [i \in DOMAIN c |-> older(c[i])]
  <2>1. /\ cache' = [p \in Processes |-> aged(cache[p])] /\ UNCHANGED subscription
        /\ age' = [t \in Tenants |-> IF age[t] > Horizon THEN age[t] ELSE age[t] + 1]
    BY <1>7 DEF Tick
  <2>2. ASSUME NEW e, Good(e), NEW f, f = older(e)
        PROVE  /\ f \in CacheEntry /\ f.value \in Offers[f.tenant] /\ f.tenant = e.tenant
               /\ Good(f)'
    <3>1. e \in CacheEntry /\ e.tenant \in Tenants /\ e.left \in 0..Ttl
      BY <2>2 DEF Good, CacheEntry
    <3>2. PICK n : n = IF e.left = 0 THEN 0 ELSE e.left - 1
      OBVIOUS
    <3>3. n \in 0..Ttl /\ (n > 0 => n = e.left - 1 /\ e.left > 0)
      BY <3>1, <3>2, EntitlementsAssumption
    <3>4. f = [e EXCEPT !.left = n]
      BY <2>2, <3>2
    <3>5. f \in CacheEntry /\ f.tenant = e.tenant /\ f.value = e.value /\ f.left = n
      BY <3>1, <3>3, <3>4 DEF CacheEntry
    <3>6. /\ age[e.tenant] \in Nat /\ age'[e.tenant] \in Nat
          /\ age'[e.tenant] <= age[e.tenant] + 1
      BY <2>1, <3>1, EntitlementsAssumption DEF RowsOK, Horizon
    <3>7. n > 0 /\ e.value # subscription[e.tenant] => age'[e.tenant] <= (Ttl - n) + MaxWait
      BY <2>2, <3>1, <3>3, <3>6, EntitlementsAssumption DEF Good
    <3> QED  BY <2>1, <2>2, <3>5, <3>7 DEF Good
  <2>3. ASSUME NEW p \in Processes, NEW c, c = cache[p], NEW d, d = aged(c)
        PROVE  d \in Seq(CacheEntry) /\ CacheOK(d)'
    <3>1. CacheOK(c) /\ c \in Seq(CacheEntry)
      BY <2>3 DEF CachesOK, CacheOK
    <3>2. Len(c) \in Nat /\ DOMAIN c = 1..Len(c) /\ DOMAIN d = 1..Len(c)
      BY <2>3, <3>1, LenProperties
    <3>3. \A i \in 1..Len(c) : /\ d[i] \in CacheEntry /\ Good(d[i])'
                               /\ d[i].tenant = c[i].tenant
      <4> TAKE i \in 1..Len(c)
      <4>1. Good(c[i]) /\ d[i] = older(c[i])
        BY <2>3, <3>1, <3>2 DEF CacheOK
      <4> HIDE DEF older, aged
      <4> QED  BY <2>2, <4>1
    <3>4. d = [i \in 1..Len(c) |-> d[i]]
      BY <2>3, <3>2
    <3>5. d \in [1..Len(c) -> CacheEntry]
      BY <3>3, <3>4
    <3>6. d \in Seq(CacheEntry) /\ Len(d) = Len(c)
      BY <3>2, <3>5, LenProperties
    <3>7. Fits(d)
      BY <3>1, <3>2, <3>3, <3>6 DEF CacheOK, Fits, Once
    <3> HIDE DEF older, aged
    <3> QED  BY <3>2, <3>3, <3>6, <3>7 DEF CacheOK, Fits, Once
  <2>4. ASSUME NEW p \in Processes
        PROVE  cache'[p] \in Seq(CacheEntry) /\ CacheOK(cache[p])'
    <3>1. PICK c : c = cache[p]
      OBVIOUS
    <3>2. PICK d : d = aged(c)
      OBVIOUS
    <3>3. cache'[p] = d
      BY <2>1, <3>1, <3>2
    <3>4. d \in Seq(CacheEntry) /\ CacheOK(d)'
      BY <2>3, <3>1, <3>2
    <3> HIDE DEF older, aged
    <3> QED  BY <3>3, <3>4 DEF CacheOK, Good, Fits, Once
  <2>5. cache' = [p \in Processes |-> cache'[p]]
    BY <2>1
  <2> QED  BY <2>4, <2>5 DEF CachesOK
<1> QED
  BY <1>1, <1>2, <1>3, <1>4, <1>5, <1>6, <1>7
  DEF Next, vars, Step, Receive, Miss, Resolve, Count, Insert, Fail

-----------------------------------------------------------------------------
(* What a step does to the users of a tenant whose plans all have a quota. *)

LEMMA InsertingIsFinite ==
  ASSUME NEW S \in SUBSET Requests
  PROVE  IsFiniteSet(S) /\ Cardinality(S) \in Nat /\ Cardinality(S) <= Cardinality(Requests)
         /\ Cardinality(Requests) \in Nat
BY EntitlementsAssumption, FS_Subset, FS_CardinalityType

LEMMA QuotaStep == EntitlementsInv /\ [Next]_vars => QuotaIsNearlyKept'
<1> SUFFICES ASSUME EntitlementsInv, [Next]_vars, NEW t \in Tenants,
                    NEW max \in {value.max : value \in Offers[t]} \ {0, Unlimited},
                    \A value \in Offers[t] : value.max # Unlimited /\ value.max <= max
             PROVE  (users[t] + Cardinality(Inserting(t)) <= max - 1 + Cardinality(Requests))'
  BY DEF QuotaIsNearlyKept
<1> DEFINE S == Inserting(t)
           T == {r \in Requests : request'[r].pc = "insert" /\ request'[r].tenant = t}
           Bounded == users'[t] + Cardinality(T) <= max - 1 + Cardinality(Requests)
<1>1. SUFFICES Bounded
  BY DEF Inserting
<1>2. RowsOK /\ RequestsOK /\ CachesOK
  BY Parts
<1>3. max \in Nat \ {0}
  BY Offer
<1>4. users[t] \in Nat /\ users[t] + Cardinality(S) <= max - 1 + Cardinality(Requests)
  BY <1>2 DEF EntitlementsInv, QuotaIsNearlyKept, RowsOK
<1>5. S \in SUBSET Requests /\ T \in SUBSET Requests
  BY DEF Inserting
<1>6. /\ Cardinality(S) \in Nat /\ Cardinality(T) \in Nat /\ Cardinality(Requests) \in Nat
      /\ Cardinality(T) <= Cardinality(Requests) /\ IsFiniteSet(S)
  BY <1>5, InsertingIsFinite
<1>7. ASSUME T \subseteq S, users' = users
      PROVE  Bounded
  <2>1. Cardinality(T) <= Cardinality(S)
    BY <1>6, <1>7, FS_Subset
  <2> QED  BY <1>3, <1>4, <1>6, <1>7, <2>1
<1>8. ASSUME NEW r \in Requests, NEW q, request' = [request EXCEPT ![r] = q],
             q.pc # "insert" \/ q.tenant # t
      PROVE  T \subseteq S
  BY <1>2, <1>8 DEF Inserting, RequestsOK
<1>9. ASSUME NEW r \in Requests, End(r)
      PROVE  T \subseteq S
  BY <1>8, <1>9 DEF End, IdleRequest
<1>10. ASSUME NEW r \in Requests, NEW label, Goto(r, label), label # "insert"
       PROVE  T \subseteq S
  <2>1. PICK q : q = [request[r] EXCEPT !.pc = label]
    OBVIOUS
  <2>2. q.pc = label
    BY <1>2, <2>1 DEF RequestsOK, RequestState
  <2> QED  BY <1>8, <1>10, <2>1, <2>2 DEF Goto
<1>11. ASSUME NEW r \in Requests, request[r].pc \in {"ask", "store"},
              NEW value \in Offers[request[r].tenant], Decide(r, value)
       PROVE  T \subseteq S
  <2>1. PICK q \in RequestState :
          /\ request' = [request EXCEPT ![r] = q]
          /\ q.pc = "insert" => q.tenant = request[r].tenant /\ value.max = Unlimited
    BY <1>2, <1>11, Decided
  <2>2. q.pc # "insert" \/ q.tenant # t
    BY <1>11, <2>1
  <2> QED  BY <1>8, <2>1, <2>2
<1>12. CASE UNCHANGED <<users, request>>
  BY <1>7, <1>12 DEF Inserting
<1>13. ASSUME NEW r \in Requests, NEW p \in Processes, NEW u \in Tenants, Receive(r, p, u)
       PROVE  Bounded
  <2>1. PICK q : q = [IdleRequest EXCEPT !.pc = "ask", !.process = p, !.tenant = u]
    OBVIOUS
  <2>2. q = [pc |-> "ask", guard |-> "access", process |-> p, tenant |-> u, value |-> None, wait |-> 0]
    BY <2>1 DEF IdleRequest
  <2>3. request' = [request EXCEPT ![r] = q] /\ users' = users
    BY <1>13, <2>1 DEF Receive
  <2> QED  BY <1>7, <1>8, <2>2, <2>3
<1>14. ASSUME NEW r \in Requests, Hit(r)
       PROVE  Bounded
  <2>1. PICK i \in Hits(cache[request[r].process], request[r].tenant) :
          Decide(r, cache[request[r].process][i].value)
    BY <1>14 DEF Hit
  <2>2. request[r].pc = "ask" /\ users' = users
    BY <1>14 DEF Hit
  <2>3. request[r].process \in Processes
    BY <1>2, <2>2 DEF RequestsOK, Prepared
  <2>4. cache[request[r].process][i].value \in Offers[request[r].tenant]
    BY <1>2, <2>3 DEF Hits, Places, CachesOK, CacheOK, Good
  <2> QED  BY <1>7, <1>11, <2>1, <2>2, <2>4
<1>15. ASSUME NEW r \in Requests, Miss(r)
       PROVE  Bounded
  BY <1>7, <1>10, <1>15 DEF Miss
<1>16. ASSUME NEW r \in Requests, Resolve(r)
       PROVE  Bounded
  <2>1. PICK value : value = subscription[request[r].tenant]
    OBVIOUS
  <2>2. PICK q : q = Kept(request[r], "store", value)
    OBVIOUS
  <2>3. q.pc = "store"
    BY <1>2, <2>2 DEF Kept, RequestsOK, RequestState
  <2>4. request' = [request EXCEPT ![r] = q] /\ users' = users
    BY <1>16, <2>1, <2>2 DEF Resolve, Keep, Kept
  <2> QED  BY <1>7, <1>8, <2>3, <2>4
<1>17. ASSUME NEW r \in Requests, Resolved(r)
       PROVE  Bounded
  <2>1. request[r].pc = "store" /\ Decide(r, request[r].value) /\ users' = users
    BY <1>17 DEF Resolved
  <2>2. request[r].value \in Offers[request[r].tenant]
    BY <1>2, <2>1 DEF RequestsOK, Prepared
  <2> QED  BY <1>7, <1>11, <2>1, <2>2
<1>18. ASSUME NEW r \in Requests, Count(r)
       PROVE  Bounded
  <2>1. users' = users /\ request[r].pc = "count"
    BY <1>18 DEF Count
  <2>2. CASE End(r)
    BY <1>7, <1>9, <2>1, <2>2
  <2>3. CASE Goto(r, "insert") /\ request[r].tenant # t
    <3>1. PICK q : q = [request[r] EXCEPT !.pc = "insert"]
      OBVIOUS
    <3>2. q.tenant = request[r].tenant
      BY <1>2, <3>1 DEF RequestsOK, RequestState
    <3>3. request' = [request EXCEPT ![r] = q]
      BY <2>3, <3>1 DEF Goto
    <3> QED  BY <1>7, <1>8, <2>1, <2>3, <3>2, <3>3
  <2>4. CASE ~(users[t] >= request[r].value.max) /\ request[r].tenant = t
    <3>1. request[r].value \in Offers[t]
      BY <1>2, <2>1, <2>4 DEF RequestsOK, Prepared
    <3>2. request[r].value.max \in Nat /\ request[r].value.max <= max
      BY <3>1, Offer
    <3>3. users[t] <= max - 1
      BY <1>3, <1>4, <2>4, <3>2
    <3> QED  BY <1>3, <1>4, <1>6, <2>1, <3>3
  <2> QED  BY <1>18, <2>2, <2>3, <2>4 DEF Count
<1>19. ASSUME NEW r \in Requests, Insert(r)
       PROVE  Bounded
  <2>1. /\ request[r].pc = "insert" /\ End(r)
        /\ users' = [users EXCEPT ![request[r].tenant] = @ + 1]
    BY <1>19 DEF Insert
  <2>2. CASE request[r].tenant = t
    <3>1. r \in S /\ users'[t] = users[t] + 1
      BY <1>2, <2>1, <2>2 DEF Inserting, RowsOK
    <3>2. T \subseteq S \ {r}
      <4>1. T \subseteq S
        BY <1>9, <2>1
      <4>2. r \notin T
        BY <1>2, <2>1 DEF End, IdleRequest, RequestsOK
      <4> QED  BY <4>1, <4>2
    <3>3. IsFiniteSet(S \ {r}) /\ Cardinality(S \ {r}) = Cardinality(S) - 1
      BY <1>6, <3>1, FS_RemoveElement
    <3>4. Cardinality(T) <= Cardinality(S) - 1
      BY <3>2, <3>3, FS_Subset
    <3> QED  BY <1>3, <1>4, <1>6, <3>1, <3>4
  <2>3. CASE request[r].tenant # t
    <3>1. users'[t] = users[t]
      BY <1>2, <2>1, <2>3 DEF RowsOK
    <3>2. Cardinality(T) <= Cardinality(S)
      BY <1>6, <1>9, <2>1, FS_Subset
    <3> QED  BY <1>3, <1>4, <1>6, <3>1, <3>2
  <2> QED  BY <2>2, <2>3
<1>20. ASSUME NEW r \in Requests, Fail(r)
       PROVE  Bounded
  BY <1>7, <1>9, <1>20 DEF Fail
<1>21. CASE Tick
  <2>1. /\ users' = users
        /\ request' = [r \in Requests |->
             IF request[r].pc = "store" THEN [request[r] EXCEPT !.wait = @ + 1] ELSE request[r]]
    BY <1>21 DEF Tick
  <2>2. ASSUME NEW r \in Requests, request[r].pc = "store"
        PROVE  request'[r].pc = "store"
    BY <1>2, <2>1, <2>2 DEF RequestsOK, RequestState
  <2>3. T \subseteq S
    BY <2>1, <2>2 DEF Inserting
  <2> QED  BY <1>7, <2>1, <2>3
<1>22. ASSUME NEW p \in Processes, Restart(p)
       PROVE  Bounded
  <2>1. /\ users' = users
        /\ request' = [r \in Requests |-> IF request[r].process = p THEN IdleRequest ELSE request[r]]
    BY <1>22 DEF Restart
  <2>2. T \subseteq S
    BY <2>1 DEF Inserting, IdleRequest
  <2> QED  BY <1>7, <2>1, <2>2
<1>23. ASSUME NEW u \in Tenants, NEW value \in Offers[u], NEW p \in Processes \cup {None},
              Change(u, value, p)
       PROVE  Bounded
  BY <1>12, <1>23 DEF Change
<1>24. ASSUME NEW p \in Processes, NEW u \in Tenants, Invalidate(p, u)
       PROVE  Bounded
  BY <1>12, <1>24 DEF Invalidate
<1>25. CASE UNCHANGED vars
  BY <1>12, <1>25 DEF vars
<1> QED
  BY <1>13, <1>14, <1>15, <1>16, <1>17, <1>18, <1>19, <1>20, <1>21, <1>22, <1>23, <1>24, <1>25
  DEF Next, Step

-----------------------------------------------------------------------------
(* Whom a guard lets in.                                                   *)

\* A request only gets to the limit if the answer was that its subscription is open.
LEMMA LetIn ==
  ASSUME RequestsOK, NEW r \in Requests, request[r].pc \in {"ask", "store"},
         request[r].guard = "access", request'[r].guard = "limit",
         NEW value \in Offers[request[r].tenant], Decide(r, value)
  PROVE  value.open
<1>1. PICK q \in RequestState :
        /\ request' = [request EXCEPT ![r] = q]
        /\ q.guard = "limit" => request[r].guard = "limit" \/ value.open
  BY Decided
<1> QED  BY <1>1 DEF RequestsOK

\* Only a decision of a guard brings a request to the next one.
LEMMA GuardChanges ==
  ASSUME RequestsOK, [Next]_vars, NEW r \in Requests,
         request[r].guard = "access", request'[r].guard = "limit"
  PROVE  Hit(r) \/ Resolved(r)
<1> SUFFICES ASSUME ~Hit(r), ~Resolved(r)  PROVE request'[r].guard # "limit"
  OBVIOUS
<1>1. \A q \in Requests : request[q] \in RequestState
  BY DEF RequestsOK
<1>2. ASSUME NEW s \in Requests, NEW q, request' = [request EXCEPT ![s] = q],
             s # r \/ q.guard # "limit"
      PROVE  request'[r].guard # "limit"
  BY <1>2 DEF RequestsOK
<1>3. ASSUME NEW s \in Requests, End(s)
      PROVE  request'[r].guard # "limit"
  BY <1>2, <1>3 DEF End, IdleRequest
<1>4. ASSUME NEW s \in Requests, NEW label, Goto(s, label)
      PROVE  request'[r].guard # "limit"
  <2>1. PICK q : q = [request[s] EXCEPT !.pc = label]
    OBVIOUS
  <2>2. q.guard = request[s].guard
    BY <1>1, <2>1 DEF RequestState
  <2> QED  BY <1>2, <1>4, <2>1, <2>2 DEF Goto
<1>5. ASSUME NEW s \in Requests, NEW value, Decide(s, value), s # r
      PROVE  request'[r].guard # "limit"
  BY <1>2, <1>5 DEF Decide, End, AskAgain, Keep
<1>6. CASE UNCHANGED request
  BY <1>6
<1>7. ASSUME NEW s \in Requests, NEW p \in Processes, NEW t \in Tenants, Receive(s, p, t)
      PROVE  request'[r].guard # "limit"
  <2>1. PICK q : q = [IdleRequest EXCEPT !.pc = "ask", !.process = p, !.tenant = t]
    OBVIOUS
  <2>2. q = [pc |-> "ask", guard |-> "access", process |-> p, tenant |-> t, value |-> None, wait |-> 0]
    BY <2>1 DEF IdleRequest
  <2>3. q.guard = "access"
    BY <2>2
  <2>4. request' = [request EXCEPT ![s] = q]
    BY <1>7, <2>1 DEF Receive
  <2> QED  BY <1>2, <2>3, <2>4
<1>8. ASSUME NEW s \in Requests, Hit(s) \/ Resolved(s)
      PROVE  request'[r].guard # "limit"
  BY <1>5, <1>8 DEF Hit, Resolved
<1>9. ASSUME NEW s \in Requests, Miss(s) \/ Count(s)
      PROVE  request'[r].guard # "limit"
  BY <1>3, <1>4, <1>9 DEF Miss, Count
<1>10. ASSUME NEW s \in Requests, Resolve(s)
       PROVE  request'[r].guard # "limit"
  <2>1. PICK value : value = subscription[request[s].tenant]
    OBVIOUS
  <2>2. PICK q : q = Kept(request[s], "store", value)
    OBVIOUS
  <2>3. q.guard = request[s].guard
    BY <1>1, <2>2 DEF Kept, RequestState
  <2>4. request' = [request EXCEPT ![s] = q]
    BY <1>10, <2>1, <2>2 DEF Resolve, Keep, Kept
  <2> QED  BY <1>2, <2>3, <2>4
<1>11. ASSUME NEW s \in Requests, Insert(s) \/ Fail(s)
       PROVE  request'[r].guard # "limit"
  BY <1>3, <1>11 DEF Insert, Fail
<1>12. CASE Tick
  <2>1. request'[r] = IF request[r].pc = "store" THEN [request[r] EXCEPT !.wait = @ + 1] ELSE request[r]
    BY <1>12 DEF Tick
  <2>2. [request[r] EXCEPT !.wait = @ + 1].guard = request[r].guard
    BY <1>1 DEF RequestState
  <2> QED  BY <2>1, <2>2
<1>13. ASSUME NEW p \in Processes, Restart(p)
       PROVE  request'[r].guard # "limit"
  BY <1>13 DEF Restart, IdleRequest
<1> QED
  BY <1>6, <1>7, <1>8, <1>9, <1>10, <1>11, <1>12, <1>13
  DEF Next, Step, vars, Change, Invalidate

LEMMA LockOutStep ==
  ASSUME EntitlementsInv, [Next]_vars, NEW r \in Requests,
         request[r].pc # "idle", request[r].guard = "access", request'[r].guard = "limit",
         ~subscription[request[r].tenant].open
  PROVE  age[request[r].tenant] <= Horizon
<1>1. RowsOK /\ RequestsOK /\ CachesOK
  BY Parts
<1>2. PICK t \in Tenants, p \in Processes : t = request[r].tenant /\ p = request[r].process
  BY <1>1 DEF RequestsOK, Prepared
<1>3. age[t] \in Nat /\ Horizon = Ttl + MaxWait
  BY <1>1, EntitlementsAssumption DEF RowsOK, Horizon
<1>4. CASE Hit(r)
  <2>1. PICK i \in Hits(cache[p], t) : Decide(r, cache[p][i].value)
    BY <1>2, <1>4 DEF Hit
  <2>2. PICK e : e = cache[p][i]
    OBVIOUS
  <2>3. Good(e) /\ e.tenant = t /\ e.left > 0
    BY <1>1, <2>1, <2>2 DEF Hits, Places, CachesOK, CacheOK
  <2>4. request[r].pc = "ask" /\ e.value \in Offers[request[r].tenant]
    BY <1>2, <1>4, <2>3 DEF Hit, Good
  <2>5. e.value.open
    BY <1>1, <2>1, <2>2, <2>4, LetIn
  <2>6. e.left \in Nat /\ e.left <= Ttl
    BY <2>3, EntitlementsAssumption DEF Good, CacheEntry
  <2>7. age[t] <= (Ttl - e.left) + MaxWait
    BY <1>2, <2>3, <2>5 DEF Good
  <2> QED  BY <1>2, <1>3, <2>3, <2>6, <2>7, EntitlementsAssumption
<1>5. CASE Resolved(r)
  <2>1. request[r].pc = "store" /\ Decide(r, request[r].value)
    BY <1>5 DEF Resolved
  <2>2. request[r] \in RequestState /\ Prepared(request[r]) /\ Carries(request[r])
    BY <1>1 DEF RequestsOK
  <2>3. request[r].value \in Offers[request[r].tenant]
    BY <2>1, <2>2 DEF Prepared
  <2>4. request[r].value.open
    BY <1>1, <2>1, <2>3, LetIn
  <2>5. age[t] <= request[r].wait
    BY <1>2, <2>1, <2>2, <2>4 DEF Carries
  <2>6. request[r].wait \in Nat /\ request[r].wait <= MaxWait
    BY <2>2, EntitlementsAssumption DEF RequestState
  <2> QED  BY <1>2, <1>3, <2>5, <2>6, EntitlementsAssumption
<1> QED  BY <1>1, <1>4, <1>5, GuardChanges

-----------------------------------------------------------------------------
(* Theorems.                                                               *)

\* The invariant is inductive, for every TTL, size of the caches and set of plans.
THEOREM EntitlementsCorrect == Spec => []EntitlementsInv
<1>1. EntitlementsInv /\ [Next]_vars => EntitlementsInv'
  <2>1. EntitlementsInv /\ [Next]_vars => (RowsOK /\ RequestsOK /\ CachesOK /\ QuotaIsNearlyKept)'
    BY Parts, RowsStep, RequestsStep, CachesStep, QuotaStep
  <2>2. (RowsOK /\ RequestsOK /\ CachesOK /\ QuotaIsNearlyKept)' => EntitlementsInv'
    BY Parts, PTL
  <2> QED  BY <2>1, <2>2
<1> QED  BY <1>1, InitInv, PTL DEF Spec

\* Rows, caches and requests keep their shapes, and nobody counts against no limit.
THEOREM EntitlementsTypes == Spec => []TypeOK
<1>1. EntitlementsInv => TypeOK
  BY DEF EntitlementsInv
<1> QED  BY <1>1, EntitlementsCorrect, PTL

\* store keeps the memory of a process bounded, and each tenant in it once.
THEOREM CacheIsBounded == Spec => []CacheFits
<1>1. EntitlementsInv => CacheFits
  BY DEF EntitlementsInv
<1> QED  BY <1>1, EntitlementsCorrect, PTL

\* What getCurrent answers from a cache is out of date for the TTL and a query at most.
THEOREM AnswersAreFresh == Spec => []StalenessIsBounded
<1>1. EntitlementsInv => StalenessIsBounded
  BY DEF EntitlementsInv
<1> QED  BY <1>1, EntitlementsCorrect, PTL

\* LimitGuard and the insertions exceed a quota by less than the requests in flight.
THEOREM QuotaHolds == Spec => []QuotaIsNearlyKept
<1>1. EntitlementsInv => QuotaIsNearlyKept
  BY DEF EntitlementsInv
<1> QED  BY <1>1, EntitlementsCorrect, PTL

\* SubscriptionAccessGuard lets nobody in whose subscription has blocked for longer.
THEOREM LockOutIsTimely == Spec => LockedOutInTime
<1> DEFINE A == \A r \in Requests :
                  /\ request[r].pc # "idle" /\ request[r].guard = "access" /\ request'[r].guard = "limit"
                  /\ ~subscription[request[r].tenant].open
                  => age[request[r].tenant] <= Horizon
<1>1. EntitlementsInv /\ [Next]_vars => A
  BY LockOutStep
<1> QED  BY <1>1, EntitlementsCorrect, PTL DEF Spec, LockedOutInTime
=============================================================================
