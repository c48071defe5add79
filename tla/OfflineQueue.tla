---------------------------- MODULE OfflineQueue ----------------------------
(***************************************************************************)
(* The mobile application's offline queue (apps/mobile/src/lib/offline,    *)
(* auth-context.tsx and the hooks of lib/queries) against the API: writes  *)
(* are kept in SQLite, replayed one at a time in the order of their ids,   *)
(* and purged at the end of a session.  JavaScript runs one step at a      *)
(* time between two awaits.  The network loses answers, the application    *)
(* is killed and started again, and access tokens expire.                  *)
(*                                                                         *)
(* The API is seen from the device: which tenant a request has an effect   *)
(* in, and how it is answered.                                             *)
(***************************************************************************)
EXTENDS Naturals, Sequences, FiniteSets

CONSTANTS
  Accounts,             \* users of the device, each in a tenant of its own
  NoAccount,            \* no refresh token stored
  Offered,              \* kinds of mutation the screens offer
  MaxMutations,         \* bound on the rows of mutation_queue
  MaxTransientRetries,  \* MAX_TRANSIENT_RETRIES
  MaxSessions,          \* bound on the access tokens issued
  MaxExpiries,          \* bound on the access tokens that expire
  MaxKills,             \* bound on the times the application is killed
  MaxDelayed,           \* bound on the requests served after the device gave them up
  MaxDue                \* calls of processQueue waiting to run that are told apart

\* POST of a document under an idempotency key, POST of a customer, supplier or product
\* without one, PATCH or DELETE of a row, and confirm, cancel, mark-paid.
Kinds == {"document", "record", "update", "transition"}

ASSUME OfflineAssumption ==
  /\ NoAccount \notin Accounts
  /\ Offered \subseteq Kinds
  /\ MaxMutations \in Nat /\ MaxSessions \in Nat
  /\ MaxTransientRetries \in Nat \ {0} /\ MaxDue \in Nat \ {0}
  /\ MaxExpiries \in Nat /\ MaxKills \in Nat /\ MaxDelayed \in Nat

VARIABLES
  author,      \* who queued each mutation, and what kind it is
  status,      \* mutation_queue.status
  retryCount,  \* mutation_queue.retryCount
  session,     \* Session.status of AuthProvider
  access,      \* Session.accessToken
  stored,      \* whose refresh token the secure store holds
  leaving,     \* where logout stands
  online,      \* onlineManager.isOnline()
  at,          \* where processQueue stands; "idle" is isProcessing = false
  batch,       \* what is left of the pending mutations the pass has read
  seen,        \* their retryCount when they were read
  deps,        \* the deps of the pass
  current,     \* the mutation being processed
  token,       \* the access token it is sent with
  reply,       \* the answer of the API, until the device has received it
  due,         \* calls of processQueue to come: hooks, sync engine, backoff timers
  late,        \* requests the device gave up and the API has not served yet
  issued,      \* whose access tokens the API has issued
  expired,     \* the tokens that have expired
  applied,     \* how many effects each mutation had in each tenant: 0, 1, or 2 for more
  newest,      \* the last mutation that had an effect in each tenant
  kills, delayed

rows == <<author, status, retryCount>>
user == <<session, access, stored, leaving>>
pass == <<at, batch, seen, deps, current, token, reply>>
api == <<issued, expired, applied, newest>>
vars == <<rows, user, online, pass, due, late, api, kills, delayed>>

Mutations == 1 .. MaxMutations
Tokens == 1 .. MaxSessions
NoToken == 0

\* deps.getAccessToken: a hook closes over the token of its render, and so do the timers of
\* the pass it starts; the sync engine reads accessTokenRef when it is called.
Ref == 0
Deps == {Ref} \cup Tokens
GetAccessToken(d) == IF d = Ref THEN access ELSE d

Queued == 1 .. Len(author)
Present(m) == status[m] \in {"pending", "processing", "failed"}
Pending(m) == status[m] \in {"pending", "processing"}

\* An UPDATE or a DELETE by id, which does nothing to a row that has been purged.
Mark(m, s) == [status EXCEPT ![m] = IF Present(m) THEN s ELSE @]

PurgeTenantScoped == [m \in Mutations |-> IF Present(m) THEN "deleted" ELSE status[m]]

Schedule(d) == due' = [due EXCEPT ![d] = IF @ < MaxDue THEN @ + 1 ELSE @]

Init ==
  /\ author = <<>>
  /\ status = [m \in Mutations |-> "none"]
  /\ retryCount = [m \in Mutations |-> 0]
  /\ session = "loading" /\ access = NoToken /\ stored = NoAccount /\ leaving = "no"
  /\ online \in BOOLEAN
  /\ at = "idle" /\ batch = {} /\ seen = [m \in Mutations |-> 0]
  /\ deps = Ref /\ current = 0 /\ token = NoToken /\ reply = "none"
  /\ due = [d \in Deps |-> 0]
  /\ late = {}
  /\ issued = <<>> /\ expired = {}
  /\ applied = [m \in Mutations |-> [a \in Accounts |-> 0]]
  /\ newest = [a \in Accounts |-> 0]
  /\ kills = 0 /\ delayed = 0

-----------------------------------------------------------------------------
(* Queueing.                                                               *)

\* A hook of lib/queries inserts the row and, online, calls processQueue with its token.
EnqueueMutation(kind) ==
  /\ session = "authenticated"
  /\ Len(author) < MaxMutations
  /\ LET m == Len(author) + 1 IN
       /\ author' = Append(author, [account |-> issued[access], kind |-> kind])
       /\ status' = [status EXCEPT ![m] = "pending"]
  /\ IF online THEN Schedule(access) ELSE UNCHANGED due
  /\ UNCHANGED <<retryCount, user, online, pass, late, api, kills, delayed>>

-----------------------------------------------------------------------------
(* processQueue.                                                           *)

\* A call runs at once, or returns when a pass is under way.
ProcessQueue(d) ==
  /\ due[d] > 0
  /\ due' = [due EXCEPT ![d] = @ - 1]
  /\ IF at = "idle"
     THEN at' = "list" /\ deps' = d
     ELSE UNCHANGED <<at, deps>>
  /\ UNCHANGED <<rows, user, online, batch, seen, current, token, reply, late, api,
                 kills, delayed>>

\* Faulty variant: rows left in processing are not taken again.
ListOnlyPending ==
  /\ at = "list"
  /\ batch' = {m \in Mutations : status[m] = "pending"}
  /\ seen' = retryCount
  /\ at' = "next"
  /\ UNCHANGED <<rows, user, online, deps, current, token, reply, due, late, api,
                 kills, delayed>>

ListPendingMutations ==
  /\ at = "list"
  /\ batch' = {m \in Mutations : Pending(m)}
  /\ seen' = retryCount
  /\ at' = "next"
  /\ UNCHANGED <<rows, user, online, deps, current, token, reply, due, late, api,
                 kills, delayed>>

\* The pass ends, the rest of its batch is left for another, and its variables are gone.
Stop ==
  /\ at' = "idle" /\ batch' = {} /\ seen' = [m \in Mutations |-> 0] /\ deps' = Ref
  /\ current' = 0 /\ token' = NoToken /\ reply' = "none"

\* processOne returns "continue".
Continue ==
  /\ at' = "next" /\ current' = 0 /\ token' = NoToken /\ reply' = "none"
  /\ UNCHANGED <<batch, seen, deps>>

\* The oldest mutation left is taken, if there is a token to send it with.
TakeNext ==
  /\ at = "next"
  /\ IF batch = {} \/ GetAccessToken(deps) = NoToken
     THEN Stop
     ELSE /\ current' \in batch /\ \A m \in batch : current' <= m
          /\ batch' = batch \ {current'}
          /\ token' = GetAccessToken(deps)
          /\ at' = "mark"
          /\ UNCHANGED <<seen, deps, reply>>
  /\ UNCHANGED <<rows, user, online, due, late, api, kills, delayed>>

\* markMutationProcessing, and the request leaves.
Send ==
  /\ at = "mark"
  /\ status' = Mark(current, "processing")
  /\ at' = "answer"
  /\ UNCHANGED <<author, retryCount, user, online, batch, seen, deps, current, token, reply,
                 due, late, api, kills, delayed>>

Received(answer) ==
  /\ at = "answer" /\ reply = answer /\ online
  /\ UNCHANGED <<author, user, online, late, api, kills, delayed>>

\* markMutationDone deletes the row.
ReceiveOk ==
  /\ Received("ok")
  /\ status' = Mark(current, "deleted")
  /\ Continue
  /\ UNCHANGED <<retryCount, due>>

\* Faulty variant: a 401 is taken for an answer like another.
DoneWhateverTheAnswer ==
  /\ Received("unauthorized")
  /\ status' = Mark(current, "deleted")
  /\ Continue
  /\ UNCHANGED <<retryCount, due>>

ReceiveUnauthorized ==
  /\ Received("unauthorized")
  /\ status' = Mark(current, "pending")
  /\ Stop
  /\ UNCHANGED <<retryCount, due>>

\* Faulty variant: the same pass tries the row again, with the retryCount it read first.
RetryInPlace ==
  /\ Received("transient")
  /\ retryCount' = [retryCount EXCEPT ![current] = IF Present(current) THEN (@ + 1) % MaxTransientRetries ELSE @]
  /\ at' = "next" /\ batch' = batch \cup {current}
  /\ current' = 0 /\ token' = NoToken /\ reply' = "none"
  /\ UNCHANGED <<status, seen, deps, due>>

\* 5xx or 429: given up after MAX_TRANSIENT_RETRIES, else tried again after the backoff.
ReceiveTransient ==
  /\ Received("transient")
  /\ IF seen[current] + 1 >= MaxTransientRetries
     THEN /\ status' = Mark(current, "failed")
          /\ Continue
          /\ UNCHANGED <<retryCount, due>>
     ELSE /\ retryCount' = [retryCount EXCEPT ![current] = IF Present(current) THEN @ + 1 ELSE @]
          /\ Schedule(deps)
          /\ Stop
          /\ UNCHANGED status

ReceiveRejected ==
  /\ Received("rejected")
  /\ status' = Mark(current, "failed")
  /\ Continue
  /\ UNCHANGED <<retryCount, due>>

\* The API may still serve a request nobody waits for any more.
GiveUpRequest ==
  \/ UNCHANGED <<late, delayed>>
  \/ /\ reply = "none" /\ delayed < MaxDelayed
     /\ late' = late \cup {[mutation |-> current, token |-> token]}
     /\ delayed' = delayed + 1

\* Faulty variant: a network failure does not stop the pass.
SkipOnNetworkFailure ==
  /\ at = "answer"
  /\ status' = Mark(current, "pending")
  /\ Continue
  /\ GiveUpRequest
  /\ UNCHANGED <<author, retryCount, user, online, due, api, kills>>

\* fetch throws: no network, or no answer within REQUEST_TIMEOUT_MS.
NetworkFails ==
  /\ at = "answer"
  /\ status' = Mark(current, "pending")
  /\ Stop
  /\ GiveUpRequest
  /\ UNCHANGED <<author, retryCount, user, online, due, api, kills>>

-----------------------------------------------------------------------------
(* The API.                                                                *)

Replies == {"ok", "unauthorized", "transient", "rejected"}

\* A document is created once per key, and a row only changes state once; both, and the
\* row of an update, belong to the tenant of their author.  Nothing ties a new customer,
\* supplier or product to it.
Accepts(m, a) ==
  \/ author[m].kind = "record"
  \/ author[m].kind = "update" /\ author[m].account = a
  \/ author[m].kind \in {"document", "transition"} /\ author[m].account = a /\ applied[m][a] = 0

\* The key finds the document an earlier delivery created.
Deduplicates(m, a) == author[m].kind = "document" /\ applied[m][a] > 0

\* A request has an effect or not, and is answered: it may also be refused, or fail, even
\* after its effect is committed (the audit row is written afterwards).
Handles(m, a, answer, effect) ==
  \/ answer \in {"rejected", "transient"} /\ ~effect
  \/ answer \in {"ok", "transient"} /\ effect /\ Accepts(m, a)
  \/ answer = "ok" /\ ~effect /\ Deduplicates(m, a)

Apply(m, a) ==
  /\ applied' = [applied EXCEPT ![m][a] = IF @ < 2 THEN @ + 1 ELSE @]
  /\ newest' = [newest EXCEPT ![a] = m]

Serves(m, t, answer) ==
  \E effect \in BOOLEAN :
    /\ IF t \in expired
       THEN answer = "unauthorized" /\ ~effect
       ELSE Handles(m, issued[t], answer, effect)
    /\ IF effect THEN Apply(m, issued[t]) ELSE UNCHANGED <<applied, newest>>

Serve ==
  /\ at = "answer" /\ reply = "none" /\ online
  /\ \E answer \in Replies : Serves(current, token, answer) /\ reply' = answer
  /\ UNCHANGED <<rows, user, online, at, batch, seen, deps, current, token, due, late,
                 issued, expired, kills, delayed>>

ServeLate ==
  /\ \E request \in late, answer \in Replies :
       /\ Serves(request.mutation, request.token, answer)
       /\ late' = late \ {request}
  /\ UNCHANGED <<rows, user, online, pass, due, issued, expired, kills, delayed>>

Expire(t) ==
  /\ t <= Len(issued) /\ t \notin expired /\ Cardinality(expired) < MaxExpiries
  /\ expired' = expired \cup {t}
  /\ UNCHANGED <<rows, user, online, pass, due, late, issued, applied, newest, kills, delayed>>

-----------------------------------------------------------------------------
(* AuthProvider and the sync engine.                                       *)

\* establishSession; the effect of useSyncEngine then calls processQueue.
Establish(a) ==
  /\ online /\ Len(issued) < MaxSessions
  /\ issued' = Append(issued, a)
  /\ session' = "authenticated" /\ access' = Len(issued) + 1 /\ stored' = a
  /\ Schedule(Ref)
  /\ UNCHANGED <<rows, leaving, online, pass, late, expired, applied, newest, kills, delayed>>

Login(a) == session = "unauthenticated" /\ Establish(a)

\* POST /auth/refresh at start-up.
RestoreSession == session = "loading" /\ stored # NoAccount /\ Establish(stored)

\* Every other way out of restoreSession purges the store and forgets the token.
EndRestore ==
  /\ session = "loading"
  /\ status' = PurgeTenantScoped
  /\ stored' = NoAccount
  /\ session' = "unauthenticated"
  /\ UNCHANGED <<author, retryCount, access, leaving, online, pass, due, late, api, kills,
                 delayed>>

NothingToRestore == stored = NoAccount /\ EndRestore
RefreshRefused == stored # NoAccount /\ online /\ EndRestore
RefreshUnreachable == stored # NoAccount /\ ~online /\ EndRestore

\* logout tells the API, purges, forgets the refresh token, then the session.
Leave(from, to) == leaving = from /\ leaving' = to

StartLogout ==
  /\ session = "authenticated" /\ Leave("no", "purge")
  /\ UNCHANGED <<rows, session, access, stored, online, pass, due, late, api, kills, delayed>>

PurgeOfflineStore ==
  /\ Leave("purge", "clear")
  /\ status' = PurgeTenantScoped
  /\ UNCHANGED <<author, retryCount, session, access, stored, online, pass, due, late, api,
                 kills, delayed>>

ClearRefreshToken ==
  /\ Leave("clear", "reset")
  /\ stored' = NoAccount
  /\ UNCHANGED <<rows, session, access, online, pass, due, late, api, kills, delayed>>

ResetSession ==
  /\ Leave("reset", "no")
  /\ session' = "unauthenticated" /\ access' = NoToken
  /\ UNCHANGED <<rows, stored, online, pass, due, late, api, kills, delayed>>

GoOffline ==
  /\ online /\ online' = FALSE
  /\ UNCHANGED <<rows, user, pass, due, late, api, kills, delayed>>

GoOnline ==
  /\ ~online /\ online' = TRUE
  /\ IF session = "authenticated" THEN Schedule(Ref) ELSE UNCHANGED due
  /\ UNCHANGED <<rows, user, pass, late, api, kills, delayed>>

\* Only SQLite and the secure store survive.
Kill ==
  /\ kills < MaxKills /\ kills' = kills + 1
  /\ session' = "loading" /\ access' = NoToken /\ leaving' = "no"
  /\ Stop
  /\ due' = [d \in Deps |-> 0]
  /\ IF at = "answer" THEN GiveUpRequest ELSE UNCHANGED <<late, delayed>>
  /\ UNCHANGED <<rows, stored, online, api>>

-----------------------------------------------------------------------------

Receive == ReceiveOk \/ ReceiveUnauthorized \/ ReceiveTransient \/ ReceiveRejected

Pass == ListPendingMutations \/ TakeNext \/ Send

Logout == StartLogout \/ PurgeOfflineStore \/ ClearRefreshToken \/ ResetSession

Start == RestoreSession \/ NothingToRestore \/ RefreshRefused \/ RefreshUnreachable

Next ==
  \/ \E kind \in Offered : EnqueueMutation(kind)
  \/ \E d \in Deps : ProcessQueue(d)
  \/ Pass \/ Receive \/ NetworkFails
  \/ Serve \/ ServeLate \/ \E t \in Tokens : Expire(t)
  \/ Start \/ Logout \/ \E a \in Accounts : Login(a)
  \/ GoOffline \/ GoOnline \/ Kill

Spec == Init /\ [][Next]_vars

\* The device keeps losing and finding the network, and what keeps being possible online is
\* at last done online: JavaScript runs what is scheduled, the API serves and answers.
FairSpec ==
  /\ Spec
  /\ WF_vars(GoOnline \/ GoOffline)
  /\ SF_vars(online /\ \E d \in Deps : ProcessQueue(d))
  /\ SF_vars(online /\ ListPendingMutations) /\ SF_vars(online /\ TakeNext)
  /\ SF_vars(online /\ Send) /\ SF_vars(Serve) /\ SF_vars(Receive)

-----------------------------------------------------------------------------
(* Properties.                                                             *)

Mutation == [account: Accounts, kind: Kinds]

\* Rows, session, pass and API keep their shapes; in particular no mutation is kept pending
\* after MAX_TRANSIENT_RETRIES transient answers.
TypeOK ==
  /\ author \in Seq(Mutation) /\ Len(author) <= MaxMutations
  /\ status \in [Mutations -> {"none", "pending", "processing", "failed", "deleted"}]
  /\ \A m \in Mutations : status[m] = "none" <=> m > Len(author)
  /\ retryCount \in [Mutations -> 0 .. MaxTransientRetries - 1]
  /\ session \in {"loading", "authenticated", "unauthenticated"}
  /\ issued \in Seq(Accounts) /\ Len(issued) <= MaxSessions
  /\ access \in 0 .. Len(issued) /\ (access # NoToken <=> session = "authenticated")
  /\ stored \in Accounts \cup {NoAccount}
  /\ leaving \in {"no", "purge", "clear", "reset"}
  /\ online \in BOOLEAN
  /\ at \in {"idle", "list", "next", "mark", "answer"}
  /\ batch \subseteq Queued
  /\ seen \in [Mutations -> 0 .. MaxTransientRetries - 1]
  /\ deps \in 0 .. Len(issued)
  /\ at \in {"mark", "answer"} => current \in Queued /\ token \in 1 .. Len(issued)
  /\ current \in {0} \cup Mutations /\ token \in {NoToken} \cup Tokens
  /\ reply \in Replies \cup {"none"}
  /\ due \in [Deps -> 0 .. MaxDue]
  /\ late \subseteq [mutation: Queued, token: 1 .. Len(issued)]
  /\ expired \subseteq 1 .. Len(issued)
  /\ applied \in [Mutations -> [Accounts -> 0 .. 2]]
  /\ newest \in [Accounts -> {0} \cup Queued]
  /\ kills \in 0 .. MaxKills /\ delayed \in 0 .. MaxDelayed

\* What a pass has read and still uses is what the database says: a mutation of its batch is
\* pending with the same retryCount, or has been purged (mutation-queue.ts reads the rows
\* once, and decides from retryCount whether to give up).
InHand == batch \cup IF at \in {"mark", "answer"} THEN {current} ELSE {}

SnapshotIsCurrent ==
  \A m \in InHand : Present(m) => Pending(m) /\ seen[m] = retryCount[m]

\* Outside a logout or a start-up, a row only leaves the queue once the API has done what it says
\* (markMutationDone): in the tenant of its author or, for a new customer, supplier or product, which
\* nothing ties to it, in that of a user of the device (EffectsStayHome, which does not hold).
DoneIsApplied ==
  [][\A m \in Mutations :
       /\ Present(m) /\ status'[m] = "deleted"
       /\ session = "authenticated" /\ leaving # "purge"
       => \E a \in Accounts :
            applied[m][a] > 0 /\ (author[m].kind # "record" => a = author[m].account)]_vars

\* Mutations have their effects in the order they were queued in ("deux modifications du meme
\* enregistrement ERP doivent s'appliquer dans l'ordre", mutation-queue.ts:81-83).
AppliedInOrder == [][\A a \in Accounts : newest[a] <= newest'[a]]_vars

\* Seen through the effects of the mutations, the queue is an Outbox: each mutation first
\* takes effect after those queued before it, or they never do.
Delivered == {m \in Queued : \E a \in Accounts : applied[m][a] > 0}

Abstract == INSTANCE Outbox WITH accepted <- Len(author), delivered <- Delivered
ImplementsOutbox == Abstract!Spec

\* A mutation has effects in no other tenant than its author's ("aucune donnee d'un tenant ne
\* doit survivre localement a un changement de compte", offline/index.ts:12-13).
EffectsStayHome ==
  \A m \in Queued, a \in Accounts : applied[m][a] > 0 => author[m].account = a

\* Rows survive a kill of the application: a start-up only loses them when there is no
\* session to restore or the API, reached, does not restore it (mutation-queue.ts:44-45).
SurvivesKill ==
  [][\A m \in Mutations :
       Pending(m) /\ status'[m] = "deleted" /\ session = "loading"
       => stored = NoAccount \/ online]_vars

\* In a session, online, a row waits for a pass that runs or is to come (App.tsx:48-49).
PendingIsReplayed ==
  (\E m \in Mutations : Pending(m)) /\ session = "authenticated" /\ online
  => at # "idle" \/ \E d \in Deps : due[d] > 0

\* While the user stays signed in, every mutation is at last done, failed or purged.
EveryMutationSettles ==
  \A m \in Mutations :
    Pending(m) ~> (~Pending(m) \/ session # "authenticated")

\* A mutation answered 401 is sent again with a refreshed token (mutation-queue.ts:147-148).
RetriedAfterExpiry ==
  \A m \in Mutations :
    (at = "answer" /\ current = m /\ reply = "unauthorized")
    ~> (~Pending(m) \/ session # "authenticated")
=============================================================================
