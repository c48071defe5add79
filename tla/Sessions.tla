------------------------------ MODULE Sessions ------------------------------
(***************************************************************************)
(* The sessions of a user (apps/api/src/auth, users/invitations.service,   *)
(* super-admin.service): login and lockout, second factor, refresh tokens  *)
(* and their families, links that work once, suspension of the enterprise, *)
(* and the guard of every authenticated route.  A step is a statement or a *)
(* transaction of a request; argon2 and the queries let others in between. *)
(***************************************************************************)
EXTENDS Integers, FiniteSets

CONSTANTS
  Requests,     \* requests the API can be serving at once
  Tokens,       \* rows of refresh_tokens
  Links,        \* rows of auth_tokens
  MaxAttempts,  \* MAX_FAILED_LOGIN_ATTEMPTS
  StatusTtl,    \* accountStatusCacheTtlMs
  MaxWait,      \* bound on the time between the query of the guard and its use
  MaxTries,     \* bound on the wrong passwords of a series
  Loads,        \* mixes of operations explored: each behaviour has one of them
  None

Operations ==
  {"guess", "login", "mfa", "refresh", "logout", "reset", "follow", "suspend", "lapse"}

ASSUME SessionsAssumption ==
  /\ MaxAttempts \in Nat \ {0} /\ StatusTtl \in Nat /\ MaxWait \in Nat
  /\ IsFiniteSet(Requests) /\ None \notin Tokens \cup Links
  /\ Loads \subseteq SUBSET Operations

VARIABLES
  load,       \* the operations of this behaviour; never changes
  user,       \* the row of users, with the status of its enterprise
  token,      \* the refresh tokens
  link,       \* the links sent by mail
  challenge,  \* a second factor is awaited (MFA challenge that has not expired)
  cache,      \* statusCache of the process, for this user
  request,
  age,        \* time since the enterprise was suspended, as far as it matters (history)
  tries,      \* wrong passwords since a success, a reset or the end of a lock (history)
  forked      \* families of which one token was refreshed twice at once (history)

vars == <<load, user, token, link, challenge, cache, request, age, tries, forked>>
history == <<load, age, tries, forked>>

-----------------------------------------------------------------------------
(* State.                                                                  *)

Horizon == StatusTtl + MaxWait

\* failed counts to MaxAttempts: the code tells larger counts apart nowhere.  A super
\* administrator has no enterprise, that is, one that nobody suspends.
UserState ==
  [status: {"PENDING_INVITE", "ACTIVE"}, enterprise: {"ACTIVE", "SUSPENDED"},
   superAdmin: BOOLEAN, failed: 0..MaxAttempts, locked: BOOLEAN]

\* held: the token was sent to its client.
TokenState ==
  [status: {"NONE", "ACTIVE", "ROTATED", "REVOKED"}, family: Tokens \cup {None},
   expired: BOOLEAN, held: BOOLEAN]

\* uses counts the requests that went through with the link (history).
LinkState ==
  [type: {"NONE", "INVITATION", "PASSWORD_RESET", "EMAIL_VERIFICATION"}, consumed: BOOLEAN,
   expired: BOOLEAN, uses: Nat]

CacheState == [active: BOOLEAN, left: 0..StatusTtl]

\* right: the password that was typed is the one of the hash that was read.
\* seen: failedLoginCount as read.  next: the successor of token.  links: those a
\* transaction has updated.
RequestState ==
  [pc: {"idle", "verify", "issue", "revoke", "revoke_all", "expire", "create", "rotate", "ask",
        "lookup", "store", "logout", "send", "use"},
   right: BOOLEAN, seen: 0..MaxAttempts, token: Tokens \cup {None}, next: Tokens \cup {None},
   link: Links \cup {None}, links: SUBSET Links, active: BOOLEAN, wait: 0..MaxWait]

Idle ==
  [pc |-> "idle", right |-> FALSE, seen |-> 0, token |-> None, next |-> None, link |-> None,
   links |-> {}, active |-> FALSE, wait |-> 0]

\* What a request refers to at each of its statements.
Prepared(req) ==
  /\ req.pc \in {"ask", "lookup", "store", "logout", "revoke", "expire", "create", "rotate"} =>
       req.token \in Tokens /\ token[req.token].status # "NONE"
  /\ req.pc = "rotate" => req.next \in Tokens /\ token[req.next].status # "NONE"
  /\ req.pc = "use" => req.link \in Links /\ link[req.link].type # "NONE"

\* The rows and the requests keep their shapes; a row that exists belongs to a family that
\* exists, and what clients hold and the statements of requests name are rows that exist.
TypeOK ==
  /\ load \in Loads
  /\ user \in UserState
  /\ token \in [Tokens -> TokenState]
  /\ \A t \in Tokens : token[t].status # "NONE" =>
       token[t].family \in Tokens /\ token[token[t].family].status # "NONE"
  /\ \A t \in Tokens : token[t].held => token[t].status # "NONE"
  /\ link \in [Links -> LinkState]
  /\ challenge \in BOOLEAN
  /\ cache \in CacheState
  /\ request \in [Requests -> RequestState]
  /\ \A r \in Requests : Prepared(request[r])
  /\ age \in 0..(Horizon + 1) /\ tries \in Nat /\ forked \subseteq Tokens

Active == user.status = "ACTIVE" /\ user.enterprise = "ACTIVE"

NoToken == [status |-> "NONE", family |-> None, expired |-> FALSE, held |-> FALSE]

NewLink(type) == [type |-> type, consumed |-> FALSE, expired |-> FALSE, uses |-> 0]

\* The user was invited and has a link, or was created active by provisioning, which sends
\* a link too, or by the script that creates super administrators, with none.
Init ==
  /\ load \in Loads
  /\ \E type \in {"INVITATION", "EMAIL_VERIFICATION", "NONE"} :
       /\ user = [status |-> IF type = "INVITATION" THEN "PENDING_INVITE" ELSE "ACTIVE",
                  enterprise |-> "ACTIVE", superAdmin |-> type = "NONE", failed |-> 0,
                  locked |-> FALSE]
       /\ \E l \in Links :
            link = [m \in Links |-> NewLink(IF m = l THEN type ELSE "NONE")]
  /\ token = [t \in Tokens |-> NoToken]
  /\ challenge = FALSE
  /\ cache = [active |-> FALSE, left |-> 0]
  /\ request = [r \in Requests |-> Idle]
  /\ age = Horizon + 1 /\ tries = 0 /\ forked = {}

-----------------------------------------------------------------------------
(* Requests.                                                               *)

Become(r, req) == request' = [request EXCEPT ![r] = req]

Goto(r, label) == Become(r, [request[r] EXCEPT !.pc = label])

End(r) == Become(r, Idle)

At(r, label) == request[r].pc = label

Starts(r, operation) == At(r, "idle") /\ operation \in load

-----------------------------------------------------------------------------
(* Login.                                                                  *)

\* The user is read; one who is locked or not active is refused before the password is.
Login(r, right) ==
  /\ Starts(r, IF right THEN "login" ELSE "guess")
  /\ ~user.locked /\ Active
  /\ right \/ tries < MaxTries
  /\ Become(r, [Idle EXCEPT !.pc = "verify", !.right = right, !.seen = user.failed])
  /\ UNCHANGED <<user, token, link, challenge, cache, history>>

AtMost(m, n) == IF m < n THEN m ELSE n

\* Faulty variant: a wrong password is not counted.
RefuseUncounted(r) ==
  /\ At(r, "verify") /\ ~request[r].right
  /\ user' = [user EXCEPT !.locked = request[r].seen + 1 >= MaxAttempts]
  /\ tries' = tries + 1
  /\ End(r)
  /\ UNCHANGED <<load, token, link, challenge, cache, age, forked>>

\* A wrong password: the count and the lock are written from the row as it was read.  That
\* row was not locked, so that lockedUntil is set, or written back as it was: unlocked.
Refuse(r) ==
  /\ At(r, "verify") /\ ~request[r].right
  /\ LET count == AtMost(request[r].seen + 1, MaxAttempts)
     IN  user' = [user EXCEPT !.failed = count, !.locked = count = MaxAttempts]
  /\ tries' = tries + 1
  /\ End(r)
  /\ UNCHANGED <<load, token, link, challenge, cache, age, forked>>

\* The right password: a super administrator is asked for the second factor.
Accept(r) ==
  /\ At(r, "verify") /\ request[r].right
  /\ user' = [user EXCEPT !.failed = 0, !.locked = FALSE]
  /\ tries' = 0
  /\ challenge' = (challenge \/ user.superAdmin)
  /\ IF user.superAdmin THEN End(r) ELSE Goto(r, "issue")
  /\ UNCHANGED <<load, token, link, cache, age, forked>>

\* The code answers a challenge.  A wrong code changes nothing; the challenge stays valid.
VerifyMfa(r) ==
  /\ Starts(r, "mfa") /\ challenge
  /\ Become(r, [Idle EXCEPT !.pc = "issue"])
  /\ UNCHANGED <<user, token, link, challenge, cache, history>>

\* issueTokenPair: the first token of a new family, sent to the client.
Issue(r) ==
  /\ At(r, "issue")
  /\ \E t \in Tokens :
       /\ token[t].status = "NONE"
       /\ token' = [token EXCEPT ![t] =
                      [status |-> "ACTIVE", family |-> t, expired |-> FALSE, held |-> TRUE]]
  /\ End(r)
  /\ UNCHANGED <<user, link, challenge, cache, history>>

-----------------------------------------------------------------------------
(* Refresh.                                                                *)

Family(f) == {t \in Tokens : token[t].status # "NONE" /\ token[t].family = f}

\* Requests that have found token t good for a refresh and not exchanged it yet.
Exchanging(t) == {r \in Requests : request[r].pc \in {"create", "rotate"} /\ request[r].token = t}

\* What refresh goes on to, from the row it has read.
Verdict(t) ==
  IF token[t].status # "ACTIVE" THEN "revoke"
  ELSE IF token[t].expired THEN "expire"
  ELSE IF ~Active THEN "revoke"
  ELSE "create"

\* Faulty variant: a token is refused only when it was revoked.
RefreshRotated(r, t) ==
  /\ Starts(r, "refresh") /\ token[t].held
  /\ Become(r, [Idle EXCEPT !.token = t, !.pc =
       IF token[t].status = "ROTATED" /\ ~token[t].expired /\ Active THEN "create"
       ELSE Verdict(t)])
  /\ forked' = IF Exchanging(t) = {} THEN forked ELSE forked \cup {token[t].family}
  /\ UNCHANGED <<load, user, token, link, challenge, cache, age, tries>>

\* A token that was sent is presented, and read with its user; another request may be
\* exchanging it.
Refresh(r, t) ==
  /\ Starts(r, "refresh") /\ token[t].held
  /\ Become(r, [Idle EXCEPT !.token = t, !.pc = Verdict(t)])
  /\ forked' = IF Exchanging(t) = {} THEN forked ELSE forked \cup {token[t].family}
  /\ UNCHANGED <<load, user, token, link, challenge, cache, age, tries>>

Revoked(rows) ==
  [t \in Tokens |-> IF t \in rows THEN [token[t] EXCEPT !.status = "REVOKED"] ELSE token[t]]

\* A token that is not active, or of an account that is not: its family is revoked.
Revoke(r) ==
  /\ At(r, "revoke")
  /\ token' = Revoked(Family(token[request[r].token].family))
  /\ End(r)
  /\ UNCHANGED <<user, link, challenge, cache, history>>

Expire(r) ==
  /\ At(r, "expire")
  /\ token' = Revoked({request[r].token})
  /\ End(r)
  /\ UNCHANGED <<user, link, challenge, cache, history>>

\* The successor is inserted, in a statement of its own.
Create(r) ==
  /\ At(r, "create")
  /\ \E t \in Tokens :
       /\ token[t].status = "NONE"
       /\ token' = [token EXCEPT ![t] = [NoToken EXCEPT !.status = "ACTIVE",
                                           !.family = token[request[r].token].family]]
       /\ Become(r, [request[r] EXCEPT !.pc = "rotate", !.next = t])
  /\ UNCHANGED <<user, link, challenge, cache, history>>

\* Faulty variant: the exchanged token stays active.
RotateNothing(r) ==
  /\ At(r, "rotate")
  /\ token' = [token EXCEPT ![request[r].next].held = TRUE]
  /\ End(r)
  /\ UNCHANGED <<user, link, challenge, cache, history>>

\* The token is marked by its id, whatever it has become, and the successor is sent.
Rotate(r) ==
  /\ At(r, "rotate")
  /\ token' = [token EXCEPT ![request[r].token].status = "ROTATED",
                            ![request[r].next].held = TRUE]
  /\ End(r)
  /\ UNCHANGED <<user, link, challenge, cache, history>>

-----------------------------------------------------------------------------
(* Authenticated requests: JwtAuthGuard, then logout.                      *)

\* A request with a valid access token, to revoke the family of a token the client has.
Ask(r, t) ==
  /\ Starts(r, "logout") /\ token[t].held
  /\ Become(r, [Idle EXCEPT !.pc = "ask", !.token = t])
  /\ UNCHANGED <<user, token, link, challenge, cache, history>>

\* The guard lets in an account it takes for active.
Admit(r, active) ==
  IF active THEN Become(r, [Idle EXCEPT !.pc = "logout", !.token = request[r].token]) ELSE End(r)

\* Faulty variant: an entry answers after its time.
HitForEver(r) ==
  /\ At(r, "ask")
  /\ cache.active
  /\ Admit(r, TRUE)
  /\ UNCHANGED <<user, token, link, challenge, cache, history>>

Hit(r) ==
  /\ At(r, "ask")
  /\ cache.left > 0
  /\ Admit(r, cache.active)
  /\ UNCHANGED <<user, token, link, challenge, cache, history>>

Miss(r) ==
  /\ At(r, "ask")
  /\ cache.left = 0
  /\ Goto(r, "lookup")
  /\ UNCHANGED <<user, token, link, challenge, cache, history>>

\* The query of isAccountActive runs; its answer is on its way.
Lookup(r) ==
  /\ At(r, "lookup")
  /\ Become(r, [request[r] EXCEPT !.pc = "store", !.active = Active])
  /\ UNCHANGED <<user, token, link, challenge, cache, history>>

Store(r) ==
  /\ At(r, "store")
  /\ cache' = IF StatusTtl > 0 THEN [active |-> request[r].active, left |-> StatusTtl] ELSE cache
  /\ Admit(r, request[r].active)
  /\ UNCHANGED <<user, token, link, challenge, history>>

\* The token is found, and its family is revoked in another statement.
Logout(r) ==
  /\ At(r, "logout")
  /\ Goto(r, "revoke")
  /\ UNCHANGED <<user, token, link, challenge, cache, history>>

-----------------------------------------------------------------------------
(* Links.                                                                  *)

\* The transaction of requestPasswordReset updates the unused links it can see; rows that
\* another such transaction has updated make it wait.
RequestReset(r) ==
  LET unused == {l \in Links : link[l].type = "PASSWORD_RESET" /\ ~link[l].consumed}
  IN  /\ Starts(r, "reset")
      /\ \A q \in Requests : At(q, "send") => request[q].links \cap unused = {}
      /\ Become(r, [Idle EXCEPT !.pc = "send", !.links = unused])
      /\ UNCHANGED <<user, token, link, challenge, cache, history>>

\* It inserts the new link and commits; the mail goes out.
Send(r) ==
  /\ At(r, "send")
  /\ \E l \in Links :
       /\ link[l].type = "NONE"
       /\ link' = [m \in Links |->
            IF m = l THEN NewLink("PASSWORD_RESET")
            ELSE IF m \in request[r].links THEN [link[m] EXCEPT !.consumed = TRUE]
            ELSE link[m]]
  /\ End(r)
  /\ UNCHANGED <<user, token, challenge, cache, history>>

\* Faulty variant: a consumed link is valid.
FollowAgain(r, l) ==
  /\ Starts(r, "follow")
  /\ link[l].type # "NONE" /\ ~link[l].expired /\ link[l].uses <= Cardinality(Requests)
  /\ Become(r, [Idle EXCEPT !.pc = "use", !.link = l])
  /\ UNCHANGED <<user, token, link, challenge, cache, history>>

\* A link is read and found valid; the new password is hashed before it is used.
Follow(r, l) ==
  /\ Starts(r, "follow")
  /\ link[l].type # "NONE" /\ ~link[l].consumed /\ ~link[l].expired
  /\ Become(r, [Idle EXCEPT !.pc = "use", !.link = l])
  /\ UNCHANGED <<user, token, link, challenge, cache, history>>

Used(row) == [row EXCEPT !.consumed = TRUE, !.uses = row.uses + 1]

Consume(l) == link' = [link EXCEPT ![l] = Used(link[l])]

Uses(r, type) == At(r, "use") /\ link[request[r].link].type = type

\* resetPassword, in one transaction: the lock, the link and every session.
Reset(r) ==
  /\ Uses(r, "PASSWORD_RESET")
  /\ user' = [user EXCEPT !.failed = 0, !.locked = FALSE]
  /\ tries' = 0
  /\ Consume(request[r].link)
  /\ token' = Revoked({t \in Tokens : token[t].status # "NONE"})
  /\ End(r)
  /\ UNCHANGED <<load, challenge, cache, age, forked>>

VerifyEmail(r) ==
  /\ Uses(r, "EMAIL_VERIFICATION")
  /\ Consume(request[r].link)
  /\ End(r)
  /\ UNCHANGED <<user, token, challenge, cache, history>>

\* acceptInvitation activates the user; the first session is issued after the transaction.
AcceptInvitation(r) ==
  /\ Uses(r, "INVITATION")
  /\ user' = [user EXCEPT !.status = "ACTIVE"]
  /\ Consume(request[r].link)
  /\ Become(r, [Idle EXCEPT !.pc = "issue"])
  /\ UNCHANGED <<token, challenge, cache, history>>

-----------------------------------------------------------------------------
(* Suspension, time and faults.                                            *)

Suspend(r) ==
  /\ Starts(r, "suspend") /\ ~user.superAdmin
  /\ user' = [user EXCEPT !.enterprise = "SUSPENDED"]
  /\ age' = IF user.enterprise = "ACTIVE" THEN 0 ELSE age
  /\ Become(r, [Idle EXCEPT !.pc = "revoke_all"])
  /\ UNCHANGED <<load, token, link, challenge, cache, tries, forked>>

\* revokeAllRefreshTokensForEnterprise, after the first transaction.
RevokeAll(r) ==
  /\ At(r, "revoke_all")
  /\ token' = Revoked({t \in Tokens : token[t].status # "NONE"})
  /\ End(r)
  /\ UNCHANGED <<user, link, challenge, cache, history>>

Reactivate ==
  /\ user.enterprise = "SUSPENDED"
  /\ user' = [user EXCEPT !.enterprise = "ACTIVE"]
  /\ UNCHANGED <<token, link, challenge, cache, request, history>>

\* lockedUntil is over: the count stays.
Unlock ==
  /\ user.locked
  /\ user' = [user EXCEPT !.locked = FALSE]
  /\ tries' = 0
  /\ UNCHANGED <<load, token, link, challenge, cache, request, age, forked>>

\* The end of a refresh token, of a link or of the challenge.
Lapse ==
  \/ \E t \in Tokens :
       /\ "lapse" \in load /\ token[t].status = "ACTIVE" /\ ~token[t].expired
       /\ token' = [token EXCEPT ![t].expired = TRUE]
       /\ UNCHANGED <<user, link, challenge, cache, request, history>>
  \/ \E l \in Links :
       /\ "lapse" \in load /\ link[l].type # "NONE" /\ ~link[l].expired
       /\ link' = [link EXCEPT ![l].expired = TRUE]
       /\ UNCHANGED <<user, token, challenge, cache, request, history>>
  \/ /\ "lapse" \in load /\ challenge
     /\ challenge' = FALSE
     /\ UNCHANGED <<user, token, link, cache, request, history>>

\* The answer of the query of the guard is never kept waiting longer than MaxWait.
Tick ==
  /\ \A r \in Requests : At(r, "store") => request[r].wait < MaxWait
  /\ request' = [r \in Requests |->
       IF At(r, "store") THEN [request[r] EXCEPT !.wait = @ + 1] ELSE request[r]]
  /\ cache' = [cache EXCEPT !.left = IF @ = 0 THEN 0 ELSE @ - 1]
  /\ age' = IF age > Horizon THEN age ELSE age + 1
  /\ UNCHANGED <<load, user, token, link, challenge, tries, forked>>

\* A statement fails, or its client and its process are gone: what was committed stays.
Fail(r) ==
  /\ ~At(r, "idle")
  /\ End(r)
  /\ UNCHANGED <<user, token, link, challenge, cache, history>>

Restart ==
  /\ request' = [r \in Requests |-> Idle]
  /\ cache' = [active |-> FALSE, left |-> 0]
  /\ UNCHANGED <<user, token, link, challenge, history>>

-----------------------------------------------------------------------------
Step(r) ==
  \/ Refuse(r) \/ Accept(r) \/ Issue(r)
  \/ Revoke(r) \/ Expire(r) \/ Create(r) \/ Rotate(r)
  \/ Hit(r) \/ Miss(r) \/ Lookup(r) \/ Store(r) \/ Logout(r)
  \/ Send(r) \/ Reset(r) \/ VerifyEmail(r) \/ AcceptInvitation(r)
  \/ RevokeAll(r) \/ Fail(r)

Next ==
  \/ \E r \in Requests, right \in BOOLEAN : Login(r, right)
  \/ \E r \in Requests, t \in Tokens : Refresh(r, t) \/ Ask(r, t)
  \/ \E r \in Requests, l \in Links : Follow(r, l)
  \/ \E r \in Requests : VerifyMfa(r) \/ RequestReset(r) \/ Suspend(r)
  \/ \E r \in Requests : Step(r)
  \/ Reactivate \/ Unlock \/ Lapse \/ Tick \/ Restart

Spec == Init /\ [][Next]_vars

-----------------------------------------------------------------------------
(* Properties.                                                             *)

\* A session that logout, a reset, a suspension or the reuse of a token has ended, and that
\* no refresh had already checked, never has a live token again (auth.service.ts:243, :333).
Ended(f) ==
  /\ Family(f) # {}
  /\ \A t \in Family(f) : token[t].status # "ACTIVE"
  /\ \A r \in Requests : At(r, "create") => token[request[r].token].family # f

EndedSessionsStayEnded == [][ \A f \in Tokens : Ended(f) => Ended(f)' ]_vars

\* At most one client holds a live token of a family, unless two refreshes of one token
\* overlapped: the successor that a refresh leaves behind when it stops between its two
\* statements is held by nobody (auth.service.ts:298).
Holders(f) == {t \in Family(f) : token[t].status = "ACTIVE" /\ token[t].held}

OneHolderUnlessOverlap ==
  \A f \in Tokens : Cardinality(Holders(f)) > 1 => f \in forked

\* What n requests can still guess is worth at most the number of these, one per way to place
\* them on the counts below the lock: how many are at each distance from it, or farther.
Standings ==
  {k \in [1..MaxAttempts -> 0..Cardinality(Requests)] :
     \A v, w \in 1..MaxAttempts : v <= w => k[w] <= k[v]}

\* However logins overlap, the wrong passwords that precede a lock, or that a lock undone by
\* a late answer allows again, are bounded, and each is one Standing fewer: one request is
\* worth MaxAttempts attempts, two are worth MaxAttempts (MaxAttempts + 3) / 2, and n are
\* worth the binomial of MaxAttempts + n over n, less one (auth.service.ts:87).
GuessesAreBounded == tries < Cardinality(Standings)

\* A link sent by mail changes the account once for each request that was serving it when it
\* was consumed, never later (account-recovery.service.ts:76, invitations.service.ts:111).
LinksWorkOnce ==
  \A l \in Links :
    link[l].uses + Cardinality({r \in Requests : At(r, "use") /\ request[r].link = l})
      <= Cardinality(Requests)

\* JwtAuthGuard admits nobody whose enterprise has been suspended for longer than the TTL of
\* its cache and the time a query takes (jwt-auth.guard.ts:63, super-admin.service.ts:85).
SuspensionIsTimely ==
  [][ \A r \in Requests :
        request[r].pc \in {"ask", "store"} /\ request'[r].pc = "logout" /\ ~Active =>
          age <= Horizon ]_vars
=============================================================================
