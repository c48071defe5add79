--------------------------- MODULE SessionsProofs ---------------------------
(***************************************************************************)
(* Theorems about Sessions, for any number of requests, tokens and links   *)
(* and any mixes of operations.                                            *)
(***************************************************************************)
EXTENDS Sessions, FiniteSetTheorems, TLAPS

-----------------------------------------------------------------------------
(* Types.                                                                  *)

\* Tokens and families that exist go on existing.
TokensGo ==
  \A t \in Tokens : token[t].status # "NONE" =>
    token'[t].status # "NONE" /\ token'[t].family = token[t].family

LinksGo == \A l \in Links : link[l].type # "NONE" => link'[l].type # "NONE"

TokensComeInFamilies ==
  \A t \in Tokens :
    /\ token[t].status = "NONE" /\ token'[t].status # "NONE" =>
         token'[t].family \in Tokens /\ token'[token'[t].family].status # "NONE"
    /\ token'[t].held => token[t].held \/ token'[t].status # "NONE"

\* Requests go on with what they had, or are prepared anew.
RequestsGo ==
  \A r \in Requests :
    \/ /\ request'[r].token = request[r].token /\ request'[r].pc = request[r].pc
       /\ request'[r].next = request[r].next /\ request'[r].link = request[r].link
    \/ Prepared(request[r])'

LEMMA TypesGo ==
  ASSUME TypeOK, TokensGo, LinksGo, TokensComeInFamilies, RequestsGo, load' = load,
         user' \in UserState, token' \in [Tokens -> TokenState], link' \in [Links -> LinkState],
         challenge' \in BOOLEAN, cache' \in CacheState,
         request' \in [Requests -> RequestState], age' \in 0..(Horizon + 1), tries' \in Nat,
         forked' \subseteq Tokens
  PROVE  TypeOK'
<1>1. ASSUME NEW t \in Tokens, token'[t].status # "NONE"
      PROVE  token'[t].family \in Tokens /\ token'[token'[t].family].status # "NONE"
  BY <1>1 DEF TypeOK, TokensGo, TokensComeInFamilies
<1>3. ASSUME NEW t \in Tokens, token'[t].held
      PROVE  token'[t].status # "NONE"
  BY <1>3 DEF TypeOK, TokensGo, TokensComeInFamilies
<1>2. ASSUME NEW r \in Requests
      PROVE  Prepared(request[r])'
  BY <1>2 DEF TypeOK, TokensGo, LinksGo, RequestsGo, Prepared
<1> QED  BY <1>1, <1>2, <1>3 DEF TypeOK

\* A request that changes leaves the others alone.
LEMMA OneRequest ==
  ASSUME TypeOK, NEW r \in Requests, NEW req \in RequestState, Become(r, req)
  PROVE  /\ request' \in [Requests -> RequestState]
         /\ request'[r] = req
         /\ \A q \in Requests \ {r} : request'[q] = request[q]
BY DEF TypeOK, Become

\* Requests begin from Idle and end in it.
LEMMA IdleIsARequest == Idle \in RequestState /\ Idle.pc = "idle"
BY SessionsAssumption DEF Idle, RequestState

LEMMA TypesInit == Init => TypeOK
<1> SUFFICES ASSUME Init PROVE TypeOK
  OBVIOUS
<1>1. /\ load \in Loads /\ challenge \in BOOLEAN /\ tries \in Nat /\ forked \subseteq Tokens
  BY DEF Init
<1>6. cache \in CacheState
  BY SessionsAssumption DEF Init, CacheState
<1>7. age \in 0..(Horizon + 1)
  BY SessionsAssumption DEF Init, Horizon
<1>2. user \in UserState
  BY SessionsAssumption DEF Init, UserState
<1>3. token \in [Tokens -> TokenState] /\ \A t \in Tokens : token[t].status = "NONE" /\ ~token[t].held
  BY DEF Init, NoToken, TokenState
<1>4. link \in [Links -> LinkState]
  BY DEF Init, NewLink, LinkState
<1>5. request \in [Requests -> RequestState] /\ \A r \in Requests : Prepared(request[r])
  BY IdleIsARequest DEF Init, Prepared
<1> QED  BY <1>1, <1>2, <1>3, <1>4, <1>5, <1>6, <1>7 DEF TypeOK

\* A request that refers to no row may become anything.
Plain == {"idle", "verify", "issue", "send", "revoke_all"}

LEMMA OneRequestBecomes ==
  ASSUME TypeOK, NEW r \in Requests, NEW req \in RequestState, req.pc \in Plain, Become(r, req)
  PROVE  /\ request' \in [Requests -> RequestState] /\ RequestsGo
         /\ request'[r] = req
         /\ \A q \in Requests \ {r} : request'[q] = request[q]
<1>1. /\ request' \in [Requests -> RequestState]
      /\ request'[r] = req
      /\ \A q \in Requests \ {r} : request'[q] = request[q]
  BY OneRequest
<1>2. Prepared(request[r])'
  BY <1>1 DEF Prepared, Plain
<1> QED  BY <1>1, <1>2 DEF RequestsGo

LEMMA OneRequestEnds ==
  ASSUME TypeOK, NEW r \in Requests, End(r)
  PROVE  /\ request' \in [Requests -> RequestState] /\ RequestsGo
         /\ request'[r] = Idle
         /\ \A q \in Requests \ {r} : request'[q] = request[q]
BY OneRequestBecomes, IdleIsARequest DEF End, Plain

LEMMA OneRequestGoes ==
  ASSUME TypeOK, NEW r \in Requests, NEW label \in Plain, Goto(r, label)
  PROVE  request' \in [Requests -> RequestState] /\ RequestsGo
<1>1. PICK req : req = [request[r] EXCEPT !.pc = label]
  OBVIOUS
<1>2. req \in RequestState /\ req.pc = label
  BY <1>1, ZenonT(40) DEF TypeOK, RequestState, Plain
<1> QED  BY <1>1, <1>2, OneRequestBecomes DEF Goto

\* The request after the insertion of a successor.
ToRotate(req, t) == [req EXCEPT !.pc = "rotate", !.next = t]

LEMMA RotateNext ==
  ASSUME NEW req \in RequestState, NEW t \in Tokens
  PROVE  /\ ToRotate(req, t) \in RequestState
         /\ ToRotate(req, t).pc = "rotate"
         /\ ToRotate(req, t).next = t
         /\ ToRotate(req, t).token = req.token
BY DEF RequestState, ToRotate

\* What the exchange of token a for token b does to a table of tokens.
Exchange(before, a, b) == [before EXCEPT ![a].status = "ROTATED", ![b].held = TRUE]

LEMMA Exchanged ==
  ASSUME token \in [Tokens -> TokenState], NEW a \in Tokens, NEW b \in Tokens,
         token' = Exchange(token, a, b)
  PROVE  /\ token' \in [Tokens -> TokenState]
         /\ \A u \in Tokens :
              /\ u = a => token'[u].status = "ROTATED"
              /\ u # a => token'[u].status = token[u].status
              /\ u # b => token'[u].held = token[u].held
              /\ token'[u].family = token[u].family
<1> DEFINE middle == [token EXCEPT ![a] = [token[a] EXCEPT !.status = "ROTATED"]]
<1>1. /\ middle \in [Tokens -> TokenState]
      /\ \A u \in Tokens :
           /\ middle[u].status = IF u = a THEN "ROTATED" ELSE token[u].status
           /\ middle[u].held = token[u].held
           /\ middle[u].family = token[u].family
           /\ middle[u].expired = token[u].expired
  BY DEF TokenState
<1>2. token' = [middle EXCEPT ![b] = [middle[b] EXCEPT !.held = TRUE]]
  BY DEF Exchange
<1> HIDE DEF middle
<1>3. PICK row : row = [middle[b] EXCEPT !.held = TRUE]
  OBVIOUS
<1>4. /\ row \in TokenState /\ row.held = TRUE /\ row.status = middle[b].status
      /\ row.family = middle[b].family /\ row.expired = middle[b].expired
  BY <1>1, <1>3, ZenonT(40) DEF TokenState
<1>5. token' = [middle EXCEPT ![b] = row]
  BY <1>2, <1>3, Zenon
<1>6. /\ token' \in [Tokens -> TokenState]
      /\ \A u \in Tokens :
           /\ u = a => token'[u].status = "ROTATED"
           /\ u # a => token'[u].status = token[u].status
           /\ u # b => token'[u].held = token[u].held
           /\ token'[u].family = token[u].family
  BY <1>1, <1>4, <1>5
<1> QED  BY <1>6

\* What leaves the tables of tokens and links alone.
LEMMA TablesGo ==
  ASSUME TypeOK
  PROVE  /\ token' = token =>
              token' \in [Tokens -> TokenState] /\ TokensGo /\ TokensComeInFamilies
         /\ link' = link => link' \in [Links -> LinkState] /\ LinksGo
BY DEF TypeOK, TokensGo, TokensComeInFamilies, LinksGo

LEMMA RevokedRows ==
  ASSUME TypeOK, NEW rows \in SUBSET Tokens, \A t \in rows : token[t].status # "NONE",
         token' = Revoked(rows)
  PROVE  token' \in [Tokens -> TokenState] /\ TokensGo /\ TokensComeInFamilies
<1>1. ASSUME NEW t \in Tokens
      PROVE  /\ token'[t] \in TokenState
             /\ token'[t].status = IF t \in rows THEN "REVOKED" ELSE token[t].status
             /\ token'[t].family = token[t].family
             /\ token'[t].held = token[t].held
  BY DEF Revoked, TypeOK, TokenState
<1>2. token' = [t \in Tokens |-> token'[t]]
  BY DEF Revoked
<1> QED  BY <1>1, <1>2 DEF TokensGo, TokensComeInFamilies

LEMMA TypesLogin ==
  ASSUME TypeOK, NEW r \in Requests, NEW right \in BOOLEAN,
         Login(r, right) \/ Refuse(r) \/ Accept(r) \/ VerifyMfa(r)
  PROVE  TypeOK'
<1>1. CASE Login(r, right)
  <2>1. PICK req : req = [Idle EXCEPT !.pc = "verify", !.right = right, !.seen = user.failed]
    OBVIOUS
  <2>4. user.failed \in 0..MaxAttempts
    BY DEF TypeOK, UserState
  <2>2. req \in RequestState /\ req.pc = "verify"
    <3>1. req = [pc |-> "verify", right |-> right, seen |-> user.failed, token |-> None,
                 next |-> None, link |-> None, links |-> {}, active |-> FALSE, wait |-> 0]
      BY <2>1 DEF Idle
    <3>2. 0 \in 0..MaxWait
      BY SessionsAssumption
    <3> QED  BY <2>4, <3>1, <3>2 DEF RequestState
  <2>3. request' \in [Requests -> RequestState] /\ RequestsGo
    BY <1>1, <2>1, <2>2, OneRequestBecomes DEF Login, Plain
  <2> QED  BY <1>1, <2>3, TablesGo, TypesGo DEF Login, TypeOK, history
<1>2. CASE Refuse(r)
  <2>1. AtMost(request[r].seen + 1, MaxAttempts) \in 0..MaxAttempts
    BY SessionsAssumption DEF AtMost, TypeOK, RequestState
  <2>2. user' \in UserState /\ tries' \in Nat
    <3>1. PICK count : count = AtMost(request[r].seen + 1, MaxAttempts)
      OBVIOUS
    <3>2. user' = [user EXCEPT !.failed = count, !.locked = count = MaxAttempts]
      BY <1>2, <3>1 DEF Refuse
    <3>3. count \in 0..MaxAttempts /\ (count = MaxAttempts) \in BOOLEAN
      BY <2>1, <3>1
    <3>4. user' \in UserState
      BY <3>2, <3>3 DEF TypeOK, UserState
    <3> QED  BY <1>2, <3>4 DEF Refuse, TypeOK
  <2> QED  BY <1>2, <2>2, OneRequestEnds, TablesGo, TypesGo DEF Refuse, TypeOK
<1>3. CASE Accept(r)
  <2>1. user' \in UserState /\ tries' \in Nat /\ challenge' \in BOOLEAN
    <3>1. user' = [user EXCEPT !.failed = 0, !.locked = FALSE] /\ 0 \in 0..MaxAttempts
      BY <1>3, SessionsAssumption DEF Accept
    <3>2. user' \in UserState
      BY <3>1 DEF TypeOK, UserState
    <3>3. user.superAdmin \in BOOLEAN
      BY DEF TypeOK, UserState
    <3> QED  BY <1>3, <3>2, <3>3, Zenon DEF Accept, TypeOK
  <2>2. request' \in [Requests -> RequestState] /\ RequestsGo
    BY <1>3, OneRequestEnds, OneRequestGoes DEF Accept, Plain
  <2> QED  BY <1>3, <2>1, <2>2, TablesGo, TypesGo DEF Accept, TypeOK
<1>4. CASE VerifyMfa(r)
  <2>1. PICK req : req = [Idle EXCEPT !.pc = "issue"]
    OBVIOUS
  <2>2. req \in RequestState /\ req.pc = "issue"
    BY <2>1, IdleIsARequest DEF Idle, RequestState
  <2>3. request' \in [Requests -> RequestState] /\ RequestsGo
    BY <1>4, <2>1, <2>2, OneRequestBecomes DEF VerifyMfa, Plain
  <2> QED  BY <1>4, <2>3, TablesGo, TypesGo DEF VerifyMfa, TypeOK, history
<1> QED  BY <1>1, <1>2, <1>3, <1>4

LEMMA ExchangedTokens ==
  ASSUME NEW a \in Tokens, NEW b \in Tokens, token \in [Tokens -> TokenState],
         token[a].status # "NONE", token[b].status # "NONE", token' = Exchange(token, a, b)
  PROVE  token' \in [Tokens -> TokenState] /\ TokensGo /\ TokensComeInFamilies
<1>0. /\ token' \in [Tokens -> TokenState]
      /\ \A u \in Tokens :
           /\ u = a => token'[u].status = "ROTATED"
           /\ u # a => token'[u].status = token[u].status
           /\ u # b => token'[u].held = token[u].held
           /\ token'[u].family = token[u].family
  BY Exchanged
<1>1. token' \in [Tokens -> TokenState]
  BY <1>0
<1>2. ASSUME NEW u \in Tokens
      PROVE  /\ token'[u].family = token[u].family
             /\ u # b => token'[u].held = token[u].held
  BY <1>0
<1>3. ASSUME NEW u \in Tokens
      PROVE  u # a => token'[u].status = token[u].status
  BY <1>0
<1>4. token'[a].status = "ROTATED"
  BY <1>0
<1>5. token'[b].status # "NONE"
  BY <1>3, <1>4
<1> QED  BY <1>5, <1>1, <1>2, <1>3, <1>4 DEF TokensGo, TokensComeInFamilies

LEMMA TypesTokens ==
  ASSUME TypeOK, NEW r \in Requests,
         Issue(r) \/ Revoke(r) \/ Expire(r) \/ Create(r) \/ Rotate(r)
  PROVE  TypeOK'
<1>1. CASE Issue(r)
  <2>1. PICK t \in Tokens :
          /\ token[t].status = "NONE"
          /\ token' = [token EXCEPT ![t] =
                [status |-> "ACTIVE", family |-> t, expired |-> FALSE, held |-> TRUE]]
    BY <1>1 DEF Issue
  <2>2. token' \in [Tokens -> TokenState] /\ TokensGo /\ TokensComeInFamilies
    BY <2>1 DEF TypeOK, TokenState, TokensGo, TokensComeInFamilies
  <2> QED  BY <1>1, <2>2, OneRequestEnds, TablesGo, TypesGo DEF Issue, TypeOK, history
<1>2. CASE Revoke(r)
  <2>1. PICK rows \in SUBSET Tokens :
          (\A t \in rows : token[t].status # "NONE") /\ token' = Revoked(rows)
    BY <1>2 DEF Revoke, Family
  <2>2. token' \in [Tokens -> TokenState] /\ TokensGo /\ TokensComeInFamilies
    BY <2>1, RevokedRows
  <2> QED  BY <1>2, <2>2, OneRequestEnds, TablesGo, TypesGo DEF Revoke, TypeOK, history
<1>3. CASE Expire(r)
  <2>1. PICK rows \in SUBSET Tokens :
          (\A t \in rows : token[t].status # "NONE") /\ token' = Revoked(rows)
    BY <1>3 DEF Expire, At, TypeOK, Prepared
  <2>2. token' \in [Tokens -> TokenState] /\ TokensGo /\ TokensComeInFamilies
    BY <2>1, RevokedRows
  <2> QED  BY <1>3, <2>2, OneRequestEnds, TablesGo, TypesGo DEF Expire, TypeOK, history
<1>4. CASE Create(r)
  <2>1. PICK t \in Tokens :
          /\ token[t].status = "NONE"
          /\ token' = [token EXCEPT ![t] = [NoToken EXCEPT !.status = "ACTIVE",
                                              !.family = token[request[r].token].family]]
          /\ Become(r, [request[r] EXCEPT !.pc = "rotate", !.next = t])
    BY <1>4 DEF Create
  <2>2. /\ request[r].token \in Tokens /\ token[request[r].token].status # "NONE"
        /\ token[request[r].token].family \in Tokens
        /\ token[token[request[r].token].family].status # "NONE"
    BY <1>4 DEF Create, At, TypeOK, Prepared
  <2>3. [NoToken EXCEPT !.status = "ACTIVE", !.family = token[request[r].token].family]
          \in TokenState
    BY <2>2 DEF NoToken, TokenState
  <2>4. /\ token' \in [Tokens -> TokenState] /\ token'[t].status = "ACTIVE"
        /\ token'[t].family = token[request[r].token].family
        /\ \A u \in Tokens \ {t} : token'[u] = token[u]
    BY <2>1, <2>3 DEF TypeOK, NoToken
  <2>5. TokensGo /\ TokensComeInFamilies
    BY <2>1, <2>2, <2>4 DEF TokensGo, TokensComeInFamilies
  <2>10. PICK req : req = request[r]
    OBVIOUS
  <2>11. req \in RequestState
    BY <2>10 DEF TypeOK
  <2>6. PICK x : x = ToRotate(req, t)
    OBVIOUS
  <2>9. x \in RequestState /\ x.pc = "rotate" /\ x.next = t /\ x.token = request[r].token
    BY <2>1, <2>6, <2>10, <2>11, RotateNext
  <2>7. /\ request' \in [Requests -> RequestState]
        /\ request'[r].pc = "rotate" /\ request'[r].next = t
        /\ request'[r].token = request[r].token
        /\ \A q \in Requests \ {r} : request'[q] = request[q]
    <3>1. Become(r, x)
      BY <2>1, <2>6, <2>10 DEF ToRotate
    <3> QED  BY <2>9, <3>1, OneRequest
  <2>8. RequestsGo
    BY <2>2, <2>4, <2>5, <2>7, SMTT(30) DEF RequestsGo, Prepared, TokensGo
  <2> QED  BY <1>4, <2>4, <2>5, <2>7, <2>8, TypesGo DEF Create, TypeOK, LinksGo, history
<1>5. CASE Rotate(r)
  <2>1. /\ request[r].token \in Tokens /\ token[request[r].token].status # "NONE"
        /\ request[r].next \in Tokens /\ token[request[r].next].status # "NONE"
    BY <1>5 DEF Rotate, At, TypeOK, Prepared
  <2>2. token' \in [Tokens -> TokenState] /\ TokensGo /\ TokensComeInFamilies
    <3>1. PICK a, b : a = request[r].token /\ b = request[r].next
      OBVIOUS
    <3>2. /\ a \in Tokens /\ b \in Tokens /\ token[a].status # "NONE"
          /\ token[b].status # "NONE" /\ token \in [Tokens -> TokenState]
      BY <2>1, <3>1 DEF TypeOK
    <3>3. token' = Exchange(token, a, b)
      BY <1>5, <3>1 DEF Rotate, Exchange
    <3> QED  BY <3>2, <3>3, ExchangedTokens
  <2> QED  BY <1>5, <2>2, OneRequestEnds, TypesGo DEF Rotate, TypeOK, LinksGo, history
<1> QED  BY <1>1, <1>2, <1>3, <1>4, <1>5

\* A request that starts from Idle with a token or a link.
StartsWith(label, t, l) ==
  [pc |-> label, right |-> FALSE, seen |-> 0, token |-> t, next |-> None, link |-> l,
   links |-> {}, active |-> FALSE, wait |-> 0]

LEMMA Starting ==
  ASSUME NEW label, NEW t, NEW l
  PROVE  /\ [Idle EXCEPT !.token = t, !.pc = label] = StartsWith(label, t, None)
         /\ [Idle EXCEPT !.pc = label, !.token = t] = StartsWith(label, t, None)
         /\ [Idle EXCEPT !.pc = label, !.link = l] = StartsWith(label, None, l)
<1>1. PICK x : x = [Idle EXCEPT !.token = t, !.pc = label]
  OBVIOUS
<1>2. x = StartsWith(label, t, None)
  BY <1>1 DEF Idle, StartsWith
<1>3. PICK y : y = [Idle EXCEPT !.pc = label, !.token = t]
  OBVIOUS
<1>4. y = StartsWith(label, t, None)
  BY <1>3 DEF Idle, StartsWith
<1>5. PICK z : z = [Idle EXCEPT !.pc = label, !.link = l]
  OBVIOUS
<1>6. z = StartsWith(label, None, l)
  BY <1>5 DEF Idle, StartsWith
<1> QED  BY <1>1, <1>2, <1>3, <1>4, <1>5, <1>6, Zenon

LEMMA Started ==
  ASSUME NEW label \in {"ask", "revoke", "expire", "create", "logout", "use"},
         NEW t \in Tokens \cup {None}, NEW l \in Links \cup {None}
  PROVE  /\ StartsWith(label, t, l) \in RequestState
         /\ StartsWith(label, t, l).pc = label
         /\ StartsWith(label, t, l).token = t
         /\ StartsWith(label, t, l).link = l
<1>2. 0 \in 0..MaxWait /\ 0 \in 0..MaxAttempts
  BY SessionsAssumption
<1> QED  BY <1>2 DEF RequestState, StartsWith

LEMMA OneRequestStarts ==
  ASSUME TypeOK, NEW r \in Requests,
         NEW label \in {"ask", "revoke", "expire", "create", "logout", "use"},
         NEW t \in Tokens \cup {None}, NEW l \in Links \cup {None},
         label = "use" => l # None /\ link[l].type # "NONE",
         label # "use" => t # None /\ token[t].status # "NONE",
         TokensGo, LinksGo, Become(r, StartsWith(label, t, l))
  PROVE  /\ request' \in [Requests -> RequestState] /\ RequestsGo
         /\ request'[r].pc = label /\ request'[r].token = t
         /\ \A q \in Requests \ {r} : request'[q] = request[q]
<1>1. PICK req : req = StartsWith(label, t, l)
  OBVIOUS
<1>2. req \in RequestState /\ req.pc = label /\ req.token = t /\ req.link = l
  BY <1>1, Started
<1>3. /\ request' \in [Requests -> RequestState] /\ request'[r] = req
      /\ \A q \in Requests \ {r} : request'[q] = request[q]
  BY <1>1, <1>2, OneRequest
<1>4. Prepared(request[r])'
  <2>1. CASE label = "use"
    BY <1>2, <1>3, <2>1 DEF Prepared, LinksGo
  <2>2. CASE label # "use"
    <3>1. t \in Tokens /\ token'[t].status # "NONE"
      BY <2>2 DEF TokensGo
    <3>2. request'[r].pc \notin {"use", "rotate"} /\ request'[r].token = t
      BY <1>2, <1>3, <2>2
    <3> QED  BY <3>1, <3>2 DEF Prepared
  <2> QED  BY <2>1, <2>2
<1> QED  BY <1>2, <1>3, <1>4 DEF RequestsGo

LEMMA TypesRefresh ==
  ASSUME TypeOK, NEW r \in Requests, NEW t \in Tokens, Refresh(r, t)
  PROVE  TypeOK'
<1>1. Verdict(t) \in {"ask", "revoke", "expire", "create", "logout", "use"} /\ Verdict(t) # "use"
  BY DEF Verdict
<1>2. t \in Tokens \cup {None} /\ None \in Links \cup {None} /\ t # None
  BY SessionsAssumption
<1>3. token[t].status # "NONE"
  BY DEF Refresh, TypeOK
<1>4. token' = token /\ link' = link
  BY SMTT(30) DEF Refresh
<1>5. Become(r, StartsWith(Verdict(t), t, None))
  BY Starting DEF Refresh
<1>6. request' \in [Requests -> RequestState] /\ RequestsGo
  BY <1>1, <1>2, <1>3, <1>4, <1>5, TablesGo, OneRequestStarts
<1>7. forked' \subseteq Tokens
  BY <1>3 DEF Refresh, TypeOK
<1> QED  BY <1>4, <1>6, <1>7, TablesGo, TypesGo DEF Refresh, TypeOK

\* A request goes on with the token it has.
LEMMA GoesOn ==
  ASSUME TypeOK, NEW r \in Requests, NEW label \in {"lookup", "revoke"}, Goto(r, label),
         request[r].pc \in {"ask", "logout"}, token' = token, link' = link
  PROVE  request' \in [Requests -> RequestState] /\ RequestsGo
<1>1. PICK req : req = [request[r] EXCEPT !.pc = label]
  OBVIOUS
<1>2. req \in RequestState /\ req.pc = label /\ req.token = request[r].token
  BY <1>1, ZenonT(40) DEF TypeOK, RequestState
<1>3. /\ request' \in [Requests -> RequestState] /\ request'[r] = req
      /\ \A q \in Requests \ {r} : request'[q] = request[q]
  BY <1>1, <1>2, OneRequest DEF Goto
<1>4. request[r].token \in Tokens /\ token[request[r].token].status # "NONE"
  BY DEF TypeOK, Prepared
<1>5. Prepared(request[r])'
  BY <1>2, <1>3, <1>4 DEF Prepared
<1> QED  BY <1>3, <1>5 DEF RequestsGo

Answered(req, active) == [req EXCEPT !.pc = "store", !.active = active]

LEMMA AnswerGoesOn ==
  ASSUME TypeOK, NEW r \in Requests, NEW active \in BOOLEAN, request[r].pc = "lookup",
         Become(r, Answered(request[r], active)), token' = token, link' = link
  PROVE  request' \in [Requests -> RequestState] /\ RequestsGo
<1>1. PICK req : req = Answered(request[r], active)
  OBVIOUS
<1>2. req \in RequestState /\ req.pc = "store" /\ req.token = request[r].token
  BY <1>1, ZenonT(40) DEF Answered, TypeOK, RequestState
<1>3. /\ request' \in [Requests -> RequestState] /\ request'[r] = req
      /\ \A q \in Requests \ {r} : request'[q] = request[q]
  BY <1>1, <1>2, OneRequest
<1>4. request[r].token \in Tokens /\ token[request[r].token].status # "NONE"
  BY DEF TypeOK, Prepared
<1>5. Prepared(request[r])'
  BY <1>2, <1>3, <1>4 DEF Prepared
<1> QED  BY <1>3, <1>5 DEF RequestsGo

LEMMA TypesGuard ==
  ASSUME TypeOK, NEW r \in Requests,
         (\E t \in Tokens : Ask(r, t)) \/ Hit(r) \/ Miss(r) \/ Lookup(r) \/ Store(r) \/ Logout(r)
  PROVE  TypeOK'
<1>1. token' = token /\ link' = link /\ user' = user /\ challenge' = challenge
      /\ UNCHANGED history
  BY DEF Ask, Hit, Miss, Lookup, Store, Logout
<1>2. cache' \in CacheState
  <2>1. CASE Store(r)
    <3>1. request[r].active \in BOOLEAN /\ StatusTtl \in 0..StatusTtl
      BY SessionsAssumption DEF TypeOK, RequestState
    <3> QED  BY <2>1, <3>1 DEF Store, TypeOK, CacheState
  <2> QED  BY <2>1 DEF TypeOK, Ask, Hit, Miss, Lookup, Logout
<1>3. request' \in [Requests -> RequestState] /\ RequestsGo
  <2>1. ASSUME NEW t \in Tokens, Ask(r, t)
        PROVE  request' \in [Requests -> RequestState] /\ RequestsGo
    <3>1. Become(r, StartsWith("ask", t, None))
      BY <2>1, Starting DEF Ask
    <3>2. t \in Tokens \cup {None} /\ None \in Links \cup {None} /\ t # None
          /\ token[t].status # "NONE"
      BY <2>1, SessionsAssumption DEF Ask, TypeOK
    <3> QED  BY <1>1, <3>1, <3>2, TablesGo, OneRequestStarts, SMTT(30)
  <2>2. ASSUME NEW active \in BOOLEAN, Admit(r, active),
               request[r].pc \in {"ask", "store"}
        PROVE  request' \in [Requests -> RequestState] /\ RequestsGo
    <3>1. CASE active
      <4>1. /\ request[r].token \in Tokens /\ token[request[r].token].status # "NONE"
            /\ request[r].token # None
        BY <2>2, SessionsAssumption, SMTT(30) DEF TypeOK, Prepared
      <4>2. Become(r, StartsWith("logout", request[r].token, None))
        BY <2>2, <3>1, Starting DEF Admit
      <4> QED  BY <1>1, <4>1, <4>2, TablesGo, OneRequestStarts
    <3>2. CASE ~active
      BY <2>2, <3>2, OneRequestEnds DEF Admit
    <3> QED  BY <3>1, <3>2
  <2>3. CASE Hit(r)
    BY <2>2, <2>3 DEF Hit, At, TypeOK, CacheState
  <2>4. CASE Store(r)
    BY <2>2, <2>4 DEF Store, At, TypeOK, RequestState
  <2>5. ASSUME NEW label \in {"lookup", "revoke"}, Goto(r, label),
               request[r].pc \in {"ask", "logout"}
        PROVE  request' \in [Requests -> RequestState] /\ RequestsGo
    BY <1>1, <2>5, GoesOn
  <2>6. CASE Miss(r)
    BY <2>5, <2>6 DEF Miss, At
  <2>7. CASE Logout(r)
    BY <2>5, <2>7 DEF Logout, At
  <2>8. CASE Lookup(r)
    <3>1. Become(r, Answered(request[r], Active)) /\ request[r].pc = "lookup"
          /\ Active \in BOOLEAN
      BY <2>8 DEF Lookup, Answered, At, Active
    <3> QED  BY <1>1, <3>1, AnswerGoesOn
  <2> QED  BY <2>1, <2>3, <2>4, <2>6, <2>7, <2>8
<1> QED  BY <1>1, <1>2, <1>3, TablesGo, TypesGo DEF TypeOK, history

\* A link that is used stays in the table.
LEMMA ConsumedLink ==
  ASSUME TypeOK, NEW l \in Links, link[l].type # "NONE", Consume(l)
  PROVE  /\ link' \in [Links -> LinkState] /\ LinksGo
         /\ link'[l].consumed /\ link'[l].uses = link[l].uses + 1
         /\ \A m \in Links \ {l} : link'[m] = link[m]
<1>1. PICK row : row = Used(link[l])
  OBVIOUS
<1>2. link[l] \in LinkState /\ link[l].uses + 1 \in Nat
  BY DEF TypeOK, LinkState
<1>3. /\ row \in LinkState /\ row.type = link[l].type /\ row.consumed
      /\ row.uses = link[l].uses + 1
  <2>1. PICK n \in Nat : n = link[l].uses + 1
    BY <1>2
  <2>2. row = [link[l] EXCEPT !.consumed = TRUE, !.uses = n]
    BY <1>1, <2>1, Zenon DEF Used
  <2>3. row \in LinkState /\ row.type = link[l].type /\ row.consumed /\ row.uses = n
    BY <1>2, <2>2 DEF LinkState
  <2> QED  BY <2>1, <2>3
<1>4. link' = [link EXCEPT ![l] = row]
  BY <1>1 DEF Consume
<1> QED  BY <1>3, <1>4 DEF TypeOK, LinksGo

LEMMA TypesLinks ==
  ASSUME TypeOK, NEW r \in Requests,
         \/ RequestReset(r) \/ Send(r) \/ (\E l \in Links : Follow(r, l))
         \/ Reset(r) \/ VerifyEmail(r) \/ AcceptInvitation(r)
  PROVE  TypeOK'
<1>1. CASE RequestReset(r)
  <2>1. PICK unused \in SUBSET Links : Become(r, [Idle EXCEPT !.pc = "send", !.links = unused])
    BY <1>1 DEF RequestReset
  <2>2. PICK req : req = [Idle EXCEPT !.pc = "send", !.links = unused]
    OBVIOUS
  <2>3. req = [pc |-> "send", right |-> FALSE, seen |-> 0, token |-> None, next |-> None,
               link |-> None, links |-> unused, active |-> FALSE, wait |-> 0]
    BY <2>2 DEF Idle
  <2>4. 0 \in 0..MaxWait /\ 0 \in 0..MaxAttempts
    BY SessionsAssumption
  <2>5. req \in RequestState /\ req.pc = "send"
    BY <2>1, <2>3, <2>4 DEF RequestState
  <2>6. request' \in [Requests -> RequestState] /\ RequestsGo
    BY <2>1, <2>2, <2>5, OneRequestBecomes DEF Plain
  <2> QED  BY <1>1, <2>6, TablesGo, TypesGo DEF RequestReset, TypeOK, history
<1>2. CASE Send(r)
  <2>1. PICK m \in Links :
          /\ link[m].type = "NONE"
          /\ link' = [n \in Links |->
               IF n = m THEN NewLink("PASSWORD_RESET")
               ELSE IF n \in request[r].links THEN [link[n] EXCEPT !.consumed = TRUE]
               ELSE link[n]]
    BY <1>2 DEF Send
  <2>2. ASSUME NEW n \in Links
        PROVE  link'[n] \in LinkState /\ (link[n].type # "NONE" => link'[n].type # "NONE")
    <3>1. CASE n = m
      BY <2>1, <3>1 DEF NewLink, LinkState
    <3>2. CASE n # m /\ n \in request[r].links
      BY <2>1, <3>2 DEF TypeOK, LinkState
    <3>3. CASE n # m /\ n \notin request[r].links
      BY <2>1, <3>3 DEF TypeOK
    <3> QED  BY <3>1, <3>2, <3>3
  <2>3. link' = [n \in Links |-> link'[n]]
    BY <2>1
  <2>4. link' \in [Links -> LinkState] /\ LinksGo
    BY <2>2, <2>3 DEF LinksGo
  <2> QED  BY <1>2, <2>4, OneRequestEnds, TablesGo, TypesGo DEF Send, TypeOK, history
<1>3. ASSUME NEW l \in Links, Follow(r, l)
      PROVE  TypeOK'
  <2>1. Become(r, StartsWith("use", None, l)) /\ link[l].type # "NONE"
    BY <1>3, Starting DEF Follow
  <2>2. l # None /\ token' = token /\ link' = link
    BY <1>3, SessionsAssumption DEF Follow
  <2>3. request' \in [Requests -> RequestState] /\ RequestsGo
    BY <2>1, <2>2, TablesGo, OneRequestStarts
  <2> QED  BY <1>3, <2>3, TablesGo, TypesGo DEF Follow, TypeOK, history
<1>4. ASSUME NEW type, Uses(r, type)
      PROVE  request[r].link \in Links /\ link[request[r].link].type # "NONE"
  BY <1>4 DEF Uses, At, TypeOK, Prepared
<1>5. ASSUME NEW type, Uses(r, type), Consume(request[r].link)
      PROVE  link' \in [Links -> LinkState] /\ LinksGo
  BY <1>4, <1>5, ConsumedLink
<1>6. CASE Reset(r)
  <2>1. user' = [user EXCEPT !.failed = 0, !.locked = FALSE] /\ 0 \in 0..MaxAttempts
    BY <1>6, SessionsAssumption DEF Reset
  <2>2. user' \in UserState /\ tries' \in Nat
    BY <1>6, <2>1 DEF TypeOK, UserState, Reset
  <2>3. PICK rows \in SUBSET Tokens :
          (\A t \in rows : token[t].status # "NONE") /\ token' = Revoked(rows)
    BY <1>6 DEF Reset
  <2>4. token' \in [Tokens -> TokenState] /\ TokensGo /\ TokensComeInFamilies
    BY <2>3, RevokedRows
  <2>5. link' \in [Links -> LinkState] /\ LinksGo
    BY <1>5, <1>6 DEF Reset
  <2> QED  BY <1>6, <2>2, <2>4, <2>5, OneRequestEnds, TypesGo DEF Reset, TypeOK
<1>7. CASE VerifyEmail(r)
  <2>1. link' \in [Links -> LinkState] /\ LinksGo
    BY <1>5, <1>7 DEF VerifyEmail
  <2> QED  BY <1>7, <2>1, OneRequestEnds, TablesGo, TypesGo DEF VerifyEmail, TypeOK, history
<1>8. CASE AcceptInvitation(r)
  <2>1. link' \in [Links -> LinkState] /\ LinksGo
    BY <1>5, <1>8 DEF AcceptInvitation
  <2>2. user' \in UserState
    BY <1>8 DEF AcceptInvitation, TypeOK, UserState
  <2>3. PICK req : req = [Idle EXCEPT !.pc = "issue"]
    OBVIOUS
  <2>4. req \in RequestState /\ req.pc = "issue"
    BY <2>3, IdleIsARequest DEF Idle, RequestState
  <2>5. request' \in [Requests -> RequestState] /\ RequestsGo
    BY <1>8, <2>3, <2>4, OneRequestBecomes DEF AcceptInvitation, Plain
  <2> QED  BY <1>8, <2>1, <2>2, <2>5, TablesGo, TypesGo DEF AcceptInvitation, TypeOK, history
<1> QED  BY <1>1, <1>2, <1>3, <1>6, <1>7, <1>8

LEMMA TypesTime ==
  ASSUME TypeOK, Reactivate \/ Unlock \/ Lapse \/ Tick \/ Restart
  PROVE  TypeOK'
<1>1. CASE Reactivate \/ Unlock
  <2>1. user' \in UserState
    BY <1>1 DEF Reactivate, Unlock, TypeOK, UserState
  <2>2. request' \in [Requests -> RequestState] /\ RequestsGo
    BY <1>1 DEF Reactivate, Unlock, TypeOK, RequestsGo
  <2> QED  BY <1>1, <2>1, <2>2, TablesGo, TypesGo DEF Reactivate, Unlock, TypeOK, history
<1>2. CASE Lapse
  <2>1. request' \in [Requests -> RequestState] /\ RequestsGo
    BY <1>2 DEF Lapse, TypeOK, RequestsGo
  <2>2. token' \in [Tokens -> TokenState] /\ TokensGo /\ TokensComeInFamilies
    <3>1. ASSUME NEW t \in Tokens, token[t].status = "ACTIVE",
                 token' = [token EXCEPT ![t].expired = TRUE]
          PROVE  token' \in [Tokens -> TokenState] /\ TokensGo /\ TokensComeInFamilies
      <4>1. /\ token' \in [Tokens -> TokenState]
            /\ \A u \in Tokens : /\ token'[u].status = token[u].status
                                 /\ token'[u].family = token[u].family
                                 /\ token'[u].held = token[u].held
        BY <3>1 DEF TypeOK, TokenState
      <4> QED  BY <4>1 DEF TokensGo, TokensComeInFamilies
    <3> QED  BY <1>2, <3>1, TablesGo DEF Lapse
  <2>3. link' \in [Links -> LinkState] /\ LinksGo
    <3>1. ASSUME NEW l \in Links, link' = [link EXCEPT ![l].expired = TRUE]
          PROVE  link' \in [Links -> LinkState] /\ LinksGo
      <4>1. /\ link' \in [Links -> LinkState]
            /\ \A m \in Links : link'[m].type = link[m].type
        BY <3>1 DEF TypeOK, LinkState
      <4> QED  BY <4>1 DEF LinksGo
    <3> QED  BY <1>2, <3>1, TablesGo DEF Lapse
  <2> QED  BY <1>2, <2>1, <2>2, <2>3, TypesGo DEF Lapse, TypeOK, history
<1>3. CASE Tick
  <2>1. age' \in 0..(Horizon + 1)
    BY <1>3, SessionsAssumption DEF Tick, TypeOK, Horizon
  <2>2. cache' \in CacheState
    <3>1. cache.left \in 0..StatusTtl
      BY DEF TypeOK, CacheState
    <3>2. (IF cache.left = 0 THEN 0 ELSE cache.left - 1) \in 0..StatusTtl
      BY <3>1, SessionsAssumption
    <3>3. PICK n \in 0..StatusTtl : cache' = [cache EXCEPT !.left = n]
      BY <1>3, <3>2 DEF Tick
    <3> QED  BY <3>3 DEF TypeOK, CacheState
  <2>3. ASSUME NEW r \in Requests
        PROVE  /\ request'[r] \in RequestState
               /\ request'[r].pc = request[r].pc /\ request'[r].token = request[r].token
               /\ request'[r].next = request[r].next /\ request'[r].link = request[r].link
    <3>1. CASE At(r, "store")
      <4>1. request[r].wait + 1 \in 0..MaxWait
        BY <1>3, <3>1, SessionsAssumption DEF Tick, TypeOK, RequestState
      <4>2. request'[r] = [request[r] EXCEPT !.wait = request[r].wait + 1]
        BY <1>3, <3>1 DEF Tick
      <4> QED  BY <4>1, <4>2 DEF TypeOK, RequestState
    <3>2. CASE ~At(r, "store")
      BY <1>3, <3>2 DEF Tick, TypeOK
    <3> QED  BY <3>1, <3>2
  <2>4. request' = [r \in Requests |-> request'[r]]
    BY <1>3 DEF Tick
  <2>5. request' \in [Requests -> RequestState] /\ RequestsGo
    BY <2>3, <2>4 DEF RequestsGo
  <2> QED  BY <1>3, <2>1, <2>2, <2>5, TablesGo, TypesGo DEF Tick, TypeOK
<1>4. CASE Restart
  <2>1. cache' \in CacheState
    BY <1>4, SessionsAssumption DEF Restart, CacheState
  <2>2. request' \in [Requests -> RequestState] /\ RequestsGo
    BY <1>4, IdleIsARequest DEF Restart, RequestsGo, Prepared
  <2> QED  BY <1>4, <2>1, <2>2, TablesGo, TypesGo DEF Restart, TypeOK, history
<1> QED  BY <1>1, <1>2, <1>3, <1>4

LEMMA TypesEnds ==
  ASSUME TypeOK, NEW r \in Requests, Suspend(r) \/ RevokeAll(r) \/ Fail(r)
  PROVE  TypeOK'
<1>1. CASE Suspend(r)
  <2>1. user' \in UserState
    BY <1>1 DEF Suspend, TypeOK, UserState
  <2>2. age' \in 0..(Horizon + 1)
    BY <1>1, SessionsAssumption DEF Suspend, TypeOK, Horizon
  <2>3. PICK req : req = [Idle EXCEPT !.pc = "revoke_all"]
    OBVIOUS
  <2>4. req \in RequestState /\ req.pc = "revoke_all"
    BY <2>3, IdleIsARequest DEF Idle, RequestState
  <2>5. request' \in [Requests -> RequestState] /\ RequestsGo
    BY <1>1, <2>3, <2>4, OneRequestBecomes DEF Suspend, Plain
  <2> QED  BY <1>1, <2>1, <2>2, <2>5, TablesGo, TypesGo DEF Suspend, TypeOK
<1>2. CASE RevokeAll(r)
  <2>1. PICK rows \in SUBSET Tokens :
          (\A t \in rows : token[t].status # "NONE") /\ token' = Revoked(rows)
    BY <1>2 DEF RevokeAll
  <2>2. token' \in [Tokens -> TokenState] /\ TokensGo /\ TokensComeInFamilies
    BY <2>1, RevokedRows
  <2> QED  BY <1>2, <2>2, OneRequestEnds, TablesGo, TypesGo DEF RevokeAll, TypeOK, history
<1>3. CASE Fail(r)
  BY <1>3, OneRequestEnds, TablesGo, TypesGo DEF Fail, TypeOK, history
<1> QED  BY <1>1, <1>2, <1>3

LEMMA TypesNext == TypeOK /\ [Next]_vars => TypeOK'
<1> SUFFICES ASSUME TypeOK, [Next]_vars PROVE TypeOK'
  OBVIOUS
<1>1. CASE UNCHANGED vars
  BY <1>1 DEF vars, TypeOK, Prepared
<1>2. ASSUME NEW r \in Requests, NEW right \in BOOLEAN, Login(r, right)
      PROVE  TypeOK'
  BY <1>2, TypesLogin
<1>3. ASSUME NEW r \in Requests, NEW t \in Tokens, Refresh(r, t) \/ Ask(r, t)
      PROVE  TypeOK'
  BY <1>3, TypesRefresh, TypesGuard
<1>4. ASSUME NEW r \in Requests, NEW l \in Links, Follow(r, l)
      PROVE  TypeOK'
  BY <1>4, TypesLinks
<1>5. ASSUME NEW r \in Requests, VerifyMfa(r) \/ RequestReset(r) \/ Suspend(r) \/ Step(r)
      PROVE  TypeOK'
  <2>1. CASE VerifyMfa(r) \/ Refuse(r) \/ Accept(r)
    BY <2>1, TypesLogin
  <2>2. CASE Issue(r) \/ Revoke(r) \/ Expire(r) \/ Create(r) \/ Rotate(r)
    BY <2>2, TypesTokens
  <2>3. CASE Hit(r) \/ Miss(r) \/ Lookup(r) \/ Store(r) \/ Logout(r)
    BY <2>3, TypesGuard
  <2>4. CASE RequestReset(r) \/ Send(r) \/ Reset(r) \/ VerifyEmail(r) \/ AcceptInvitation(r)
    BY <2>4, TypesLinks
  <2>5. CASE Suspend(r) \/ RevokeAll(r) \/ Fail(r)
    BY <2>5, TypesEnds
  <2> QED  BY <1>5, <2>1, <2>2, <2>3, <2>4, <2>5 DEF Step
<1>6. CASE Reactivate \/ Unlock \/ Lapse \/ Tick \/ Restart
  BY <1>6, TypesTime
<1> QED  BY <1>1, <1>2, <1>3, <1>4, <1>5, <1>6 DEF Next

\* In every state the rows and the requests have their shapes, and what requests and clients
\* refer to exists.
THEOREM SessionsTypes == Spec => []TypeOK
BY TypesInit, TypesNext, PTL DEF Spec

-----------------------------------------------------------------------------
(* What a step does to a request.                                          *)

\* Statements from which a request neither exchanges a token, nor uses a link, nor is
\* admitted by the guard at the next one.
Inert == {"idle", "verify", "issue", "send", "revoke_all", "revoke", "expire", "ask", "lookup"}

Waits(q) ==
  /\ request'[q].pc = request[q].pc /\ request'[q].token = request[q].token
  /\ request'[q].next = request[q].next /\ request'[q].link = request[q].link
  /\ request'[q].active = request[q].active
  /\ Tick \/ request'[q].wait = request[q].wait

RequestMove(q) ==
  \/ Waits(q)
  \/ request'[q].pc \in Inert
  \/ \E t \in Tokens : Refresh(q, t) /\ request'[q].pc = "create" /\ request'[q].token = t
  \/ /\ Create(q) /\ request'[q].pc = "rotate" /\ request'[q].token = request[q].token
     /\ token[request'[q].next].status = "NONE"
     /\ token'[request'[q].next].family = token[request[q].token].family
  \/ \E l \in Links : Follow(q, l) /\ request'[q].pc = "use" /\ request'[q].link = l
  \/ Lookup(q) /\ request'[q].pc = "store" /\ request'[q].active = Active
  \/ (Hit(q) \/ Store(q)) /\ request'[q].pc = "logout"

LEMMA Becoming ==
  ASSUME TypeOK, NEW r \in Requests, NEW req, Become(r, req)
  PROVE  request'[r] = req /\ \A q \in Requests \ {r} : request'[q] = request[q]
BY DEF TypeOK, Become

LEMMA Ending ==
  ASSUME TypeOK, NEW r \in Requests, NEW q \in Requests, End(r)
  PROVE  RequestMove(q)
<1>1. CASE q = r
  BY <1>1, Becoming, IdleIsARequest DEF End, RequestMove, Inert
<1>2. CASE q # r
  BY <1>2, Becoming DEF End, RequestMove, Waits
<1> QED  BY <1>1, <1>2

LEMMA Moving ==
  ASSUME TypeOK, NEW r \in Requests, NEW q \in Requests, NEW req, Become(r, req),
         req.pc \in Inert
  PROVE  RequestMove(q)
<1>1. CASE q = r
  BY <1>1, Becoming DEF RequestMove
<1>2. CASE q # r
  BY <1>2, Becoming DEF RequestMove, Waits
<1> QED  BY <1>1, <1>2

LEMMA Going ==
  ASSUME TypeOK, NEW r \in Requests, NEW q \in Requests, NEW label \in Inert, Goto(r, label)
  PROVE  RequestMove(q)
<1>1. PICK req : req = [request[r] EXCEPT !.pc = label]
  OBVIOUS
<1>2. req.pc = label
  BY <1>1 DEF TypeOK, RequestState
<1> QED  BY <1>1, <1>2, Moving DEF Goto

LEMMA RequestsMove ==
  ASSUME TypeOK, [Next]_vars, NEW q \in Requests
  PROVE  RequestMove(q)
<1>1. CASE UNCHANGED vars \/ Reactivate \/ Unlock \/ Lapse
  BY <1>1 DEF vars, Reactivate, Unlock, Lapse, RequestMove, Waits
<1>2. CASE Tick
  <2>1. request'[q] = IF At(q, "store") THEN [request[q] EXCEPT !.wait = @ + 1] ELSE request[q]
    BY <1>2 DEF Tick
  <2> QED  BY <1>2, <2>1 DEF TypeOK, RequestState, RequestMove, Waits
<1>3. CASE Restart
  BY <1>3, IdleIsARequest DEF Restart, RequestMove, Inert
<1>4. ASSUME NEW r \in Requests, NEW right \in BOOLEAN, Login(r, right)
      PROVE  RequestMove(q)
  <2>1. PICK req : req = [Idle EXCEPT !.pc = "verify", !.right = right, !.seen = user.failed]
    OBVIOUS
  <2>2. req.pc = "verify"
    BY <2>1 DEF Idle
  <2> QED  BY <1>4, <2>1, <2>2, Moving DEF Login, Inert
<1>5. ASSUME NEW r \in Requests, NEW t \in Tokens, Refresh(r, t)
      PROVE  RequestMove(q)
  <2>1. Become(r, StartsWith(Verdict(t), t, None))
    BY <1>5, Starting DEF Refresh
  <2>2. PICK req : req = StartsWith(Verdict(t), t, None)
    OBVIOUS
  <2>3. req.pc = Verdict(t) /\ req.token = t
    BY <2>2 DEF StartsWith
  <2>4. CASE Verdict(t) = "create"
    <3>1. CASE q = r
      BY <1>5, <2>1, <2>2, <2>3, <2>4, <3>1, Becoming DEF RequestMove
    <3>2. CASE q # r
      BY <2>1, <3>2, Becoming DEF RequestMove, Waits
    <3> QED  BY <3>1, <3>2
  <2>5. CASE Verdict(t) # "create"
    <3>1. req.pc \in Inert
      BY <2>3, <2>5 DEF Verdict, Inert
    <3> QED  BY <2>1, <2>2, <3>1, Moving
  <2> QED  BY <2>4, <2>5
<1>6. ASSUME NEW r \in Requests, NEW t \in Tokens, Ask(r, t)
      PROVE  RequestMove(q)
  <2>1. PICK req : req = StartsWith("ask", t, None)
    OBVIOUS
  <2>2. Become(r, req) /\ req.pc = "ask"
    BY <1>6, <2>1, Starting DEF Ask, StartsWith
  <2> QED  BY <2>2, Moving DEF Inert
<1>7. ASSUME NEW r \in Requests, NEW l \in Links, Follow(r, l)
      PROVE  RequestMove(q)
  <2>1. PICK req : req = StartsWith("use", None, l)
    OBVIOUS
  <2>2. Become(r, req) /\ req.pc = "use" /\ req.link = l
    BY <1>7, <2>1, Starting DEF Follow, StartsWith
  <2>3. CASE q = r
    BY <1>7, <2>2, <2>3, Becoming DEF RequestMove
  <2>4. CASE q # r
    BY <2>2, <2>4, Becoming DEF RequestMove, Waits
  <2> QED  BY <2>3, <2>4
<1>8. ASSUME NEW r \in Requests, VerifyMfa(r) \/ AcceptInvitation(r)
      PROVE  RequestMove(q)
  <2>1. PICK req : req = [Idle EXCEPT !.pc = "issue"]
    OBVIOUS
  <2>2. req.pc = "issue"
    BY <2>1 DEF Idle
  <2> QED  BY <1>8, <2>1, <2>2, Moving DEF VerifyMfa, AcceptInvitation, Inert
<1>9. ASSUME NEW r \in Requests, RequestReset(r)
      PROVE  RequestMove(q)
  <2>1. PICK unused \in SUBSET Links : Become(r, [Idle EXCEPT !.pc = "send", !.links = unused])
    BY <1>9 DEF RequestReset
  <2>2. PICK req : req = [Idle EXCEPT !.pc = "send", !.links = unused]
    OBVIOUS
  <2>3. req.pc = "send"
    BY <2>2 DEF Idle
  <2> QED  BY <2>1, <2>2, <2>3, Moving DEF Inert
<1>10. ASSUME NEW r \in Requests, Suspend(r)
       PROVE  RequestMove(q)
  <2>1. PICK req : req = [Idle EXCEPT !.pc = "revoke_all"]
    OBVIOUS
  <2>2. req.pc = "revoke_all"
    BY <2>1 DEF Idle
  <2> QED  BY <1>10, <2>1, <2>2, Moving DEF Suspend, Inert
<1>11. ASSUME NEW r \in Requests, Create(r)
       PROVE  RequestMove(q)
  <2>1. PICK t \in Tokens :
          /\ token[t].status = "NONE"
          /\ token' = [token EXCEPT ![t] = [NoToken EXCEPT !.status = "ACTIVE",
                                              !.family = token[request[r].token].family]]
          /\ Become(r, ToRotate(request[r], t))
    BY <1>11 DEF Create, ToRotate
  <2>2. PICK req : req = ToRotate(request[r], t)
    OBVIOUS
  <2>3. req.pc = "rotate" /\ req.next = t /\ req.token = request[r].token
    BY <2>2 DEF ToRotate, TypeOK, RequestState
  <2>4. token'[t].family = token[request[r].token].family
    BY <2>1 DEF TypeOK, NoToken
  <2>5. CASE q = r
    <3>1. request'[q] = req
      BY <2>1, <2>2, <2>5, Becoming
    <3> QED  BY <1>11, <2>1, <2>3, <2>4, <2>5, <3>1 DEF RequestMove
  <2>6. CASE q # r
    BY <2>1, <2>6, Becoming DEF RequestMove, Waits
  <2> QED  BY <2>5, <2>6
<1>12. ASSUME NEW r \in Requests, Lookup(r)
       PROVE  RequestMove(q)
  <2>1. PICK req : req = Answered(request[r], Active)
    OBVIOUS
  <2>2. req.pc = "store" /\ req.active = Active
    BY <2>1 DEF Answered, TypeOK, RequestState
  <2>3. Become(r, req)
    BY <1>12, <2>1 DEF Lookup, Answered
  <2>4. CASE q = r
    BY <1>12, <2>2, <2>3, <2>4, Becoming DEF RequestMove
  <2>5. CASE q # r
    BY <2>3, <2>5, Becoming DEF RequestMove, Waits
  <2> QED  BY <2>4, <2>5
<1>13. ASSUME NEW r \in Requests, Hit(r) \/ Store(r)
       PROVE  RequestMove(q)
  <2>1. PICK active : Admit(r, active)
    BY <1>13 DEF Hit, Store
  <2>2. CASE active
    <3>1. PICK req : req = StartsWith("logout", request[r].token, None)
      BY SMTT(30)
    <3>0. req = [Idle EXCEPT !.pc = "logout", !.token = request[r].token]
      BY <3>1, Starting
    <3>5. req.pc = "logout"
      BY <3>1 DEF StartsWith
    <3>6. Become(r, req)
      BY <2>1, <2>2, <3>0 DEF Admit
    <3>2. Become(r, req) /\ req.pc = "logout"
      BY <3>5, <3>6
    <3>3. CASE q = r
      BY <1>13, <3>2, <3>3, Becoming DEF RequestMove
    <3>4. CASE q # r
      BY <3>2, <3>4, Becoming DEF RequestMove, Waits
    <3> QED  BY <3>3, <3>4
  <2>3. CASE ~active
    BY <2>1, <2>3, Ending DEF Admit
  <2> QED  BY <2>2, <2>3
<1>14. ASSUME NEW r \in Requests, Accept(r) \/ Miss(r) \/ Logout(r)
       PROVE  RequestMove(q)
  <2>1. CASE End(r)
    BY <2>1, Ending
  <2>2. ASSUME NEW label \in Inert, Goto(r, label)
        PROVE  RequestMove(q)
    BY <2>2, Going
  <2> QED  BY <1>14, <2>1, <2>2 DEF Accept, Miss, Logout, Inert
<1>15. ASSUME NEW r \in Requests,
              \/ Refuse(r) \/ Issue(r) \/ Revoke(r) \/ Expire(r) \/ Rotate(r) \/ Send(r)
              \/ Reset(r) \/ VerifyEmail(r) \/ RevokeAll(r) \/ Fail(r)
       PROVE  RequestMove(q)
  BY <1>15, Ending DEF Refuse, Issue, Revoke, Expire, Rotate, Send, Reset, VerifyEmail,
                       RevokeAll, Fail
<1> QED
  BY <1>1, <1>2, <1>3, <1>4, <1>5, <1>6, <1>7, <1>8, <1>9, <1>10, <1>11, <1>12, <1>13, <1>14,
     <1>15 DEF Next, Step

-----------------------------------------------------------------------------
(* Links work once.                                                        *)

Following(l) == {r \in Requests : At(r, "use") /\ request[r].link = l}

\* A link that can be followed was never used.
UnusedUntilConsumed == \A l \in Links : ~link[l].consumed => link[l].uses = 0

LinksInv == TypeOK /\ LinksWorkOnce /\ UnusedUntilConsumed

\* A link keeps its uses, and gets no follower once it is consumed, unless a follower
\* consumes it.
LinkMove(l) ==
  \/ link'[l].uses = link[l].uses /\ (link'[l].consumed \/ ~link[l].consumed)
  \/ link'[l].uses = 0
  \/ \E r \in Following(l) :
       link'[l].uses = link[l].uses + 1 /\ link'[l].consumed /\ r \notin Following(l)'

LEMMA Consuming ==
  ASSUME TypeOK, NEW r \in Requests, NEW type, Uses(r, type), Consume(request[r].link),
         NEW req, Become(r, req), req.pc # "use", NEW l \in Links
  PROVE  LinkMove(l)
<1>1. request[r].link \in Links /\ link[request[r].link].type # "NONE" /\ At(r, "use")
  BY DEF Uses, At, TypeOK, Prepared
<1>2. CASE l = request[r].link
  <2>1. r \in Following(l)
    BY <1>1, <1>2 DEF Following
  <2>2. request'[r] = req
    BY Becoming
  <2>3. r \notin Following(l)'
    BY <2>2 DEF Following, At
  <2>4. link'[l].consumed /\ link'[l].uses = link[l].uses + 1
    BY <1>1, <1>2, ConsumedLink
  <2> QED  BY <2>1, <2>3, <2>4 DEF LinkMove
<1>3. CASE l # request[r].link
  <2>1. link'[l] = link[l]
    BY <1>1, <1>3, ConsumedLink
  <2> QED  BY <2>1 DEF LinkMove
<1> QED  BY <1>2, <1>3

LEMMA LinksMove ==
  ASSUME TypeOK, [Next]_vars, NEW l \in Links
  PROVE  LinkMove(l)
<1>1. CASE link' = link
  BY <1>1 DEF LinkMove
<1>2. CASE Lapse /\ link' # link
  <2>1. PICK m \in Links : link' = [link EXCEPT ![m].expired = TRUE]
    BY <1>2 DEF Lapse
  <2>2. link'[l].uses = link[l].uses /\ link'[l].consumed = link[l].consumed
    BY <2>1 DEF TypeOK, LinkState
  <2> QED  BY <2>2 DEF LinkMove
<1>3. ASSUME NEW r \in Requests, Send(r)
      PROVE  LinkMove(l)
  <2>1. PICK m \in Links :
          link' = [n \in Links |->
               IF n = m THEN NewLink("PASSWORD_RESET")
               ELSE IF n \in request[r].links THEN [link[n] EXCEPT !.consumed = TRUE]
               ELSE link[n]]
    BY <1>3 DEF Send
  <2>2. CASE l = m
    BY <2>1, <2>2 DEF NewLink, LinkMove
  <2>3. CASE l # m /\ l \in request[r].links
    BY <2>1, <2>3 DEF TypeOK, LinkState, LinkMove
  <2>4. CASE l # m /\ l \notin request[r].links
    BY <2>1, <2>4 DEF LinkMove
  <2> QED  BY <2>2, <2>3, <2>4
<1>4. ASSUME NEW r \in Requests, Reset(r) \/ VerifyEmail(r)
      PROVE  LinkMove(l)
  <2>1. Become(r, Idle) /\ Idle.pc # "use" /\ Consume(request[r].link)
        /\ (Uses(r, "PASSWORD_RESET") \/ Uses(r, "EMAIL_VERIFICATION"))
    BY <1>4, IdleIsARequest DEF Reset, VerifyEmail, End
  <2> QED  BY <2>1, Consuming
<1>5. ASSUME NEW r \in Requests, AcceptInvitation(r)
      PROVE  LinkMove(l)
  <2>1. PICK req : req = [Idle EXCEPT !.pc = "issue"]
    OBVIOUS
  <2>2. req.pc # "use"
    BY <2>1 DEF Idle
  <2> QED  BY <1>5, <2>1, <2>2, Consuming DEF AcceptInvitation
<1>6. \/ link' = link \/ Lapse
      \/ \E r \in Requests : Send(r) \/ Reset(r) \/ VerifyEmail(r) \/ AcceptInvitation(r)
  BY DEF Next, Step, vars, Login, Refuse, Accept, VerifyMfa, Issue, Refresh, Revoke, Expire,
         Create, Rotate, Ask, Hit, Miss, Lookup, Store, Logout, RequestReset, Follow, Suspend,
         RevokeAll, Reactivate, Unlock, Tick, Fail, Restart
<1> QED  BY <1>1, <1>2, <1>3, <1>4, <1>5, <1>6

LEMMA Followers ==
  ASSUME TypeOK, [Next]_vars, NEW l \in Links, link[l].consumed
  PROVE  Following(l)' \subseteq Following(l)
<1> SUFFICES ASSUME NEW q \in Requests, request'[q].pc = "use", request'[q].link = l
             PROVE  q \in Following(l)
  BY DEF Following, At
<1>1. RequestMove(q)
  BY RequestsMove
<1>2. ASSUME NEW m \in Links, Follow(q, m), request'[q].link = m
      PROVE  FALSE
  BY <1>2 DEF Follow
<1> QED  BY <1>1, <1>2 DEF RequestMove, Waits, Inert, Following, At

LEMMA LinksInit == Init => LinksInv
<1> SUFFICES ASSUME Init PROVE LinksInv
  OBVIOUS
<1>1. UnusedUntilConsumed
  BY DEF Init, NewLink, UnusedUntilConsumed
<1>2. \A l \in Links : link[l].uses = 0
  BY DEF Init, NewLink
<1>3. ASSUME NEW l \in Links
      PROVE  link[l].uses + Cardinality(Following(l)) <= Cardinality(Requests)
  <2>1. Following(l) \subseteq Requests
    BY DEF Following
  <2> QED
    BY <1>2, <2>1, SessionsAssumption, FS_Subset, FS_CardinalityType
<1> QED  BY <1>1, <1>3, TypesInit DEF LinksInv, LinksWorkOnce, Following

LEMMA LinksNext == LinksInv /\ [Next]_vars => LinksInv'
<1> SUFFICES ASSUME LinksInv, [Next]_vars PROVE LinksInv'
  OBVIOUS
<1>1. TypeOK /\ TypeOK'
  BY TypesNext DEF LinksInv
<1>2. ASSUME NEW l \in Links
      PROVE  /\ link'[l].uses + Cardinality(Following(l)') <= Cardinality(Requests)
             /\ ~link'[l].consumed => link'[l].uses = 0
  <2>1. /\ IsFiniteSet(Following(l)) /\ IsFiniteSet(Following(l)')
        /\ Cardinality(Following(l)) \in Nat /\ Cardinality(Following(l)') \in Nat
        /\ Cardinality(Following(l)') <= Cardinality(Requests)
        /\ Cardinality(Requests) \in Nat
    <3>1. Following(l) \subseteq Requests /\ Following(l)' \subseteq Requests
      BY DEF Following
    <3> QED  BY <3>1, SessionsAssumption, FS_Subset, FS_CardinalityType
  <2>2. /\ link[l].uses + Cardinality(Following(l)) <= Cardinality(Requests)
        /\ ~link[l].consumed => link[l].uses = 0
    BY DEF LinksInv, LinksWorkOnce, UnusedUntilConsumed, Following
  <2>3. link[l].uses \in Nat
    BY <1>1 DEF TypeOK, LinkState
  <2>4. LinkMove(l)
    BY <1>1, LinksMove
  <2>5. CASE link'[l].uses = 0
    BY <2>1, <2>5
  <2>6. CASE link'[l].uses = link[l].uses /\ (link'[l].consumed \/ ~link[l].consumed)
    <3>1. CASE link[l].consumed
      <4>1. Cardinality(Following(l)') <= Cardinality(Following(l))
        BY <1>1, <2>1, <3>1, Followers, FS_Subset
      <4> QED  BY <2>1, <2>2, <2>3, <2>6, <3>1, <4>1
    <3>2. CASE ~link[l].consumed
      BY <2>1, <2>2, <2>5, <2>6, <3>2
    <3> QED  BY <3>1, <3>2
  <2>7. ASSUME NEW r \in Following(l), link'[l].uses = link[l].uses + 1, link'[l].consumed,
               r \notin Following(l)'
        PROVE  link'[l].uses + Cardinality(Following(l)') <= Cardinality(Requests)
    <3>1. Following(l)' \subseteq Following(l) \ {r}
      <4>1. ASSUME NEW q \in Requests, request'[q].pc = "use", request'[q].link = l
            PROVE  q \in Following(l)
        <5>1. RequestMove(q)
          BY <1>1, RequestsMove
        <5>2. ASSUME NEW m \in Links, Follow(q, m)
              PROVE  FALSE
          <6>1. link' = link
            BY <5>2 DEF Follow
          <6> QED  BY <2>3, <2>7, <6>1
        <5> QED  BY <4>1, <5>1, <5>2 DEF RequestMove, Waits, Inert, Following, At
      <4> QED  BY <2>7, <4>1 DEF Following, At
    <3>2. Cardinality(Following(l) \ {r}) = Cardinality(Following(l)) - 1
          /\ IsFiniteSet(Following(l) \ {r})
      BY <2>1, <2>7, FS_RemoveElement
    <3>3. Cardinality(Following(l)') <= Cardinality(Following(l)) - 1
      BY <3>1, <3>2, FS_Subset
    <3> QED  BY <2>1, <2>2, <2>3, <2>7, <3>3
  <2> QED  BY <2>4, <2>5, <2>6, <2>7 DEF LinkMove
<1> QED  BY <1>1, <1>2 DEF LinksInv, LinksWorkOnce, UnusedUntilConsumed, Following

\* However many requests follow a link at once, it changes the account at most once for each
\* request that was already serving it.
THEOREM LinksOnce == Spec => []LinksWorkOnce
<1>1. LinksInv => LinksWorkOnce
  BY DEF LinksInv
<1> QED  BY <1>1, LinksInit, LinksNext, PTL DEF Spec

-----------------------------------------------------------------------------
(* What a step does to a refresh token.                                    *)

Stays(t) ==
  /\ token'[t].status = token[t].status /\ token'[t].family = token[t].family
  /\ token'[t].held = token[t].held

IsRevoked(t) ==
  /\ token[t].status # "NONE" /\ token'[t].status = "REVOKED"
  /\ token'[t].family = token[t].family

IsRotatedBy(r, t) ==
  /\ token[t].status # "NONE" /\ token'[t].family = token[t].family
  /\ t = request[r].token => token'[t].status = "ROTATED"
  /\ t # request[r].token => token'[t].status = token[t].status
  /\ t # request[r].next => token'[t].held = token[t].held

TokenMove(t) ==
  \/ Stays(t)
  \/ IsRevoked(t)
  \/ \E r \in Requests : Issue(r) /\ token[t].status = "NONE" /\ token'[t].family = t
                         /\ token'[t].status = "ACTIVE"
  \/ \E r \in Requests : /\ Create(r) /\ token[t].status = "NONE" /\ token'[t].status = "ACTIVE"
                         /\ token'[t].family = token[request[r].token].family /\ ~token'[t].held
  \/ \E r \in Requests : Rotate(r) /\ IsRotatedBy(r, t)

LEMMA Revoking ==
  ASSUME TypeOK, NEW rows \in SUBSET Tokens, \A u \in rows : token[u].status # "NONE",
         token' = Revoked(rows), NEW t \in Tokens
  PROVE  TokenMove(t)
<1>1. CASE t \in rows
  <2>1. token'[t] = [token[t] EXCEPT !.status = "REVOKED"]
    BY <1>1 DEF Revoked
  <2>2. IsRevoked(t)
    BY <1>1, <2>1 DEF IsRevoked, TypeOK, TokenState
  <2> QED  BY <2>2 DEF TokenMove
<1>2. CASE t \notin rows
  BY <1>2 DEF Revoked, TokenMove, Stays
<1> QED  BY <1>1, <1>2

LEMMA TokensMove ==
  ASSUME TypeOK, [Next]_vars, NEW t \in Tokens
  PROVE  TokenMove(t)
<1>1. CASE token' = token
  BY <1>1 DEF TokenMove, Stays
<1>2. CASE Lapse /\ token' # token
  <2>1. PICK u \in Tokens : token' = [token EXCEPT ![u].expired = TRUE]
    BY <1>2 DEF Lapse
  <2>2. Stays(t)
    BY <2>1 DEF TypeOK, TokenState, Stays
  <2> QED  BY <2>2 DEF TokenMove
<1>3. ASSUME NEW r \in Requests, Issue(r)
      PROVE  TokenMove(t)
  <2>1. PICK u \in Tokens :
          /\ token[u].status = "NONE"
          /\ token' = [token EXCEPT ![u] =
                [status |-> "ACTIVE", family |-> u, expired |-> FALSE, held |-> TRUE]]
    BY <1>3 DEF Issue
  <2>2. CASE t = u
    BY <1>3, <2>1, <2>2 DEF TypeOK, TokenMove
  <2>3. CASE t # u
    BY <2>1, <2>3 DEF TokenMove, Stays
  <2> QED  BY <2>2, <2>3
<1>4. ASSUME NEW r \in Requests, Revoke(r) \/ Expire(r) \/ Reset(r) \/ RevokeAll(r)
      PROVE  TokenMove(t)
  <2>1. PICK rows \in SUBSET Tokens :
          (\A u \in rows : token[u].status # "NONE") /\ token' = Revoked(rows)
    BY <1>4 DEF Revoke, Expire, Reset, RevokeAll, Family, At, TypeOK, Prepared
  <2> QED  BY <2>1, Revoking
<1>5. ASSUME NEW r \in Requests, Create(r)
      PROVE  TokenMove(t)
  <2>1. PICK u \in Tokens :
          /\ token[u].status = "NONE"
          /\ token' = [token EXCEPT ![u] = [NoToken EXCEPT !.status = "ACTIVE",
                                              !.family = token[request[r].token].family]]
    BY <1>5 DEF Create
  <2>2. CASE t = u
    <3>1. token'[t] = [NoToken EXCEPT !.status = "ACTIVE",
                                      !.family = token[request[r].token].family]
      BY <2>1, <2>2 DEF TypeOK
    <3>2. /\ token'[t].status = "ACTIVE" /\ ~token'[t].held
          /\ token'[t].family = token[request[r].token].family
      BY <3>1 DEF NoToken
    <3> QED  BY <1>5, <2>1, <2>2, <3>2 DEF TokenMove
  <2>3. CASE t # u
    BY <2>1, <2>3 DEF TokenMove, Stays
  <2> QED  BY <2>2, <2>3
<1>6. ASSUME NEW r \in Requests, Rotate(r)
      PROVE  TokenMove(t)
  <2>1. PICK a, b : a = request[r].token /\ b = request[r].next
    OBVIOUS
  <2>2. /\ a \in Tokens /\ b \in Tokens /\ token[a].status # "NONE"
        /\ token[b].status # "NONE" /\ token \in [Tokens -> TokenState]
    BY <1>6, <2>1 DEF Rotate, At, TypeOK, Prepared
  <2>3. token' = Exchange(token, a, b)
    BY <1>6, <2>1 DEF Rotate, Exchange
  <2>4. /\ t = a => token'[t].status = "ROTATED"
        /\ t # a => token'[t].status = token[t].status
        /\ t # b => token'[t].held = token[t].held
        /\ token'[t].family = token[t].family
    <3>1. \A u \in Tokens :
            /\ u = a => token'[u].status = "ROTATED"
            /\ u # a => token'[u].status = token[u].status
            /\ u # b => token'[u].held = token[u].held
            /\ token'[u].family = token[u].family
      BY <2>2, <2>3, Exchanged
    <3> QED  BY <3>1
  <2>5. CASE token[t].status = "NONE"
    BY <2>2, <2>4, <2>5 DEF TokenMove, Stays
  <2>6. CASE token[t].status # "NONE"
    BY <1>6, <2>1, <2>4, <2>6 DEF TokenMove, IsRotatedBy
  <2> QED  BY <2>5, <2>6
<1>7. \/ token' = token \/ Lapse
      \/ \E r \in Requests :
           \/ Issue(r) \/ Revoke(r) \/ Expire(r) \/ Create(r) \/ Rotate(r) \/ Reset(r)
           \/ RevokeAll(r)
  BY DEF Next, Step, vars, Login, Refuse, Accept, VerifyMfa, Refresh, Ask, Hit, Miss, Lookup,
         Store, Logout, RequestReset, Send, Follow, VerifyEmail, AcceptInvitation, Suspend,
         Reactivate, Unlock, Tick, Fail, Restart
<1> QED  BY <1>1, <1>2, <1>3, <1>4, <1>5, <1>6, <1>7

\* A token stays in its family.
LEMMA FamiliesStay ==
  ASSUME TypeOK, [Next]_vars, NEW t \in Tokens, token[t].status # "NONE"
  PROVE  token'[t].status # "NONE" /\ token'[t].family = token[t].family
<1>1. TokenMove(t)
  BY TokensMove
<1> QED  BY <1>1 DEF TokenMove, Stays, IsRevoked, IsRotatedBy

-----------------------------------------------------------------------------
(* Ended sessions stay ended.                                              *)

LEMMA EndedNext ==
  ASSUME TypeOK, [Next]_vars, NEW f \in Tokens, Ended(f)
  PROVE  Ended(f)'
<1>1. Family(f)' # {}
  BY FamiliesStay DEF Ended, Family
<1>2. token[f].status # "NONE"
  BY DEF Ended, Family, TypeOK
<1>3. ASSUME NEW t \in Tokens, token'[t].status = "ACTIVE", token'[t].family = f
      PROVE  FALSE
  <2>1. TokenMove(t)
    BY TokensMove
  <2>2. ~Stays(t) /\ ~IsRevoked(t)
    BY <1>3 DEF Stays, IsRevoked, Ended, Family
  <2>3. ASSUME NEW r \in Requests, Create(r),
               token'[t].family = token[request[r].token].family
        PROVE  FALSE
    BY <1>3, <2>3 DEF Create, Ended
  <2>4. ASSUME NEW r \in Requests, IsRotatedBy(r, t)
        PROVE  FALSE
    BY <1>3, <2>4 DEF IsRotatedBy, Ended, Family
  <2> QED  BY <1>2, <1>3, <2>1, <2>2, <2>3, <2>4 DEF TokenMove
<1>4. ASSUME NEW q \in Requests, request'[q].pc = "create"
      PROVE  token'[request'[q].token].family # f
  <2>1. RequestMove(q)
    BY RequestsMove
  <2>2. CASE Waits(q)
    <3>1. /\ request'[q].token = request[q].token /\ request[q].pc = "create"
          /\ request[q].token \in Tokens /\ token[request[q].token].status # "NONE"
      BY <1>4, <2>2 DEF Waits, TypeOK, Prepared
    <3>2. token'[request[q].token].family = token[request[q].token].family
      BY <3>1, FamiliesStay
    <3> QED  BY <3>1, <3>2 DEF Ended, At
  <2>3. ASSUME NEW t \in Tokens, Refresh(q, t), request'[q].token = t
        PROVE  token'[request'[q].token].family # f
    <3>1. token' = token
      BY <2>3, SMTT(30) DEF Refresh
    <3>2. Become(q, StartsWith(Verdict(t), t, None))
      BY <2>3, Starting DEF Refresh
    <3>3. request'[q].pc = Verdict(t)
      BY <3>2, Becoming DEF StartsWith
    <3>4. token[t].status = "ACTIVE"
      BY <1>4, <3>3 DEF Verdict
    <3> QED  BY <2>3, <3>1, <3>4 DEF Ended, Family
  <2> QED  BY <1>4, <2>1, <2>2, <2>3 DEF RequestMove, Inert
<1> QED  BY <1>1, <1>3, <1>4 DEF Ended, Family, At

\* A session that was ended, and that no refresh had already checked, has no live token
\* again, whatever arrives later.
THEOREM EndedStay == Spec => EndedSessionsStayEnded
<1>1. TypeOK /\ [Next]_vars => [\A f \in Tokens : Ended(f) => Ended(f)']_vars
  BY EndedNext
<1> QED  BY <1>1, SessionsTypes, PTL DEF Spec, EndedSessionsStayEnded

-----------------------------------------------------------------------------
(* One client holds a family.                                              *)

Exchangers(f) ==
  {r \in Requests : request[r].pc \in {"create", "rotate"} /\ token[request[r].token].family = f}

\* A family is one chain: one live token held, or the one token that is being exchanged.
OneChain(f) ==
  /\ \A r, q \in Exchangers(f) : r = q
  /\ \A r \in Exchangers(f), t \in Holders(f) : t = request[r].token
  /\ \A t, u \in Holders(f) : t = u

SuccessorsStay ==
  \A r \in Requests : request[r].pc = "rotate" =>
    token[request[r].next].family = token[request[r].token].family

ChainsInv == TypeOK /\ SuccessorsStay /\ \A f \in Tokens : f \notin forked => OneChain(f)

LEMMA ForkedGrows ==
  ASSUME TypeOK, [Next]_vars
  PROVE  forked \subseteq forked'
<1>1. ASSUME NEW r \in Requests, NEW t \in Tokens, Refresh(r, t)
      PROVE  forked \subseteq forked'
  BY <1>1, SMTT(30) DEF Refresh
<1>2. forked' = forked \/ \E r \in Requests, t \in Tokens : Refresh(r, t)
  BY DEF Next, Step, vars, history, Login, Refuse, Accept, VerifyMfa, Ask, Hit, Miss, Lookup,
         Store, Logout, RequestReset, Send, Follow, VerifyEmail, AcceptInvitation, Suspend,
         Reactivate, Unlock, Tick, Fail, Restart, Issue, Revoke, Expire, Create, Rotate, Reset,
         RevokeAll, Lapse
<1> QED  BY <1>1, <1>2

LEMMA SuccessorsNext ==
  ASSUME TypeOK, SuccessorsStay, [Next]_vars
  PROVE  SuccessorsStay'
<1> SUFFICES ASSUME NEW q \in Requests, request'[q].pc = "rotate"
             PROVE  token'[request'[q].next].family = token'[request'[q].token].family
  BY DEF SuccessorsStay
<1>1. RequestMove(q)
  BY RequestsMove
<1>2. CASE Waits(q)
  <2>1. /\ request'[q].next = request[q].next /\ request'[q].token = request[q].token
        /\ request[q].next \in Tokens /\ request[q].token \in Tokens
        /\ token[request[q].next].status # "NONE" /\ token[request[q].token].status # "NONE"
        /\ token[request[q].next].family = token[request[q].token].family
    BY <1>2 DEF Waits, TypeOK, Prepared, SuccessorsStay
  <2> QED  BY <2>1, FamiliesStay
<1>3. CASE /\ Create(q) /\ request'[q].token = request[q].token
           /\ token'[request'[q].next].family = token[request[q].token].family
  <2>1. request[q].token \in Tokens /\ token[request[q].token].status # "NONE"
    BY <1>3 DEF Create, At, TypeOK, Prepared
  <2> QED  BY <1>3, <2>1, FamiliesStay
<1> QED  BY <1>1, <1>2, <1>3 DEF RequestMove, Inert

\* An exchanger after a step that is neither a refresh nor the end of an exchange was one.
LEMMA ExchangersGo ==
  ASSUME TypeOK, [Next]_vars, NEW f \in Tokens, NEW q \in Exchangers(f)',
         \A t \in Tokens : ~Refresh(q, t)
  PROVE  q \in Exchangers(f) /\ request'[q].token = request[q].token
<1>1. q \in Requests /\ request'[q].pc \in {"create", "rotate"}
      /\ token'[request'[q].token].family = f
  BY DEF Exchangers
<1>2. RequestMove(q)
  BY <1>1, RequestsMove
<1>3. request[q].pc \in {"create", "rotate"} /\ request'[q].token = request[q].token
  BY <1>1, <1>2 DEF RequestMove, Waits, Inert, Create, At
<1>4. request[q].token \in Tokens /\ token[request[q].token].status # "NONE"
  BY <1>1, <1>3 DEF TypeOK, Prepared
<1>5. token[request[q].token].family = f
  BY <1>1, <1>3, <1>4, FamiliesStay
<1> QED  BY <1>1, <1>3, <1>5 DEF Exchangers

\* Nor does another step than these, or a login, make a holder.
LEMMA HoldersGo ==
  ASSUME TypeOK, [Next]_vars, NEW f \in Tokens, NEW t \in Holders(f)',
         \A r \in Requests : ~Issue(r) /\ ~Rotate(r)
  PROVE  t \in Holders(f)
<1>1. t \in Tokens /\ token'[t].status = "ACTIVE" /\ token'[t].held /\ token'[t].family = f
  BY DEF Holders, Family
<1>2. TokenMove(t)
  BY <1>1, TokensMove
<1> QED  BY <1>1, <1>2 DEF TokenMove, Stays, IsRevoked, Holders, Family

LEMMA ChainAfterRefresh ==
  ASSUME TypeOK, [Next]_vars, NEW f \in Tokens, OneChain(f), f \notin forked',
         NEW r \in Requests, NEW t \in Tokens, Refresh(r, t)
  PROVE  OneChain(f)'
<1>1. token' = token /\ token[t].held
  BY DEF Refresh
<1>2. Holders(f)' = Holders(f)
  BY <1>1 DEF Holders, Family
<1>3. /\ request'[r].pc = Verdict(t) /\ request'[r].token = t
      /\ \A q \in Requests \ {r} : request'[q] = request[q]
  <2>1. PICK req : req = StartsWith(Verdict(t), t, None)
    OBVIOUS
  <2>2. Become(r, req) /\ req.pc = Verdict(t) /\ req.token = t
    BY <2>1, Starting DEF Refresh, StartsWith
  <2> QED  BY <2>2, Becoming
<1>4. ASSUME NEW q \in Exchangers(f)', q # r
      PROVE  q \in Exchangers(f) /\ request'[q].token = request[q].token
  BY <1>1, <1>3, <1>4 DEF Exchangers
<1>5. CASE r \notin Exchangers(f)'
  BY <1>2, <1>4, <1>5 DEF OneChain
<1>6. CASE r \in Exchangers(f)'
  <2>1. Verdict(t) \in {"create", "rotate"} /\ token[t].family = f
    BY <1>1, <1>3, <1>6 DEF Exchangers
  <2>2. token[t].status = "ACTIVE"
    BY <2>1 DEF Verdict
  <2>3. t \in Holders(f)
    BY <1>1, <2>1, <2>2 DEF Holders, Family
  <2>4. Exchanging(t) = {}
    BY <2>1 DEF Refresh
  <2>5. Exchangers(f) = {}
    <3>1. ASSUME NEW q \in Exchangers(f)
          PROVE  FALSE
      BY <2>3, <2>4 DEF OneChain, Exchangers, Exchanging
    <3> QED  BY <3>1
  <2>6. \A q \in Exchangers(f)' : q = r
    BY <1>4, <2>5
  <2> QED  BY <1>2, <1>3, <2>3, <2>6 DEF OneChain
<1> QED  BY <1>5, <1>6

LEMMA ChainAfterRotation ==
  ASSUME TypeOK, SuccessorsStay, [Next]_vars, NEW f \in Tokens, OneChain(f),
         NEW r \in Requests, Rotate(r)
  PROVE  OneChain(f)'
<1>1. request'[r] = Idle /\ \A q \in Requests \ {r} : request'[q] = request[q]
  BY Becoming DEF Rotate, End
<1>2. PICK a, b : a = request[r].token /\ b = request[r].next
  OBVIOUS
<1>3. /\ a \in Tokens /\ b \in Tokens /\ token[a].status # "NONE" /\ token[b].status # "NONE"
      /\ token[b].family = token[a].family /\ request[r].pc = "rotate"
  BY <1>2 DEF Rotate, At, TypeOK, Prepared, SuccessorsStay
<1>4. token' = Exchange(token, a, b)
  BY <1>2 DEF Rotate, Exchange
<1>a. token \in [Tokens -> TokenState]
  BY DEF TypeOK
<1>b. \A t \in Tokens :
        /\ t = a => token'[t].status = "ROTATED"
        /\ t # a => token'[t].status = token[t].status
        /\ t # b => token'[t].held = token[t].held
        /\ token'[t].family = token[t].family
  BY <1>3, <1>4, <1>a, Exchanged
<1>5. ASSUME NEW t \in Tokens
      PROVE  token'[t].family = token[t].family /\ (t # b => token'[t].held = token[t].held)
  BY <1>b
<1>6. ASSUME NEW t \in Tokens
      PROVE  /\ t = a => token'[t].status = "ROTATED"
             /\ t # a => token'[t].status = token[t].status
  BY <1>b
<1>7. ASSUME NEW q \in Exchangers(f)'
      PROVE  q # r /\ q \in Exchangers(f) /\ request'[q].token = request[q].token
  <2>1. q \in Requests /\ request'[q].pc \in {"create", "rotate"}
        /\ token'[request'[q].token].family = f
    BY DEF Exchangers
  <2>2. q # r
    BY <1>1, <2>1, IdleIsARequest
  <2>3. request'[q] = request[q] /\ request[q].token \in Tokens
    BY <1>1, <2>1, <2>2 DEF TypeOK, Prepared
  <2>4. token[request[q].token].family = f
    BY <1>5, <2>1, <2>3
  <2> QED  BY <2>1, <2>2, <2>3, <2>4 DEF Exchangers
<1>8. ASSUME NEW t \in Holders(f)'
      PROVE  t \in Tokens /\ t # a /\ (t = b \/ t \in Holders(f)) /\ token[t].family = f
  <2>1. t \in Tokens /\ token'[t].status = "ACTIVE" /\ token'[t].held /\ token'[t].family = f
    BY DEF Holders, Family
  <2>2. t # a /\ token[t].status = "ACTIVE" /\ token[t].family = f
    BY <1>5, <1>6, <2>1
  <2>3. t # b => token[t].held
    BY <1>5, <2>1
  <2> QED  BY <2>1, <2>2, <2>3 DEF Holders, Family
<1>9. CASE token[a].family = f
  <2>1. r \in Exchangers(f)
    BY <1>2, <1>3, <1>9 DEF Exchangers
  <2>2. Exchangers(f)' = {}
    BY <1>7, <2>1 DEF OneChain
  <2>3. \A t \in Holders(f)' : t = b
    BY <1>2, <1>8, <2>1 DEF OneChain
  <2> QED  BY <2>2, <2>3 DEF OneChain
<1>10. CASE token[a].family # f
  <2>1. \A t \in Holders(f)' : t \in Holders(f)
    BY <1>3, <1>8, <1>10
  <2> QED  BY <1>7, <2>1 DEF OneChain
<1> QED  BY <1>9, <1>10

LEMMA ChainAfterLogin ==
  ASSUME TypeOK, [Next]_vars, NEW f \in Tokens, OneChain(f), NEW r \in Requests, Issue(r)
  PROVE  OneChain(f)'
<1>1. PICK u \in Tokens :
        /\ token[u].status = "NONE"
        /\ token' = [token EXCEPT ![u] =
              [status |-> "ACTIVE", family |-> u, expired |-> FALSE, held |-> TRUE]]
  BY DEF Issue
<1>2. /\ token'[u].family = u
      /\ \A t \in Tokens \ {u} : token'[t] = token[t]
  BY <1>1 DEF TypeOK
<1>3. request'[r] = Idle /\ \A q \in Requests \ {r} : request'[q] = request[q]
  BY Becoming DEF Issue, End
<1>4. ASSUME NEW q \in Exchangers(f)'
      PROVE  q \in Exchangers(f) /\ request'[q].token = request[q].token /\ f # u
  <2>1. q \in Requests /\ request'[q].pc \in {"create", "rotate"}
        /\ token'[request'[q].token].family = f
    BY DEF Exchangers
  <2>2. request'[q] = request[q]
    BY <1>3, <2>1, IdleIsARequest
  <2>3. /\ request[q].token \in Tokens /\ token[request[q].token].status # "NONE"
        /\ token[token[request[q].token].family].status # "NONE"
    BY <2>1, <2>2 DEF TypeOK, Prepared
  <2>4. token[request[q].token].family = f
    BY <1>1, <1>2, <2>1, <2>2, <2>3
  <2> QED  BY <1>1, <2>1, <2>2, <2>3, <2>4 DEF Exchangers
<1>5. ASSUME NEW t \in Holders(f)', t # u
      PROVE  t \in Holders(f) /\ f # u
  <2>1. t \in Tokens /\ token'[t] = token[t]
    BY <1>2, <1>5 DEF Holders, Family
  <2>2. t \in Holders(f) /\ token[t].status # "NONE" /\ token[t].family = f
    BY <2>1 DEF Holders, Family
  <2>3. token[f].status # "NONE"
    BY <2>1, <2>2 DEF TypeOK
  <2> QED  BY <1>1, <2>2, <2>3
<1>6. u \in Holders(f)' => f = u
  BY <1>2 DEF Holders, Family
<1>7. CASE f = u
  BY <1>4, <1>5, <1>7 DEF OneChain
<1>8. CASE f # u
  BY <1>4, <1>5, <1>6, <1>8 DEF OneChain
<1> QED  BY <1>7, <1>8

LEMMA ChainsInit == Init => ChainsInv
<1> SUFFICES ASSUME Init PROVE ChainsInv
  OBVIOUS
<1>1. \A r \in Requests : request[r].pc = "idle"
  BY IdleIsARequest DEF Init
<1>2. \A t \in Tokens : token[t].status = "NONE"
  BY DEF Init, NoToken
<1>3. \A f \in Tokens : Exchangers(f) = {} /\ Holders(f) = {}
  BY <1>1, <1>2 DEF Exchangers, Holders, Family
<1> QED  BY <1>1, <1>3, TypesInit DEF ChainsInv, SuccessorsStay, OneChain

LEMMA ChainsNext == ChainsInv /\ [Next]_vars => ChainsInv'
<1> SUFFICES ASSUME ChainsInv, [Next]_vars PROVE ChainsInv'
  OBVIOUS
<1>1. TypeOK /\ SuccessorsStay /\ TypeOK' /\ SuccessorsStay'
  BY TypesNext, SuccessorsNext DEF ChainsInv
<1>2. ASSUME NEW f \in Tokens, f \notin forked'
      PROVE  OneChain(f)'
  <2>1. OneChain(f)
    BY <1>1, <1>2, ForkedGrows DEF ChainsInv
  <2>2. CASE \E r \in Requests, t \in Tokens : Refresh(r, t)
    BY <1>1, <1>2, <2>1, <2>2, ChainAfterRefresh
  <2>3. CASE \E r \in Requests : Rotate(r)
    BY <1>1, <2>1, <2>3, ChainAfterRotation
  <2>4. CASE \E r \in Requests : Issue(r)
    BY <1>1, <2>1, <2>4, ChainAfterLogin
  <2>5. CASE /\ \A r \in Requests, t \in Tokens : ~Refresh(r, t)
             /\ \A r \in Requests : ~Issue(r) /\ ~Rotate(r)
    <3>1. ASSUME NEW q \in Exchangers(f)'
          PROVE  q \in Exchangers(f) /\ request'[q].token = request[q].token
      <4>1. q \in Requests
        BY DEF Exchangers
      <4> QED  BY <1>1, <2>5, <4>1, ExchangersGo
    <3>2. ASSUME NEW t \in Holders(f)'
          PROVE  t \in Holders(f)
      BY <1>1, <2>5, HoldersGo
    <3> QED  BY <2>1, <3>1, <3>2 DEF OneChain
  <2> QED  BY <2>2, <2>3, <2>4, <2>5
<1> QED  BY <1>1, <1>2 DEF ChainsInv

\* Two clients never hold live tokens of one session, unless two refreshes of one token
\* overlapped.
THEOREM OneHolder == Spec => []OneHolderUnlessOverlap
<1>1. ChainsInv => OneHolderUnlessOverlap
  <2> SUFFICES ASSUME ChainsInv, NEW f \in Tokens, f \notin forked
               PROVE  ~(Cardinality(Holders(f)) > 1)
    BY DEF OneHolderUnlessOverlap
  <2>1. \A t, u \in Holders(f) : t = u
    BY DEF ChainsInv, OneChain
  <2>2. CASE Holders(f) = {}
    BY <2>2, FS_EmptySet
  <2>3. ASSUME NEW t \in Holders(f)
        PROVE  ~(Cardinality(Holders(f)) > 1)
    <3>1. Holders(f) = {t}
      BY <2>1, <2>3
    <3> QED  BY <3>1, FS_Singleton
  <2> QED  BY <2>2, <2>3
<1> QED  BY <1>1, ChainsInit, ChainsNext, PTL DEF Spec

-----------------------------------------------------------------------------
(* A suspension is seen in time.                                           *)

\* An answer of the guard, kept or on its way, that lets the account in is not older than
\* the suspension by more than what is left of its time allows.
CacheIsRecent ==
  cache.left > 0 /\ cache.active =>
    /\ user.status = "ACTIVE"
    /\ user.enterprise = "SUSPENDED" => age + cache.left <= Horizon

AnswersAreRecent ==
  \A r \in Requests : At(r, "store") /\ request[r].active =>
    /\ user.status = "ACTIVE"
    /\ user.enterprise = "SUSPENDED" => age <= request[r].wait

GuardInv == TypeOK /\ CacheIsRecent /\ AnswersAreRecent

LEMMA GuardInit == Init => GuardInv
<1> SUFFICES ASSUME Init PROVE GuardInv
  OBVIOUS
<1>1. CacheIsRecent
  BY DEF Init, CacheIsRecent
<1>2. AnswersAreRecent
  BY IdleIsARequest DEF Init, AnswersAreRecent, At
<1> QED  BY <1>1, <1>2, TypesInit DEF GuardInv

\* What a step that neither suspends nor lets time pass does to the account.
AccountStays ==
  /\ age' = age
  /\ user.status = "ACTIVE" => user'.status = "ACTIVE"
  /\ user'.enterprise = "SUSPENDED" => user.enterprise = "SUSPENDED"

LEMMA AccountMoves ==
  ASSUME TypeOK, [Next]_vars, ~Tick, \A r \in Requests : ~Suspend(r)
  PROVE  AccountStays
<1>1. ASSUME NEW r \in Requests, Refuse(r)
      PROVE  AccountStays
  <2>1. PICK count :
          user' = [user EXCEPT !.failed = count, !.locked = count = MaxAttempts]
    BY <1>1 DEF Refuse
  <2>2. user'.status = user.status /\ user'.enterprise = user.enterprise
    BY <2>1 DEF TypeOK, UserState
  <2> QED  BY <1>1, <2>2 DEF AccountStays, Refuse
<1>2. ASSUME NEW r \in Requests, Accept(r) \/ Reset(r) \/ AcceptInvitation(r)
      PROVE  AccountStays
  <2>1. age' = age
    BY <1>2 DEF Accept, Reset, AcceptInvitation, history
  <2>2. \/ user' = [user EXCEPT !.failed = 0, !.locked = FALSE]
        \/ user' = [user EXCEPT !.status = "ACTIVE"]
    BY <1>2 DEF Accept, Reset, AcceptInvitation
  <2>3. user'.enterprise = user.enterprise /\ user'.status \in {user.status, "ACTIVE"}
    BY <2>2 DEF TypeOK, UserState
  <2> QED  BY <2>1, <2>3 DEF AccountStays
<1>3. CASE Reactivate \/ Unlock
  BY <1>3 DEF AccountStays, Reactivate, Unlock, history, TypeOK, UserState
<1>4. CASE user' = user /\ age' = age
  BY <1>4 DEF AccountStays
<1>5. \/ user' = user /\ age' = age
      \/ Reactivate \/ Unlock
      \/ \E r \in Requests : Refuse(r) \/ Accept(r) \/ Reset(r) \/ AcceptInvitation(r)
  BY ZenonT(40) DEF Next, Step, vars, history, Login, VerifyMfa, Ask, Hit, Miss, Lookup, Store,
         Logout,
         RequestReset, Send, Follow, VerifyEmail, Fail, Restart, Issue, Refresh, Revoke, Expire,
         Create, Rotate, RevokeAll, Lapse
<1> QED  BY <1>1, <1>2, <1>3, <1>4, <1>5

\* How old the suspension may be when an answer is used.
LEMMA GuardNumbers ==
  ASSUME TypeOK, NEW r \in Requests
  PROVE  /\ age \in Nat /\ cache.left \in 0..StatusTtl /\ request[r].wait \in 0..MaxWait
         /\ StatusTtl \in Nat /\ MaxWait \in Nat
         /\ request[r].active \in BOOLEAN /\ cache.active \in BOOLEAN
BY SessionsAssumption DEF TypeOK, Horizon, CacheState, RequestState

LEMMA StoredIsRecent ==
  ASSUME GuardInv, NEW r \in Requests, Store(r)
  PROVE  cache'.left > 0 /\ cache'.active =>
           /\ user.status = "ACTIVE"
           /\ user.enterprise = "SUSPENDED" => age + cache'.left <= Horizon
<1>1. TypeOK /\ CacheIsRecent /\ AnswersAreRecent
  BY DEF GuardInv
<1>2. CASE StatusTtl > 0
  <2>1. cache'.left = StatusTtl /\ cache'.active = request[r].active
    BY <1>2 DEF Store
  <2>2. request[r].active =>
          user.status = "ACTIVE" /\ (user.enterprise = "SUSPENDED" => age <= request[r].wait)
    BY <1>1 DEF AnswersAreRecent, Store
  <2> QED  BY <1>1, <2>1, <2>2, GuardNumbers DEF Horizon
<1>3. CASE ~(StatusTtl > 0)
  BY <1>1, <1>3 DEF Store, CacheIsRecent
<1> QED  BY <1>2, <1>3

LEMMA CacheStays ==
  ASSUME [Next]_vars, ~Tick, ~Restart, \A r \in Requests : ~Store(r)
  PROVE  cache' = cache
BY DEF Next, Step, vars, history, Login, Refuse, Accept, VerifyMfa, Ask, Hit, Miss, Lookup,
       Logout, RequestReset, Send, Follow, VerifyEmail, AcceptInvitation, Suspend, Reactivate,
       Unlock, Fail, Issue, Refresh, Revoke, Expire, Create, Rotate, Reset, RevokeAll, Lapse

LEMMA GuardNext == GuardInv /\ [Next]_vars => GuardInv'
<1> SUFFICES ASSUME GuardInv, [Next]_vars PROVE GuardInv'
  OBVIOUS
<1>1. TypeOK /\ TypeOK' /\ CacheIsRecent /\ AnswersAreRecent
  BY TypesNext DEF GuardInv
<1>2. CASE Tick
  <2>1. /\ cache'.active = cache.active /\ user' = user
        /\ cache'.left > 0 => cache.left > 0 /\ cache'.left = cache.left - 1
    BY <1>1, <1>2, GuardNumbers DEF Tick, TypeOK, CacheState
  <2>2. age' <= age + 1 /\ age \in Nat /\ age' \in Nat
    BY <1>1, <1>2, SessionsAssumption DEF Tick, TypeOK, Horizon
  <2>3. CacheIsRecent'
    <3>1. cache.left \in Nat /\ Horizon \in Nat
      BY <1>1, SessionsAssumption DEF TypeOK, CacheState, Horizon
    <3> QED  BY <1>1, <2>1, <2>2, <3>1 DEF CacheIsRecent
  <2>4. ASSUME NEW q \in Requests, request'[q].pc = "store", request'[q].active
        PROVE  /\ user'.status = "ACTIVE"
               /\ user'.enterprise = "SUSPENDED" => age' <= request'[q].wait
    <3>1. request'[q] = IF At(q, "store") THEN [request[q] EXCEPT !.wait = @ + 1] ELSE request[q]
      BY <1>2 DEF Tick
    <3>2. At(q, "store")
      BY <2>4, <3>1 DEF At
    <3>3. request'[q].wait = request[q].wait + 1 /\ request[q].active
      BY <1>1, <2>4, <3>1, <3>2 DEF TypeOK, RequestState
    <3>4. request[q].wait \in Nat
      BY <1>1 DEF TypeOK, RequestState
    <3> QED  BY <1>1, <2>1, <2>2, <3>2, <3>3, <3>4 DEF AnswersAreRecent
  <2> QED  BY <1>1, <2>3, <2>4 DEF GuardInv, AnswersAreRecent, At
<1>3. ASSUME NEW r \in Requests, Suspend(r)
      PROVE  GuardInv'
  <2>1. /\ user'.status = user.status
        /\ user.enterprise = "ACTIVE" => age' = 0
        /\ user.enterprise # "ACTIVE" => age' = age
        /\ user.enterprise \in {"ACTIVE", "SUSPENDED"}
    BY <1>1, <1>3 DEF Suspend, TypeOK, UserState
  <2>2. cache' = cache /\ cache.left \in 0..StatusTtl
    BY <1>1, <1>3 DEF Suspend, TypeOK, CacheState
  <2>3. CacheIsRecent'
    BY <1>1, <2>1, <2>2, SessionsAssumption DEF CacheIsRecent, Horizon
  <2>4. ASSUME NEW q \in Requests, request'[q].pc = "store", request'[q].active
        PROVE  /\ user'.status = "ACTIVE"
               /\ user'.enterprise = "SUSPENDED" => age' <= request'[q].wait
    <3>1. PICK req : req = [Idle EXCEPT !.pc = "revoke_all"]
      OBVIOUS
    <3>2. req.pc = "revoke_all"
      BY <3>1 DEF Idle
    <3>3. Become(r, req)
      BY <1>3, <3>1 DEF Suspend
    <3>4. request'[q] = request[q]
      BY <1>1, <2>4, <3>2, <3>3, Becoming
    <3>5. request[q].wait \in Nat
      BY <1>1 DEF TypeOK, RequestState
    <3> QED  BY <1>1, <2>1, <2>4, <3>4, <3>5 DEF AnswersAreRecent, At
  <2> QED  BY <1>1, <2>3, <2>4 DEF GuardInv, AnswersAreRecent, At
<1>4. CASE ~Tick /\ \A r \in Requests : ~Suspend(r)
  <2>1. AccountStays
    BY <1>1, <1>4, AccountMoves
  <2>2. CacheIsRecent'
    <3>1. CASE Restart
      BY <3>1 DEF Restart, CacheIsRecent
    <3>2. ASSUME NEW r \in Requests, Store(r)
          PROVE  CacheIsRecent'
      <4>1. cache'.left > 0 /\ cache'.active =>
              /\ user.status = "ACTIVE"
              /\ user.enterprise = "SUSPENDED" => age + cache'.left <= Horizon
        BY <3>2, StoredIsRecent
      <4> QED  BY <2>1, <4>1 DEF CacheIsRecent, AccountStays, Horizon
    <3>3. CASE cache' = cache
      BY <1>1, <2>1, <3>3 DEF CacheIsRecent, AccountStays, Horizon
    <3> QED  BY <1>4, <3>1, <3>2, <3>3, CacheStays
  <2>3. ASSUME NEW q \in Requests, request'[q].pc = "store", request'[q].active
        PROVE  /\ user'.status = "ACTIVE"
               /\ user'.enterprise = "SUSPENDED" => age' <= request'[q].wait
    <3>1. RequestMove(q)
      BY <1>1, RequestsMove
    <3>2. CASE Waits(q)
      BY <1>1, <1>4, <2>1, <2>3, <3>2 DEF Waits, AccountStays, AnswersAreRecent, At
    <3>3. CASE request'[q].active = Active
      BY <2>1, <2>3, <3>3 DEF Active, AccountStays
    <3> QED  BY <2>3, <3>1, <3>2, <3>3 DEF RequestMove, Inert
  <2> QED  BY <1>1, <2>2, <2>3 DEF GuardInv, AnswersAreRecent, At
<1> QED  BY <1>2, <1>3, <1>4

LEMMA AdmittedInTime ==
  ASSUME GuardInv, [Next]_vars, NEW r \in Requests, request[r].pc \in {"ask", "store"},
         request'[r].pc = "logout", ~Active
  PROVE  age <= Horizon
<1>1. TypeOK /\ CacheIsRecent /\ AnswersAreRecent
  BY DEF GuardInv
<1>2. RequestMove(r)
  BY <1>1, RequestsMove
<1>3. Hit(r) \/ Store(r)
  BY <1>2 DEF RequestMove, Waits, Inert
<1>4. ASSUME NEW active \in BOOLEAN, Admit(r, active)
      PROVE  active
  <2>1. ~active => request'[r] = Idle
    BY <1>1, <1>4, Becoming DEF Admit, End
  <2> QED  BY <2>1, IdleIsARequest
<1>5. user.enterprise \in {"ACTIVE", "SUSPENDED"}
  BY <1>1 DEF TypeOK, UserState
<1>6. CASE Hit(r)
  <2>1. cache.left > 0 /\ cache.active
    BY <1>1, <1>4, <1>6, GuardNumbers DEF Hit
  <2>2. age + cache.left <= Horizon
    BY <1>1, <1>5, <2>1 DEF CacheIsRecent, Active
  <2> QED  BY <1>1, <2>2, GuardNumbers DEF Horizon
<1>7. CASE Store(r)
  <2>1. At(r, "store") /\ request[r].active
    BY <1>1, <1>4, <1>7, GuardNumbers DEF Store
  <2>2. age <= request[r].wait
    BY <1>1, <1>5, <2>1 DEF AnswersAreRecent, Active
  <2> QED  BY <1>1, <2>2, GuardNumbers DEF Horizon
<1> QED  BY <1>3, <1>6, <1>7

\* The guard lets nobody in whose enterprise has been suspended for longer than the TTL of
\* its cache and the time a query takes.
THEOREM Suspension == Spec => SuspensionIsTimely
<1>1. GuardInv /\ [Next]_vars =>
        [\A r \in Requests :
           request[r].pc \in {"ask", "store"} /\ request'[r].pc = "logout" /\ ~Active =>
             age <= Horizon]_vars
  BY AdmittedInTime
<1> QED  BY <1>1, GuardInit, GuardNext, PTL DEF Spec, SuspensionIsTimely

-----------------------------------------------------------------------------
(* Any requests at once allow a bounded number of guesses.                 *)

\* Wrong passwords until the lock, for a request that has read this count.
Left(count) == IF count < MaxAttempts THEN MaxAttempts - count ELSE 1

Guesses(r) == At(r, "verify") /\ ~request[r].right

\* The requests that guess, or may start to, at this distance from the lock or farther.
Reach(w) ==
  {r \in Requests : \/ Guesses(r) /\ w <= Left(request[r].seen)
                    \/ ~user.locked /\ w <= Left(user.failed)}

Standing == [w \in 1..MaxAttempts |-> Cardinality(Reach(w))]

\* Fewer requests from some distance on, and no more farther off.
Above(k, m) ==
  \E v \in 1..MaxAttempts : m[v] < k[v] /\ \A w \in v..MaxAttempts : m[w] <= k[w]

\* A step leaves the count alone, sets it and the series back, or refuses one password.
CountMove ==
  \/ user'.failed = user.failed /\ user'.locked = user.locked /\ tries' = tries
  \/ tries' = 0
  \/ \E r \in Requests : Refuse(r)

\* A request that checks a wrong password did so before, or has just read an open account.
GuessMove(q) ==
  Guesses(q)' =>
    \/ Guesses(q) /\ request'[q].seen = request[q].seen
    \/ /\ ~user.locked /\ request'[q].seen = user.failed
       /\ user' = user /\ tries' = tries
       /\ \A p \in Requests \ {q} : request'[p] = request[p]

LEMMA CountsMove ==
  ASSUME TypeOK, [Next]_vars
  PROVE  CountMove
<1>1. ASSUME user' = user /\ tries' = tries
      PROVE  CountMove
  BY <1>1 DEF CountMove
<1>2. ASSUME NEW r \in Requests, Step(r)
      PROVE  CountMove
  <2>1. CASE Accept(r) \/ Reset(r) \/ Refuse(r)
    BY <2>1 DEF Accept, Reset, CountMove
  <2>2. CASE AcceptInvitation(r)
    BY <2>2 DEF AcceptInvitation, CountMove, TypeOK, UserState, history
  <2>3. CASE Issue(r) \/ Revoke(r) \/ Expire(r) \/ Create(r) \/ Rotate(r)
    BY <1>1, <2>3 DEF Issue, Revoke, Expire, Create, Rotate, history
  <2>4. CASE Hit(r) \/ Miss(r) \/ Lookup(r) \/ Store(r) \/ Logout(r)
    BY <1>1, <2>4 DEF Hit, Miss, Lookup, Store, Logout, history
  <2>5. CASE Send(r) \/ VerifyEmail(r) \/ RevokeAll(r) \/ Fail(r)
    BY <1>1, <2>5 DEF Send, VerifyEmail, RevokeAll, Fail, history
  <2> QED BY <1>2, <2>1, <2>2, <2>3, <2>4, <2>5 DEF Step
<1>3. ASSUME NEW r \in Requests, Suspend(r)
      PROVE  CountMove
  BY <1>3 DEF Suspend, CountMove, TypeOK, UserState
<1>4. CASE Reactivate \/ Unlock
  BY <1>4 DEF Reactivate, Unlock, CountMove, TypeOK, UserState, history
<1>5. CASE Lapse \/ Tick \/ Restart \/ UNCHANGED vars
  BY <1>1, <1>5 DEF Lapse, Tick, Restart, vars, history
<1>6. ASSUME NEW r \in Requests, NEW right \in BOOLEAN, Login(r, right)
      PROVE  CountMove
  BY <1>1, <1>6 DEF Login, history
<1>7. ASSUME NEW r \in Requests, NEW t \in Tokens, Refresh(r, t) \/ Ask(r, t)
      PROVE  CountMove
  BY <1>1, <1>7 DEF Refresh, Ask, history
<1>8. ASSUME NEW r \in Requests, NEW l \in Links, Follow(r, l)
      PROVE  CountMove
  BY <1>1, <1>8 DEF Follow, history
<1>9. ASSUME NEW r \in Requests, VerifyMfa(r) \/ RequestReset(r)
      PROVE  CountMove
  BY <1>1, <1>9 DEF VerifyMfa, RequestReset, history
<1> QED BY <1>2, <1>3, <1>4, <1>5, <1>6, <1>7, <1>8, <1>9 DEF Next

\* The same request, or one that checks no password.
LEMMA NoGuess ==
  ASSUME TypeOK, NEW r \in Requests, NEW q \in Requests, NEW req, Become(r, req),
         req.pc # "verify"
  PROVE  GuessMove(q)
<1>1. CASE q = r
  BY <1>1, Becoming DEF GuessMove, Guesses, At
<1>2. CASE q # r
  BY <1>2, Becoming DEF GuessMove, Guesses, At
<1> QED BY <1>1, <1>2

LEMMA GuessesMove ==
  ASSUME TypeOK, [Next]_vars, NEW q \in Requests
  PROVE  GuessMove(q)
<1>1. ASSUME NEW r \in Requests, End(r)
      PROVE  GuessMove(q)
  BY <1>1, NoGuess, IdleIsARequest DEF End
<1>2. ASSUME NEW r \in Requests, NEW label, label # "verify", Goto(r, label)
      PROVE  GuessMove(q)
  <2>1. PICK req : req = [request[r] EXCEPT !.pc = label]
    OBVIOUS
  <2>2. req.pc = label
    BY <2>1 DEF TypeOK, RequestState
  <2> QED BY <1>2, <2>1, <2>2, NoGuess DEF Goto
<1>3. ASSUME NEW r \in Requests, NEW label, label # "verify", NEW t, NEW l,
             Become(r, StartsWith(label, t, l))
      PROVE  GuessMove(q)
  BY <1>3, NoGuess DEF StartsWith
<1>4. ASSUME request' = request
      PROVE  GuessMove(q)
  BY <1>4 DEF GuessMove, Guesses, At
<1>5. ASSUME NEW r \in Requests, NEW right \in BOOLEAN, Login(r, right)
      PROVE  GuessMove(q)
  <2>1. PICK req : req = [Idle EXCEPT !.pc = "verify", !.right = right, !.seen = user.failed]
    OBVIOUS
  <2>2. req.seen = user.failed
    BY <2>1 DEF Idle
  <2>3. Become(r, req) /\ ~user.locked /\ user' = user /\ tries' = tries
    BY <1>5, <2>1 DEF Login, history
  <2>4. request'[r] = req /\ \A p \in Requests \ {r} : request'[p] = request[p]
    BY <2>3, Becoming
  <2>5. CASE q = r
    BY <2>2, <2>3, <2>4, <2>5 DEF GuessMove
  <2>6. CASE q # r
    BY <2>4, <2>6 DEF GuessMove, Guesses, At
  <2> QED BY <2>5, <2>6
<1>6. ASSUME NEW r \in Requests, NEW t \in Tokens, Refresh(r, t)
      PROVE  GuessMove(q)
  <2>1. Become(r, StartsWith(Verdict(t), t, None))
    BY <1>6, Starting DEF Refresh
  <2>2. Verdict(t) # "verify"
    BY DEF Verdict
  <2> QED BY <1>3, <2>1, <2>2
<1>7. ASSUME NEW r \in Requests, NEW t \in Tokens, Ask(r, t)
      PROVE  GuessMove(q)
  <2>1. Become(r, StartsWith("ask", t, None))
    BY <1>7, Starting DEF Ask
  <2> QED BY <1>3, <2>1, SMTT(30)
<1>8. ASSUME NEW r \in Requests, NEW l \in Links, Follow(r, l)
      PROVE  GuessMove(q)
  <2>1. Become(r, StartsWith("use", None, l))
    BY <1>8, Starting DEF Follow
  <2> QED BY <1>3, <2>1, SMTT(30)
<1>9. ASSUME NEW r \in Requests, VerifyMfa(r) \/ Suspend(r) \/ AcceptInvitation(r)
      PROVE  GuessMove(q)
  <2>1. PICK label \in {"issue", "revoke_all"} : Become(r, [Idle EXCEPT !.pc = label])
    BY <1>9 DEF VerifyMfa, Suspend, AcceptInvitation
  <2>2. [Idle EXCEPT !.pc = label].pc = label
    BY DEF Idle
  <2> QED BY <2>1, <2>2, NoGuess
<1>10. ASSUME NEW r \in Requests, RequestReset(r)
       PROVE  GuessMove(q)
  <2>1. PICK unused : Become(r, [Idle EXCEPT !.pc = "send", !.links = unused])
    BY <1>10 DEF RequestReset
  <2>2. [Idle EXCEPT !.pc = "send", !.links = unused].pc = "send"
    BY DEF Idle
  <2> QED BY <2>1, <2>2, NoGuess
<1>11. ASSUME NEW r \in Requests, Create(r)
       PROVE  GuessMove(q)
  <2>1. PICK t \in Tokens : Become(r, [request[r] EXCEPT !.pc = "rotate", !.next = t])
    BY <1>11 DEF Create
  <2>2. [request[r] EXCEPT !.pc = "rotate", !.next = t].pc = "rotate"
    BY DEF TypeOK, RequestState
  <2> QED BY <2>1, <2>2, NoGuess
<1>12. ASSUME NEW r \in Requests, Lookup(r)
       PROVE  GuessMove(q)
  <2>1. PICK active : Become(r, [request[r] EXCEPT !.pc = "store", !.active = active])
    BY <1>12 DEF Lookup
  <2>2. [request[r] EXCEPT !.pc = "store", !.active = active].pc = "store"
    BY DEF TypeOK, RequestState
  <2> QED BY <2>1, <2>2, NoGuess
<1>13. ASSUME NEW r \in Requests, Hit(r) \/ Store(r)
       PROVE  GuessMove(q)
  <2>1. PICK active : Admit(r, active)
    BY <1>13 DEF Hit, Store
  <2>2. CASE End(r)
    BY <1>1, <2>2
  <2>3. CASE Become(r, [Idle EXCEPT !.pc = "logout", !.token = request[r].token])
    <3>1. [Idle EXCEPT !.pc = "logout", !.token = request[r].token].pc = "logout"
      BY DEF Idle
    <3> QED BY <2>3, <3>1, NoGuess
  <2> QED BY <2>1, <2>2, <2>3 DEF Admit
<1>14. ASSUME NEW r \in Requests, Step(r)
       PROVE  GuessMove(q)
  <2>1. CASE Refuse(r) \/ Issue(r) \/ Revoke(r) \/ Expire(r) \/ Rotate(r)
    BY <1>1, <2>1 DEF Refuse, Issue, Revoke, Expire, Rotate
  <2>2. CASE Send(r) \/ Reset(r) \/ VerifyEmail(r) \/ RevokeAll(r) \/ Fail(r)
    BY <1>1, <2>2 DEF Send, Reset, VerifyEmail, RevokeAll, Fail
  <2>3. CASE Accept(r) \/ Miss(r) \/ Logout(r)
    BY <1>1, <1>2, <2>3 DEF Accept, Miss, Logout
  <2> QED BY <1>9, <1>11, <1>12, <1>13, <1>14, <2>1, <2>2, <2>3 DEF Step
<1>15. CASE Tick
  <2>1. request'[q] = IF At(q, "store") THEN [request[q] EXCEPT !.wait = @ + 1] ELSE request[q]
    BY <1>15 DEF Tick
  <2>2. [request[q] EXCEPT !.wait = @ + 1].pc = request[q].pc
    BY DEF TypeOK, RequestState
  <2> QED BY <2>1, <2>2 DEF GuessMove, Guesses, At
<1>16. CASE Restart
  BY <1>16, IdleIsARequest DEF Restart, GuessMove, Guesses, At
<1>17. CASE UNCHANGED vars \/ Reactivate \/ Unlock \/ Lapse
  BY <1>4, <1>17 DEF vars, Reactivate, Unlock, Lapse
<1> QED BY <1>5, <1>6, <1>7, <1>8, <1>9, <1>10, <1>14, <1>15, <1>16, <1>17 DEF Next

\* Every guess of the series has left its own standing behind, above the one there is now.
GuessInv ==
  \E past \in SUBSET Standings :
    tries <= Cardinality(past) /\ \A k \in past : Above(k, Standing)

LEMMA LeftType ==
  ASSUME NEW count \in 0..MaxAttempts
  PROVE  Left(count) \in 1..MaxAttempts
BY SessionsAssumption DEF Left

LEMMA CountTypes ==
  ASSUME TypeOK
  PROVE  /\ user.failed \in 0..MaxAttempts /\ tries \in Nat /\ user.locked \in BOOLEAN
         /\ \A r \in Requests : request[r].seen \in 0..MaxAttempts
BY DEF TypeOK, UserState, RequestState

LEMMA SubsetsCount ==
  ASSUME NEW S \in SUBSET Requests, NEW T \in SUBSET S
  PROVE  /\ Cardinality(S) \in 0..Cardinality(Requests) /\ Cardinality(T) <= Cardinality(S)
         /\ T # S => Cardinality(T) < Cardinality(S)
<1>1. /\ IsFiniteSet(Requests) /\ IsFiniteSet(S) /\ Cardinality(S) <= Cardinality(Requests)
  BY FS_Subset, SessionsAssumption
<1>2. /\ IsFiniteSet(T) /\ Cardinality(T) <= Cardinality(S)
      /\ Cardinality(S) = Cardinality(T) => S = T
  BY <1>1, FS_Subset
<1>3. /\ Cardinality(Requests) \in Nat /\ Cardinality(S) \in Nat /\ Cardinality(T) \in Nat
  BY <1>1, <1>2, FS_CardinalityType
<1> QED BY <1>1, <1>2, <1>3

LEMMA StandingsAreFinite == IsFiniteSet(Standings)
<1> DEFINE Cells == (1..MaxAttempts) \X (0..Cardinality(Requests))
           Cell(k) == {c \in Cells : k[c[1]] = c[2]}
           graph == [k \in Standings |-> Cell(k)]
<1>1. MaxAttempts \in Nat /\ Cardinality(Requests) \in Nat
  BY FS_CardinalityType, SessionsAssumption
<1>2. IsFiniteSet(1..MaxAttempts) /\ IsFiniteSet(0..Cardinality(Requests))
  BY <1>1, FS_Interval
<1>3. IsFiniteSet(Cells)
  BY <1>2, FS_Product
<1>4. IsFiniteSet(SUBSET Cells)
  BY <1>3, FS_SUBSET
<1>5. ASSUME NEW k \in Standings, NEW m \in Standings, Cell(k) = Cell(m)
      PROVE  k = m
  <2>1. /\ k \in [1..MaxAttempts -> 0..Cardinality(Requests)]
        /\ m \in [1..MaxAttempts -> 0..Cardinality(Requests)]
    BY DEF Standings
  <2>2. ASSUME NEW w \in 1..MaxAttempts
        PROVE  k[w] = m[w]
    <3>1. <<w, k[w]>> \in Cell(k)
      BY <2>1
    <3>2. <<w, k[w]>> \in Cell(m)
      BY <1>5, <3>1
    <3> QED BY <3>2
  <2>3. /\ k = [w \in 1..MaxAttempts |-> k[w]]
        /\ m = [w \in 1..MaxAttempts |-> m[w]]
    BY <2>1
  <2> HIDE DEF Cells, Cell, graph
  <2> QED BY <2>2, <2>3
<1>6. graph \in [Standings -> SUBSET Cells]
  OBVIOUS
<1>7. \A k, m \in Standings : graph[k] = graph[m] => k = m
  BY <1>5
<1>8. graph \in Injection(Standings, SUBSET Cells)
  BY <1>6, <1>7 DEF Injection, IsInjective
<1> QED BY <1>4, <1>8, FS_Injection

LEMMA StandingType == TypeOK => Standing \in Standings
<1> SUFFICES ASSUME TypeOK PROVE Standing \in Standings
  OBVIOUS
<1>1. ASSUME NEW w \in 1..MaxAttempts
      PROVE  Cardinality(Reach(w)) \in 0..Cardinality(Requests)
  BY SubsetsCount DEF Reach
<1>2. ASSUME NEW v \in 1..MaxAttempts, NEW w \in 1..MaxAttempts, v <= w
      PROVE  Cardinality(Reach(w)) <= Cardinality(Reach(v))
  <2>1. Left(user.failed) \in Nat /\ \A r \in Requests : Left(request[r].seen) \in Nat
    BY CountTypes, LeftType
  <2>2. Reach(w) \subseteq Reach(v) /\ Reach(v) \subseteq Requests
    BY <1>2, <2>1 DEF Reach
  <2> QED BY <2>2, SubsetsCount
<1> QED BY <1>1, <1>2 DEF Standing, Standings

LEMMA StandingTypeNext == TypeOK' => Standing' \in Standings
<1>1. (TypeOK => Standing \in Standings)'
  BY StandingType, PTL
<1> QED BY <1>1

LEMMA StandingOf ==
  ASSUME NEW w \in 1..MaxAttempts
  PROVE  Standing[w] = Cardinality(Reach(w)) /\ Standing'[w] = Cardinality(Reach(w)')
BY DEF Standing

\* Above is a strict order, and nothing that only falls comes back above.
LEMMA AboveOrders ==
  ASSUME NEW k \in Standings, NEW l \in Standings, NEW m \in Standings
  PROVE  /\ ~Above(k, k)
         /\ Above(k, l) /\ Above(l, m) => Above(k, m)
         /\ Above(k, l) /\ (\A w \in 1..MaxAttempts : m[w] <= l[w]) => Above(k, m)
<1>1. /\ MaxAttempts \in Nat /\ Cardinality(Requests) \in Nat
      /\ \A w \in 1..MaxAttempts : k[w] \in Nat /\ l[w] \in Nat /\ m[w] \in Nat
  <2>1. MaxAttempts \in Nat /\ Cardinality(Requests) \in Nat
    BY FS_CardinalityType, SessionsAssumption
  <2> QED BY <2>1 DEF Standings
<1>2. ~Above(k, k)
  BY <1>1 DEF Above
<1>3. ASSUME Above(k, l), Above(l, m)
      PROVE  Above(k, m)
  <2>1. PICK v \in 1..MaxAttempts : l[v] < k[v] /\ \A w \in v..MaxAttempts : l[w] <= k[w]
    BY <1>3 DEF Above
  <2>2. PICK u \in 1..MaxAttempts : m[u] < l[u] /\ \A w \in u..MaxAttempts : m[w] <= l[w]
    BY <1>3 DEF Above
  <2>3. CASE u <= v
    <3>1. \A w \in v..MaxAttempts : w \in u..MaxAttempts /\ w \in 1..MaxAttempts
      BY <1>1, <2>3
    <3>2. \A w \in v..MaxAttempts : m[w] <= k[w]
      BY <1>1, <2>1, <2>2, <3>1
    <3>3. m[v] < k[v]
      BY <1>1, <2>1, <2>2, <2>3
    <3> QED BY <3>2, <3>3 DEF Above
  <2>4. CASE v < u
    <3>1. \A w \in u..MaxAttempts : w \in v..MaxAttempts /\ w \in 1..MaxAttempts
      BY <1>1, <2>4
    <3>2. \A w \in u..MaxAttempts : m[w] <= k[w]
      BY <1>1, <2>1, <2>2, <3>1
    <3>3. m[u] < k[u]
      BY <1>1, <2>1, <2>2, <2>4
    <3> QED BY <3>2, <3>3 DEF Above
  <2> QED BY <1>1, <2>3, <2>4
<1>4. ASSUME Above(k, l), \A w \in 1..MaxAttempts : m[w] <= l[w]
      PROVE  Above(k, m)
  <2>1. PICK v \in 1..MaxAttempts : l[v] < k[v] /\ \A w \in v..MaxAttempts : l[w] <= k[w]
    BY <1>4 DEF Above
  <2>2. \A w \in v..MaxAttempts : w \in 1..MaxAttempts
    BY <1>1
  <2>3. \A w \in v..MaxAttempts : m[w] <= k[w]
    BY <1>1, <1>4, <2>1, <2>2
  <2>4. m[v] < k[v]
    BY <1>1, <1>4, <2>1
  <2> QED BY <2>3, <2>4 DEF Above
<1> QED BY <1>2, <1>3, <1>4

\* A series that starts has left nothing behind.
LEMMA NewSeries ==
  ASSUME tries' = 0
  PROVE  GuessInv'
<1>1. Cardinality({}) = 0
  BY FS_EmptySet
<1>2. \E past \in SUBSET Standings :
        tries' <= Cardinality(past) /\ \A k \in past : Above(k, Standing')
  BY <1>1
<1> QED BY <1>2 DEF GuessInv

\* The counts stay, and a request that starts to guess reaches no farther than it could.
LEMMA SameSeries ==
  ASSUME TypeOK, TypeOK', GuessInv, user'.failed = user.failed, user'.locked = user.locked,
         tries' = tries, \A q \in Requests : GuessMove(q)
  PROVE  GuessInv'
<1>1. ASSUME NEW w \in 1..MaxAttempts
      PROVE  Standing'[w] <= Standing[w]
  <2>1. ASSUME NEW r \in Reach(w)'
        PROVE  r \in Reach(w)
    <3>1. /\ r \in Requests /\ GuessMove(r)
          /\ \/ Guesses(r)' /\ w <= Left(request'[r].seen)
             \/ ~user.locked /\ w <= Left(user.failed)
      BY DEF Reach, Left
    <3> QED BY <3>1 DEF GuessMove, Reach
  <2>2. Reach(w)' \subseteq Reach(w) /\ Reach(w) \subseteq Requests
    BY <2>1 DEF Reach
  <2>3. Cardinality(Reach(w)') <= Cardinality(Reach(w))
    BY <2>2, SubsetsCount
  <2> QED BY <2>3, StandingOf
<1>2. Standing \in Standings /\ Standing' \in Standings
  BY StandingType, StandingTypeNext
<1>3. PICK past \in SUBSET Standings :
        tries <= Cardinality(past) /\ \A k \in past : Above(k, Standing)
  BY DEF GuessInv
<1>4. \A k \in past : Above(k, Standing')
  BY <1>1, <1>2, <1>3, AboveOrders
<1> QED BY <1>3, <1>4 DEF GuessInv

\* A wrong password is answered: no request reaches as far as it did but those that already
\* guess from there, whatever the count that it writes over.
LEMMA RefusedGuess ==
  ASSUME TypeOK, TypeOK', GuessInv, NEW r \in Requests, Refuse(r)
  PROVE  GuessInv'
<1>1. PICK x, s : x = Left(s) /\ s = request[r].seen
  OBVIOUS
<1>2. /\ s \in 0..MaxAttempts /\ x \in 1..MaxAttempts /\ MaxAttempts \in Nat
      /\ tries \in Nat
  <2>1. s \in 0..MaxAttempts /\ tries \in Nat
    BY <1>1, CountTypes
  <2> QED BY <1>1, <2>1, LeftType, SessionsAssumption
<1>3. Guesses(r) /\ tries' = tries + 1
  BY DEF Refuse, Guesses
<1>4. /\ user'.failed = AtMost(s + 1, MaxAttempts)
      /\ user'.locked = (AtMost(s + 1, MaxAttempts) = MaxAttempts)
  <2>1. PICK count : /\ count = AtMost(s + 1, MaxAttempts)
                     /\ user' = [user EXCEPT !.failed = count, !.locked = count = MaxAttempts]
    BY <1>1 DEF Refuse
  <2> QED BY <2>1 DEF TypeOK, UserState
<1>5. ~user'.locked => Left(user'.failed) = x - 1
  <2>1. x = IF s < MaxAttempts THEN MaxAttempts - s ELSE 1
    BY <1>1 DEF Left
  <2>2. CASE s + 1 < MaxAttempts
    <3>1. AtMost(s + 1, MaxAttempts) = s + 1
      BY <1>2, <2>2 DEF AtMost
    <3>2. Left(s + 1) = MaxAttempts - (s + 1)
      BY <2>2 DEF Left
    <3> QED BY <1>2, <1>4, <2>1, <2>2, <3>1, <3>2
  <2>3. CASE ~(s + 1 < MaxAttempts)
    BY <1>2, <1>4, <2>3 DEF AtMost
  <2> QED BY <2>2, <2>3
<1>6. /\ request'[r] = Idle
      /\ \A q \in Requests \ {r} : request'[q] = request[q]
  BY IdleIsARequest, OneRequest DEF Refuse, End
<1>7. ~Guesses(r)'
  BY <1>6, IdleIsARequest DEF Guesses, At
<1>8. ASSUME NEW w \in x..MaxAttempts
      PROVE  /\ Reach(w)' \subseteq Reach(w) /\ r \notin Reach(w)'
             /\ Cardinality(Reach(w)') <= Cardinality(Reach(w))
             /\ Reach(w) \subseteq Requests
  <2>1. ~(~user'.locked /\ w <= Left(user'.failed))
    BY <1>2, <1>5
  <2>2. Reach(w)' = {q \in Requests : Guesses(q)' /\ w <= Left(request'[q].seen)}
    BY <2>1 DEF Reach, Left
  <2>3. ASSUME NEW q \in Reach(w)'
        PROVE  q # r /\ q \in Reach(w)
    <3>1. q \in Requests /\ q # r /\ request'[q] = request[q] /\ Guesses(q)'
      BY <1>6, <1>7, <2>2
    <3> QED BY <2>2, <3>1 DEF Guesses, At, Reach
  <2>4. Reach(w)' \subseteq Reach(w) /\ Reach(w) \subseteq Requests
    BY <2>3 DEF Reach
  <2> QED BY <2>3, <2>4, SubsetsCount
<1>9. Cardinality(Reach(x)') < Cardinality(Reach(x))
  <2>1. r \in Reach(x) /\ x \in x..MaxAttempts
    BY <1>1, <1>2, <1>3 DEF Reach
  <2>2. Reach(x)' \subseteq Reach(x) /\ Reach(x)' # Reach(x) /\ Reach(x) \subseteq Requests
    BY <1>8, <2>1
  <2> QED BY <2>2, SubsetsCount
<1>10. Standing \in Standings /\ Standing' \in Standings
  BY StandingType, StandingTypeNext
<1>11. Above(Standing, Standing')
  <2>1. \A w \in x..MaxAttempts : w \in 1..MaxAttempts
    BY <1>2
  <2>2. \A w \in x..MaxAttempts : Standing'[w] <= Standing[w]
    BY <1>8, <2>1, StandingOf
  <2>3. Standing'[x] < Standing[x]
    BY <1>2, <1>9, StandingOf
  <2> QED BY <1>2, <2>2, <2>3 DEF Above
<1>12. PICK past \in SUBSET Standings :
         tries <= Cardinality(past) /\ \A k \in past : Above(k, Standing)
  BY DEF GuessInv
<1>13. Standing \notin past
  BY <1>10, <1>12, AboveOrders
<1>14. IsFiniteSet(past) /\ Cardinality(past) \in Nat
  BY StandingsAreFinite, FS_Subset, FS_CardinalityType
<1>15. Cardinality(past \cup {Standing}) = Cardinality(past) + 1
  BY <1>13, <1>14, FS_AddElement
<1>16. tries' <= Cardinality(past \cup {Standing})
  BY <1>2, <1>3, <1>12, <1>14, <1>15
<1>17. past \cup {Standing} \in SUBSET Standings
  BY <1>10
<1>18. \A k \in past \cup {Standing} : Above(k, Standing')
  BY <1>10, <1>11, <1>12, AboveOrders
<1> QED BY <1>16, <1>17, <1>18 DEF GuessInv

LEMMA GuessNext ==
  ASSUME TypeOK, GuessInv, [Next]_vars
  PROVE  GuessInv'
<1>1. TypeOK'
  BY TypesNext
<1>2. ASSUME NEW r \in Requests, Refuse(r)
      PROVE  GuessInv'
  BY <1>1, <1>2, RefusedGuess
<1>3. CASE tries' = 0
  BY <1>3, NewSeries
<1>4. CASE user'.failed = user.failed /\ user'.locked = user.locked /\ tries' = tries
  BY <1>1, <1>4, GuessesMove, SameSeries
<1> QED BY <1>2, <1>3, <1>4, CountsMove DEF CountMove

LEMMA GuessInit == Init => GuessInv
<1> SUFFICES ASSUME Init PROVE GuessInv
  OBVIOUS
<1>1. tries = 0 /\ Cardinality({}) = 0
  BY FS_EmptySet DEF Init
<1> QED BY <1>1 DEF GuessInv

\* AuthService.login counts wrong passwords from the row it has read before the hash is
\* verified, so that the counts of overlapping requests overwrite each other, and a late one
\* undoes a lock. Whatever the number of attempts that locks an account, and however many
\* requests overlap, the wrong passwords of a series stay within GuessesAreBounded.
THEOREM GuessesStayBounded == Spec => []GuessesAreBounded
<1>1. ASSUME TypeOK, GuessInv
      PROVE  GuessesAreBounded
  <2>1. PICK past \in SUBSET Standings :
          tries <= Cardinality(past) /\ \A k \in past : Above(k, Standing)
    BY <1>1 DEF GuessInv
  <2>2. Standing \in Standings /\ Standing \notin past
    BY <1>1, <2>1, StandingType, AboveOrders
  <2>3. /\ Cardinality(past) <= Cardinality(Standings)
        /\ Cardinality(Standings) # Cardinality(past)
    BY <2>2, StandingsAreFinite, FS_Subset
  <2>4. Cardinality(past) \in Nat /\ Cardinality(Standings) \in Nat
    BY StandingsAreFinite, FS_Subset, FS_CardinalityType
  <2>5. tries \in Nat
    BY <1>1, CountTypes
  <2> QED BY <2>1, <2>3, <2>4, <2>5 DEF GuessesAreBounded
<1>2. TypeOK /\ GuessInv /\ [Next]_vars => GuessInv'
  BY GuessNext
<1> QED BY <1>1, <1>2, GuessInit, SessionsTypes, PTL DEF Spec
=============================================================================
