--------------------------- MODULE OfflineProofs ---------------------------
(***************************************************************************)
(* Theorems about OfflineQueue, for any number of accounts, mutations,     *)
(* sessions, expired tokens, kills and retries.                            *)
(***************************************************************************)
EXTENDS OfflineQueue, SequenceTheorems, TLAPS

-----------------------------------------------------------------------------
(* The parts of the type invariant.                                        *)

RowTypes ==
  /\ author \in Seq(Mutation) /\ Len(author) <= MaxMutations
  /\ status \in [Mutations -> {"none", "pending", "processing", "failed", "deleted"}]
  /\ \A m \in Mutations : status[m] = "none" <=> m > Len(author)
  /\ retryCount \in [Mutations -> 0 .. MaxTransientRetries - 1]

UserTypes ==
  /\ session \in {"loading", "authenticated", "unauthenticated"}
  /\ issued \in Seq(Accounts) /\ Len(issued) <= MaxSessions
  /\ access \in 0 .. Len(issued) /\ (access # NoToken <=> session = "authenticated")
  /\ stored \in Accounts \cup {NoAccount}
  /\ leaving \in {"no", "purge", "clear", "reset"}
  /\ online \in BOOLEAN
  /\ expired \subseteq 1 .. Len(issued)
  /\ kills \in 0 .. MaxKills

PassTypes ==
  /\ at \in {"idle", "list", "next", "mark", "answer"}
  /\ batch \subseteq Queued
  /\ seen \in [Mutations -> 0 .. MaxTransientRetries - 1]
  /\ deps \in 0 .. Len(issued)
  /\ at \in {"mark", "answer"} => current \in Queued /\ token \in 1 .. Len(issued)
  /\ current \in {0} \cup Mutations /\ token \in {NoToken} \cup Tokens
  /\ reply \in Replies \cup {"none"}

EffectTypes ==
  /\ applied \in [Mutations -> [Accounts -> 0 .. 2]]
  /\ newest \in [Accounts -> {0} \cup Queued]

LateTypes ==
  /\ late \subseteq [mutation: Queued, token: 1 .. Len(issued)]
  /\ delayed \in 0 .. MaxDelayed

\* A call to come has the token of a session that was opened.
DueTypes ==
  /\ due \in [Deps -> 0 .. MaxDue]
  /\ \A d \in Deps : due[d] > 0 => d <= Len(issued)

Types == RowTypes /\ UserTypes /\ PassTypes /\ EffectTypes /\ LateTypes /\ DueTypes

LEMMA TypesSuffice == Types => TypeOK
BY DEF Types, RowTypes, UserTypes, PassTypes, EffectTypes, LateTypes, DueTypes, TypeOK

\* Rows and tokens are only added.
Grows == Len(author) <= Len(author)' /\ Len(issued) <= Len(issued)'

LEMMA Lengths ==
  ASSUME Types
  PROVE  /\ Len(author) \in Nat /\ Len(issued) \in Nat
         /\ Queued \subseteq Mutations /\ 0 .. Len(issued) \subseteq Deps
         /\ 1 .. Len(issued) \subseteq Tokens
<1>1. Len(author) \in Nat /\ Len(issued) \in Nat
  BY LenProperties DEF Types, RowTypes, UserTypes
<1>2. Len(author) <= MaxMutations /\ Len(issued) <= MaxSessions
  BY DEF Types, RowTypes, UserTypes
<1> QED  BY <1>1, <1>2, OfflineAssumption DEF Queued, Mutations, Deps, Ref, Tokens

LEMMA PassStays ==
  ASSUME Types, Grows, pass' = pass, Len(author)' \in Nat, Len(issued)' \in Nat
  PROVE  PassTypes'
<1>1. Queued \subseteq Queued'
  BY Lengths DEF Grows, Queued
<1> QED  BY <1>1, Lengths DEF Types, PassTypes, pass, Grows, Tokens

LEMMA EffectsStay ==
  ASSUME Types, Grows, applied' = applied, newest' = newest, Len(author)' \in Nat
  PROVE  EffectTypes'
<1>1. Queued \subseteq Queued'
  BY Lengths DEF Grows, Queued
<1> QED  BY <1>1 DEF Types, EffectTypes

LEMMA LateStays ==
  ASSUME Types, Grows, late' \subseteq late, delayed' = delayed, Len(author)' \in Nat,
         Len(issued)' \in Nat
  PROVE  LateTypes'
<1>1. Queued \subseteq Queued' /\ 1 .. Len(issued) \subseteq 1 .. Len(issued')
  BY Lengths DEF Grows, Queued
<1> QED  BY <1>1 DEF Types, LateTypes

LEMMA DueStays ==
  ASSUME Types, Grows, due' = due, Len(issued)' \in Nat
  PROVE  DueTypes'
BY Lengths DEF Types, DueTypes, Grows, Deps, Ref, Tokens

LEMMA DueScheduled ==
  ASSUME Types, Grows, Len(issued)' \in Nat, NEW d \in 0 .. Len(issued), Schedule(d)
  PROVE  DueTypes'
<1>1. d \in Deps
  BY Lengths
<1>2. due[d] \in 0 .. MaxDue
  BY <1>1 DEF Types, DueTypes
<1>3. PICK n \in 0 .. MaxDue : due' = [due EXCEPT ![d] = n]
  <2>1. (IF due[d] < MaxDue THEN due[d] + 1 ELSE due[d]) \in 0 .. MaxDue
    BY <1>2, OfflineAssumption
  <2>2. due' = [due EXCEPT ![d] = IF due[d] < MaxDue THEN due[d] + 1 ELSE due[d]]
    BY DEF Schedule
  <2> QED  BY <2>1, <2>2
<1>4. due' \in [Deps -> 0 .. MaxDue]
  BY <1>1, <1>3 DEF Types, DueTypes
<1>5. ASSUME NEW e \in Deps, due'[e] > 0
      PROVE  e <= Len(issued)'
  <2>1. CASE e = d
    BY <2>1, Lengths DEF Grows
  <2>2. CASE e # d
    <3>1. due'[e] = due[e]
      BY <1>1, <1>3, <2>2 DEF Types, DueTypes
    <3>2. e <= Len(issued)
      BY <1>5, <3>1 DEF Types, DueTypes
    <3> QED  BY <3>2, Lengths DEF Grows, Deps, Ref, Tokens
  <2> QED  BY <2>1, <2>2
<1> QED  BY <1>4, <1>5 DEF DueTypes

\* What an UPDATE or a DELETE of one row, and a purge, do to the table.
LEMMA Marked ==
  ASSUME RowTypes, NEW m \in Mutations, NEW s \in {"pending", "processing", "failed", "deleted"},
         status' = Mark(m, s), author' = author
  PROVE  /\ status' \in [Mutations -> {"none", "pending", "processing", "failed", "deleted"}]
         /\ \A n \in Mutations : status'[n] = "none" <=> n > Len(author')
         /\ \A n \in Mutations \ {m} : status'[n] = status[n]
         /\ Present(m) => status'[m] = s
         /\ ~Present(m) => status'[m] = status[m]
BY DEF RowTypes, Mark, Present

LEMMA Purged ==
  ASSUME RowTypes, status' = PurgeTenantScoped, author' = author
  PROVE  /\ status' \in [Mutations -> {"none", "pending", "processing", "failed", "deleted"}]
         /\ \A n \in Mutations : status'[n] = "none" <=> n > Len(author')
         /\ \A n \in Mutations : Present(n) => status'[n] = "deleted"
         /\ \A n \in Mutations : ~Present(n) => status'[n] = status[n]
BY DEF RowTypes, PurgeTenantScoped, Present

-----------------------------------------------------------------------------
(* What a pass has in hand.                                                *)

LEMMA InHandIs ==
  /\ \A m \in InHand : m \in batch \/ m = current
  /\ batch \subseteq InHand
  /\ at \in {"mark", "answer"} => \A m : m \in InHand <=> m \in batch \/ m = current
  /\ at \notin {"mark", "answer"} => InHand = batch
BY DEF InHand

\* A pass goes through the pending mutations in order: those it has not in hand are
\* later ones.
Ordered ==
  /\ at \in {"mark", "answer"} => \A b \in batch : current < b
  /\ at \in {"next", "mark", "answer"} =>
       \A m \in Mutations : Pending(m) => m \in InHand \/ \A b \in InHand : b < m

Snapshot == SnapshotIsCurrent /\ Ordered

\* A step outside the pass: rows in hand stay, or go; other rows may be purged or added.
RowsKeep ==
  \A m \in Mutations :
    /\ retryCount'[m] = retryCount[m]
    /\ status'[m] = status[m] \/ ~Present(m)' \/ m > Len(author)

LEMMA SnapshotKept ==
  ASSUME Types, Snapshot, RowsKeep, batch' = batch, seen' = seen, current' = current,
         at' = at
  PROVE  Snapshot'
<1>1. InHand' = InHand
  BY DEF InHand
<1>2. ASSUME NEW m \in InHand
      PROVE  m \in Queued /\ m \in Mutations /\ m <= Len(author)
  BY Lengths DEF InHand, Types, PassTypes, Queued
<1>3. ASSUME NEW m \in InHand, Present(m)'
      PROVE  Pending(m)' /\ seen'[m] = retryCount'[m]
  <2>1. status'[m] = status[m] /\ retryCount'[m] = retryCount[m]
    BY <1>2, <1>3, Lengths DEF RowsKeep, Mutations
  <2> QED  BY <1>3, <2>1 DEF Present, Pending, Snapshot, SnapshotIsCurrent
<1>4. ASSUME NEW m \in Mutations, Pending(m)', at \in {"next", "mark", "answer"}
      PROVE  m \in InHand \/ \A b \in InHand : b < m
  <2>1. CASE m > Len(author)
    BY <1>2, <2>1, Lengths DEF Mutations, Queued
  <2>2. CASE ~(m > Len(author))
    <3>1. Pending(m)
      BY <1>4, <2>2 DEF RowsKeep, Pending, Present
    <3> QED  BY <1>4, <3>1 DEF Snapshot, Ordered
  <2> QED  BY <2>1, <2>2
<1> QED  BY <1>1, <1>3, <1>4 DEF Snapshot, SnapshotIsCurrent, Ordered

LEMMA SnapshotAtRest ==
  ASSUME at' \in {"idle", "list"}, batch' = {}
  PROVE  Snapshot'
BY DEF Snapshot, SnapshotIsCurrent, Ordered, InHand

LEMMA Stopped ==
  ASSUME Types, Stop, Len(author)' \in Nat, Len(issued)' \in Nat
  PROVE  PassTypes' /\ Snapshot'
<1>1. PassTypes'
  BY OfflineAssumption, Lengths DEF Stop, PassTypes, Ref, NoToken
<1> QED  BY <1>1, SnapshotAtRest DEF Stop

\* The pass goes on: the mutation it had is pending no more.
LEMMA Continued ==
  ASSUME Types, Snapshot, Continue, at = "answer", NEW s \in {"failed", "deleted"},
         status' = Mark(current, s), author' = author, issued' = issued,
         retryCount' = retryCount
  PROVE  RowTypes' /\ PassTypes' /\ Snapshot'
<1>1. current \in Queued /\ current \in Mutations /\ batch \subseteq Queued
  BY Lengths DEF Types, PassTypes
<1>2. /\ status' \in [Mutations -> {"none", "pending", "processing", "failed", "deleted"}]
      /\ \A n \in Mutations : status'[n] = "none" <=> n > Len(author')
      /\ \A n \in Mutations \ {current} : status'[n] = status[n]
      /\ status'[current] \notin {"pending", "processing"}
  BY <1>1, Marked DEF Types, Present
<1>3. RowTypes'
  BY <1>2 DEF Types, RowTypes
<1>4. PassTypes'
  BY DEF Types, PassTypes, Continue, NoToken, Queued
<1>5. InHand' = batch /\ at' = "next"
  BY DEF InHand, Continue
<1>6. \A b \in batch : current < b /\ b \in InHand /\ b \in Mutations /\ b # current
  BY <1>1, Lengths DEF Snapshot, Ordered, InHand, Mutations
<1>7. SnapshotIsCurrent'
  BY <1>2, <1>5, <1>6 DEF SnapshotIsCurrent, Snapshot, Continue, Present, Pending
<1>8. ASSUME NEW m \in Mutations, Pending(m)'
      PROVE  m \in batch \/ \A b \in batch : b < m
  <2>1. m # current /\ Pending(m)
    BY <1>2, <1>8 DEF Pending
  <2>2. m \in InHand \/ \A b \in InHand : b < m
    BY <2>1 DEF Snapshot, Ordered
  <2> QED  BY <1>6, <2>1, <2>2, InHandIs
<1> QED  BY <1>3, <1>4, <1>5, <1>7, <1>8 DEF Snapshot, Ordered

-----------------------------------------------------------------------------
(* Every step keeps the types and the snapshot of the pass.                *)

QueueInv == Types /\ Snapshot

LEMMA QueueInit == Init => QueueInv
<1> SUFFICES ASSUME Init PROVE QueueInv
  OBVIOUS
<1>1. Len(author) = 0 /\ Len(issued) = 0 /\ author \in Seq(Mutation) /\ issued \in Seq(Accounts)
  BY DEF Init
<1>2. RowTypes
  BY <1>1, OfflineAssumption DEF Init, RowTypes, Mutations
<1>3. UserTypes
  BY <1>1, OfflineAssumption DEF Init, UserTypes, NoToken
<1>4. PassTypes
  BY <1>1, OfflineAssumption DEF Init, PassTypes, Ref, NoToken
<1>5. EffectTypes
  BY DEF Init, EffectTypes
<1>6. LateTypes
  BY OfflineAssumption DEF Init, LateTypes
<1>7. DueTypes
  BY OfflineAssumption DEF Init, DueTypes
<1>8. Snapshot
  BY DEF Init, Snapshot, SnapshotIsCurrent, Ordered, InHand
<1> QED  BY <1>2, <1>3, <1>4, <1>5, <1>6, <1>7, <1>8 DEF QueueInv, Types

\* Nothing is added.
LEMMA Unadded ==
  ASSUME Types, author' = author, issued' = issued
  PROVE  Grows /\ Len(author)' \in Nat /\ Len(issued)' \in Nat
BY Lengths DEF Grows

LEMMA RowsUnchanged ==
  ASSUME Types, UNCHANGED rows
  PROVE  RowTypes' /\ RowsKeep
BY DEF Types, RowTypes, rows, RowsKeep

LEMMA UserUnchanged ==
  ASSUME Types, UNCHANGED <<user, online, issued, expired, kills>>
  PROVE  UserTypes'
BY DEF Types, UserTypes, user

LEMMA QueueEnqueues ==
  ASSUME QueueInv, NEW kind \in Offered, EnqueueMutation(kind)
  PROVE  QueueInv'
<1>1. Types /\ Snapshot
  BY DEF QueueInv
<1>2. PICK m : m = Len(author) + 1
  OBVIOUS
<1>3. m \in Mutations /\ Len(author) \in Nat
  BY <1>1, <1>2, Lengths, OfflineAssumption DEF EnqueueMutation, Mutations
<1>4. PICK row : row = [account |-> issued[access], kind |-> kind]
  OBVIOUS
<1>5. row \in Mutation
  <2>1. access \in 1 .. Len(issued) /\ issued \in Seq(Accounts)
    BY <1>1, Lengths DEF EnqueueMutation, Types, UserTypes, NoToken
  <2>2. issued[access] \in Accounts
    BY <2>1, ElementOfSeq
  <2> QED  BY <1>4, <2>2, OfflineAssumption DEF Mutation
<1>6. author' = Append(author, row) /\ status' = [status EXCEPT ![m] = "pending"]
  BY <1>2, <1>4 DEF EnqueueMutation
<1>7. author' \in Seq(Mutation) /\ Len(author') = m
  BY <1>1, <1>2, <1>5, <1>6, AppendProperties DEF Types, RowTypes
<1>8. RowTypes'
  BY <1>1, <1>2, <1>3, <1>6, <1>7 DEF Types, RowTypes, EnqueueMutation, Mutations
<1>9. Grows /\ Len(author)' \in Nat /\ Len(issued)' \in Nat
  BY <1>1, <1>2, <1>3, <1>7, Lengths DEF Grows, EnqueueMutation, api
<1>10. RowsKeep
  BY <1>1, <1>2, <1>3, <1>6 DEF RowsKeep, EnqueueMutation, Types, RowTypes
<1>11. DueTypes'
  <2>1. access \in 0 .. Len(issued)
    BY <1>1 DEF Types, UserTypes
  <2> QED  BY <1>1, <1>9, <2>1, DueStays, DueScheduled DEF EnqueueMutation
<1>12. UserTypes' /\ PassTypes' /\ EffectTypes' /\ LateTypes'
  BY <1>1, <1>9, UserUnchanged, PassStays, EffectsStay, LateStays DEF EnqueueMutation, api
<1>13. Snapshot'
  BY <1>1, <1>10, SnapshotKept DEF EnqueueMutation, pass
<1> QED  BY <1>8, <1>11, <1>12, <1>13 DEF QueueInv, Types

LEMMA QueuePasses ==
  ASSUME QueueInv, (\E d \in Deps : ProcessQueue(d)) \/ Pass
  PROVE  QueueInv'
<1>1. Types /\ Snapshot
  BY DEF QueueInv
<1>2. /\ UNCHANGED <<author, retryCount, user, online, late, api, kills, delayed>>
      /\ Grows /\ Len(author)' \in Nat /\ Len(issued)' \in Nat
  BY <1>1, Unadded DEF ProcessQueue, Pass, ListPendingMutations, TakeNext, Send, rows, api
<1>3. UserTypes' /\ EffectTypes' /\ LateTypes'
  BY <1>1, <1>2, UserUnchanged, EffectsStay, LateStays DEF api
<1>4. ASSUME NEW d \in Deps, ProcessQueue(d)
      PROVE  RowTypes' /\ DueTypes' /\ PassTypes' /\ Snapshot'
  <2>1. RowTypes' /\ RowsKeep
    BY <1>1, <1>4, RowsUnchanged DEF ProcessQueue
  <2>2. due[d] \in 0 .. MaxDue /\ due[d] > 0 /\ d <= Len(issued)
    BY <1>1, <1>4 DEF ProcessQueue, Types, DueTypes
  <2>3. DueTypes'
    <3>1. due' = [due EXCEPT ![d] = due[d] - 1] /\ due[d] - 1 \in 0 .. MaxDue
      BY <1>4, <2>2, OfflineAssumption DEF ProcessQueue
    <3>2. due' \in [Deps -> 0 .. MaxDue]
      BY <1>1, <3>1 DEF Types, DueTypes
    <3>3. ASSUME NEW e \in Deps, due'[e] > 0
          PROVE  due[e] > 0
      BY <1>1, <2>2, <3>1, <3>3 DEF Types, DueTypes
    <3> QED  BY <1>1, <1>2, <3>2, <3>3 DEF Types, DueTypes, api
  <2>4. CASE at = "idle"
    <3>1. at' = "list" /\ deps' = d /\ d \in 0 .. Len(issued)
      BY <1>1, <1>4, <2>2, <2>4, Lengths DEF ProcessQueue, Deps, Ref, Tokens
    <3>2. PassTypes'
      BY <1>1, <1>2, <1>4, <3>1 DEF ProcessQueue, Types, PassTypes, Queued, api
    <3>3. InHand' = InHand
      BY <1>4, <2>4, <3>1 DEF ProcessQueue, InHand
    <3>4. Snapshot'
      BY <1>1, <1>4, <2>4, <3>1, <3>3
         DEF ProcessQueue, rows, Snapshot, SnapshotIsCurrent, Ordered, Present, Pending
    <3> QED  BY <2>1, <2>3, <3>2, <3>4
  <2>5. CASE at # "idle"
    <3>1. UNCHANGED pass
      BY <1>4, <2>5 DEF ProcessQueue, pass
    <3> QED  BY <1>1, <1>2, <2>1, <2>3, <3>1, PassStays, SnapshotKept DEF pass
  <2> QED  BY <2>4, <2>5
<1>5. CASE ListPendingMutations
  <2>1. RowTypes' /\ DueTypes'
    BY <1>1, <1>2, <1>5, RowsUnchanged, DueStays DEF ListPendingMutations
  <2>2. /\ at' = "next" /\ batch' = {m \in Mutations : Pending(m)} /\ seen' = retryCount
        /\ UNCHANGED <<status, retryCount>>
    BY <1>5 DEF ListPendingMutations, rows
  <2>3. batch' \subseteq Queued
    BY <1>1, <2>2, Lengths DEF Types, RowTypes, Pending, Queued, Mutations
  <2>4. PassTypes'
    BY <1>1, <1>2, <1>5, <2>2, <2>3
       DEF ListPendingMutations, Types, PassTypes, RowTypes, Queued, api
  <2>5. InHand' = batch'
    BY <2>2 DEF InHand
  <2>6. Snapshot'
    BY <2>2, <2>5 DEF Snapshot, SnapshotIsCurrent, Ordered, Pending, Present
  <2> QED  BY <1>3, <2>1, <2>4, <2>6 DEF QueueInv, Types
<1>6. CASE TakeNext
  <2>1. RowTypes' /\ DueTypes'
    BY <1>1, <1>2, <1>6, RowsUnchanged, DueStays DEF TakeNext
  <2>2. CASE Stop
    BY <1>1, <1>2, <1>3, <2>1, <2>2, Stopped DEF QueueInv, Types
  <2>3. CASE /\ current' \in batch /\ \A m \in batch : current' <= m
             /\ batch' = batch \ {current'}
             /\ token' = GetAccessToken(deps) /\ GetAccessToken(deps) # NoToken
             /\ at' = "mark"
             /\ UNCHANGED <<seen, deps, reply>>
    <3>1. current' \in Queued /\ current' \in Mutations /\ batch \subseteq Queued
      BY <1>1, <2>3, Lengths DEF Types, PassTypes
    <3>2. GetAccessToken(deps) \in 1 .. Len(issued)
      BY <1>1, <2>3, Lengths DEF Types, PassTypes, UserTypes, GetAccessToken, NoToken, Ref
    <3>3. PassTypes'
      BY <1>1, <1>2, <2>3, <3>1, <3>2, Lengths DEF Types, PassTypes, Queued, api
    <3>4. InHand = batch /\ InHand' = batch
      BY <1>6, <2>3 DEF TakeNext, InHand
    <3>5. \A b \in batch' : current' < b
      BY <2>3, <3>1, Lengths DEF Mutations
    <3>6. UNCHANGED <<status, retryCount, seen>> /\ at = "next"
      BY <1>6, <2>3 DEF TakeNext, rows
    <3>7. SnapshotIsCurrent'
      BY <1>1, <3>4, <3>6 DEF Snapshot, SnapshotIsCurrent, Present, Pending
    <3>8. \A m \in Mutations : Pending(m)' => m \in batch \/ \A b \in batch : b < m
      BY <1>1, <3>4, <3>6 DEF Snapshot, Ordered, Pending
    <3>9. Snapshot'
      BY <2>3, <3>4, <3>5, <3>7, <3>8 DEF Snapshot, Ordered
    <3> QED  BY <1>3, <2>1, <3>3, <3>9 DEF QueueInv, Types
  <2> QED  BY <1>6, <2>2, <2>3 DEF TakeNext
<1>7. CASE Send
  <2>1. current \in Queued /\ current \in Mutations
    BY <1>1, <1>7, Lengths DEF Send, Types, PassTypes
  <2>2. /\ status' \in [Mutations -> {"none", "pending", "processing", "failed", "deleted"}]
        /\ \A n \in Mutations : status'[n] = "none" <=> n > Len(author')
        /\ \A n \in Mutations \ {current} : status'[n] = status[n]
        /\ Present(current) => status'[current] = "processing"
        /\ ~Present(current) => status'[current] = status[current]
    BY <1>1, <1>2, <1>7, <2>1, Marked DEF Types, Send
  <2>3. RowTypes' /\ DueTypes'
    BY <1>1, <1>2, <1>7, <2>2, DueStays DEF Types, RowTypes, Send
  <2>4. PassTypes'
    BY <1>1, <1>2, <1>7 DEF Types, PassTypes, Send, Queued, api
  <2>5. InHand' = InHand /\ current \in InHand
    BY <1>7 DEF Send, InHand
  <2>6. SnapshotIsCurrent'
    <3>1. ASSUME NEW m \in InHand, Present(m)'
          PROVE  Pending(m)' /\ seen'[m] = retryCount'[m]
      <4>1. m \in Mutations /\ seen' = seen /\ retryCount' = retryCount
        BY <1>1, <1>7, Lengths DEF Send, InHand, Types, PassTypes
      <4>2. Present(m)
        BY <2>2, <3>1, <4>1 DEF Present
      <4>3. Pending(m) /\ seen[m] = retryCount[m]
        BY <1>1, <4>2 DEF Snapshot, SnapshotIsCurrent
      <4>4. status'[m] \in {"processing", status[m]}
        BY <2>2, <4>1
      <4> QED  BY <4>1, <4>3, <4>4 DEF Pending
    <3> QED  BY <2>5, <3>1 DEF SnapshotIsCurrent
  <2>7. ASSUME NEW m \in Mutations, Pending(m)'
        PROVE  m \in InHand \/ \A b \in InHand : b < m
    <3>1. CASE m = current
      BY <2>5, <3>1
    <3>2. CASE m # current
      BY <1>1, <1>7, <2>2, <2>7, <3>2 DEF Snapshot, Ordered, Pending, Send
    <3> QED  BY <3>1, <3>2
  <2>8. Ordered'
    BY <1>1, <1>7, <2>5, <2>7 DEF Snapshot, Ordered, Send
  <2> QED  BY <1>3, <2>3, <2>4, <2>6, <2>8 DEF Snapshot, QueueInv, Types
<1> QED  BY <1>3, <1>4, <1>5, <1>6, <1>7 DEF QueueInv, Types, Pass

\* A request that is given up waits at the API with the token it was sent with.
LEMMA GivenUp ==
  ASSUME Types, at = "answer", GiveUpRequest, author' = author, issued' = issued
  PROVE  LateTypes'
<1>1. current \in Queued /\ token \in 1 .. Len(issued)
  BY DEF Types, PassTypes
<1>2. CASE UNCHANGED <<late, delayed>>
  BY <1>2 DEF Types, LateTypes, Queued
<1>3. CASE /\ reply = "none" /\ delayed < MaxDelayed
           /\ late' = late \cup {[mutation |-> current, token |-> token]}
           /\ delayed' = delayed + 1
  <2>1. delayed' \in 0 .. MaxDelayed
    BY <1>3, OfflineAssumption DEF Types, LateTypes
  <2>2. [mutation |-> current, token |-> token] \in [mutation: Queued, token: 1 .. Len(issued)]
    BY <1>1
  <2> QED  BY <1>3, <2>1, <2>2 DEF Types, LateTypes, Queued
<1> QED  BY <1>2, <1>3 DEF GiveUpRequest

LEMMA QueueReceives ==
  ASSUME QueueInv, Receive \/ NetworkFails
  PROVE  QueueInv'
<1>1. Types /\ Snapshot
  BY DEF QueueInv
<1>2. /\ UNCHANGED <<author, user, online, api, kills>> /\ at = "answer"
      /\ author' = author /\ issued' = issued
      /\ Grows /\ Len(author)' \in Nat /\ Len(issued)' \in Nat
  BY <1>1, Unadded
     DEF Receive, ReceiveOk, ReceiveUnauthorized, ReceiveTransient, ReceiveRejected, Received,
         NetworkFails, api
<1>3. UserTypes' /\ EffectTypes'
  BY <1>1, <1>2, UserUnchanged, EffectsStay DEF api
<1>4. LateTypes'
  <2>1. CASE Receive
    BY <1>1, <1>2, <2>1, LateStays
       DEF Receive, ReceiveOk, ReceiveUnauthorized, ReceiveTransient, ReceiveRejected, Received
  <2>2. CASE NetworkFails
    BY <1>1, <1>2, <2>2, GivenUp DEF NetworkFails
  <2> QED  BY <2>1, <2>2
<1>5. current \in Queued /\ current \in Mutations
  BY <1>1, <1>2, Lengths DEF Types, PassTypes
<1>6. ASSUME NEW s \in {"pending", "failed"}, status' = Mark(current, s),
             retryCount' = retryCount
      PROVE  RowTypes'
  <2>1. s \in {"pending", "processing", "failed", "deleted"} /\ RowTypes
    BY <1>1 DEF Types
  <2>2. /\ status' \in [Mutations -> {"none", "pending", "processing", "failed", "deleted"}]
        /\ \A n \in Mutations : status'[n] = "none" <=> n > Len(author')
    BY <1>2, <1>5, <1>6, <2>1, Marked
  <2> QED  BY <1>2, <1>6, <2>1, <2>2 DEF RowTypes
<1>7. CASE ReceiveOk \/ ReceiveRejected
  <2>1. PICK s \in {"failed", "deleted"} : status' = Mark(current, s)
    BY <1>7 DEF ReceiveOk, ReceiveRejected
  <2>2. Continue /\ UNCHANGED <<retryCount, due>>
    BY <1>7 DEF ReceiveOk, ReceiveRejected
  <2>3. RowTypes' /\ PassTypes' /\ Snapshot'
    BY <1>1, <1>2, <2>1, <2>2, Continued
  <2> QED  BY <1>1, <1>2, <1>3, <1>4, <2>2, <2>3, DueStays DEF QueueInv, Types
<1>8. CASE ReceiveUnauthorized \/ NetworkFails
  <2>1. status' = Mark(current, "pending") /\ UNCHANGED <<retryCount, due>> /\ Stop
    BY <1>8 DEF ReceiveUnauthorized, NetworkFails
  <2>2. RowTypes'
    BY <1>6, <2>1
  <2> QED  BY <1>1, <1>2, <1>3, <1>4, <2>1, <2>2, Stopped, DueStays DEF QueueInv, Types
<1>9. CASE ReceiveTransient
  <2>1. CASE seen[current] + 1 >= MaxTransientRetries
    <3>1. status' = Mark(current, "failed") /\ Continue /\ UNCHANGED <<retryCount, due>>
      BY <1>9, <2>1 DEF ReceiveTransient
    <3>2. RowTypes' /\ PassTypes' /\ Snapshot'
      BY <1>1, <1>2, <3>1, Continued
    <3> QED  BY <1>1, <1>2, <1>3, <1>4, <3>1, <3>2, DueStays DEF QueueInv, Types
  <2>2. CASE ~(seen[current] + 1 >= MaxTransientRetries)
    <3>1. /\ retryCount' =
               [retryCount EXCEPT ![current] = IF Present(current) THEN @ + 1 ELSE @]
          /\ Schedule(deps) /\ Stop /\ status' = status
      BY <1>9, <2>2 DEF ReceiveTransient
    <3>2. seen[current] \in Nat /\ retryCount[current] \in 0 .. MaxTransientRetries - 1
      BY <1>1, <1>5 DEF Types, PassTypes, RowTypes
    <3>3. Present(current) => seen[current] = retryCount[current]
      BY <1>1, <1>2 DEF Snapshot, SnapshotIsCurrent, InHand
    <3>4. (IF Present(current) THEN retryCount[current] + 1 ELSE retryCount[current])
            \in 0 .. MaxTransientRetries - 1
      BY <2>2, <3>2, <3>3, OfflineAssumption
    <3>5. PICK n \in 0 .. MaxTransientRetries - 1 :
            retryCount' = [retryCount EXCEPT ![current] = n]
      BY <3>1, <3>4
    <3>6. RowTypes'
      BY <1>1, <1>2, <3>1, <3>5 DEF Types, RowTypes
    <3>7. DueTypes'
      BY <1>1, <1>2, <3>1, DueScheduled DEF Types, PassTypes
    <3> QED  BY <1>1, <1>2, <1>3, <1>4, <3>1, <3>6, <3>7, Stopped DEF QueueInv, Types
  <2> QED  BY <2>1, <2>2
<1> QED  BY <1>7, <1>8, <1>9 DEF Receive

\* An effect is counted, and is the newest of its tenant.
LEMMA Applies ==
  ASSUME Types, NEW m \in Queued, NEW a \in Accounts, Apply(m, a), author' = author
  PROVE  /\ EffectTypes'
         /\ applied'[m][a] > 0
         /\ \A n \in Mutations, b \in Accounts :
              (n # m \/ b # a) => applied'[n][b] = applied[n][b]
<1>1. m \in Mutations
  BY Lengths
<1>2. applied[m][a] \in 0 .. 2
  BY <1>1 DEF Types, EffectTypes
<1>3. PICK n \in 1 .. 2 : applied' = [applied EXCEPT ![m][a] = n]
  <2>1. (IF applied[m][a] < 2 THEN applied[m][a] + 1 ELSE applied[m][a]) \in 1 .. 2
    BY <1>2
  <2>2. applied' = [applied EXCEPT
                      ![m][a] = IF applied[m][a] < 2 THEN applied[m][a] + 1 ELSE applied[m][a]]
    BY DEF Apply
  <2> QED  BY <2>1, <2>2
<1>4. /\ applied' \in [Mutations -> [Accounts -> 0 .. 2]]
      /\ applied'[m][a] = n
      /\ \A k \in Mutations, b \in Accounts :
           (k # m \/ b # a) => applied'[k][b] = applied[k][b]
  BY <1>1, <1>3 DEF Types, EffectTypes
<1>5. newest' \in [Accounts -> {0} \cup Queued] /\ Queued' = Queued
  BY DEF Apply, Types, EffectTypes, Queued
<1> QED  BY <1>4, <1>5 DEF EffectTypes

\* What serving a request changes.
LEMMA Served ==
  ASSUME Types, NEW m \in Queued, NEW t \in 1 .. Len(issued), NEW answer, Serves(m, t, answer),
         author' = author
  PROVE  /\ EffectTypes'
         /\ issued[t] \in Accounts
         /\ \/ UNCHANGED <<applied, newest>>
            \/ /\ Apply(m, issued[t]) /\ Accepts(m, issued[t])
               /\ answer \in {"ok", "transient"}
         /\ answer = "ok" =>
              \/ Apply(m, issued[t]) /\ Accepts(m, issued[t])
              \/ UNCHANGED <<applied, newest>> /\ Deduplicates(m, issued[t])
<1>1. PICK effect \in BOOLEAN :
        /\ IF t \in expired
           THEN answer = "unauthorized" /\ ~effect
           ELSE Handles(m, issued[t], answer, effect)
        /\ IF effect THEN Apply(m, issued[t]) ELSE UNCHANGED <<applied, newest>>
  BY DEF Serves
<1>2. issued[t] \in Accounts
  BY ElementOfSeq DEF Types, UserTypes
<1>3. CASE effect
  <2>1. Apply(m, issued[t]) /\ Accepts(m, issued[t]) /\ answer \in {"ok", "transient"}
    BY <1>1, <1>3 DEF Handles
  <2> QED  BY <1>2, <2>1, Applies
<1>4. CASE ~effect
  <2>1. UNCHANGED <<applied, newest>> /\ (answer = "ok" => Deduplicates(m, issued[t]))
    BY <1>1, <1>4 DEF Handles
  <2>2. EffectTypes'
    BY <2>1 DEF Types, EffectTypes, Queued
  <2> QED  BY <1>2, <2>1, <2>2
<1> QED  BY <1>3, <1>4

LEMMA QueueServes ==
  ASSUME QueueInv, Serve \/ ServeLate \/ \E t \in Tokens : Expire(t)
  PROVE  QueueInv'
<1>1. Types /\ Snapshot
  BY DEF QueueInv
<1>2. /\ UNCHANGED <<rows, user, online, batch, seen, at, current, due, kills, delayed>>
      /\ author' = author /\ issued' = issued
      /\ Grows /\ Len(author)' \in Nat /\ Len(issued)' \in Nat
  BY <1>1, Unadded DEF Serve, ServeLate, Expire, rows, pass
<1>3. RowTypes' /\ DueTypes' /\ Snapshot'
  BY <1>1, <1>2, RowsUnchanged, DueStays, SnapshotKept
<1>4. CASE Serve
  <2>1. PICK answer \in Replies : Serves(current, token, answer) /\ reply' = answer
    BY <1>4 DEF Serve
  <2>2. current \in Queued /\ token \in 1 .. Len(issued)
    BY <1>1, <1>4 DEF Serve, Types, PassTypes
  <2>3. EffectTypes'
    BY <1>1, <1>2, <2>1, <2>2, Served
  <2>4. PassTypes'
    BY <1>1, <1>4, <1>2, <2>1 DEF Serve, Types, PassTypes, Queued
  <2>5. UserTypes' /\ LateTypes'
    BY <1>1, <1>2, <1>4, UserUnchanged, LateStays DEF Serve
  <2> QED  BY <1>3, <2>3, <2>4, <2>5 DEF QueueInv, Types
<1>5. CASE ServeLate
  <2>1. PICK request \in late, answer \in Replies :
          Serves(request.mutation, request.token, answer) /\ late' = late \ {request}
    BY <1>5 DEF ServeLate
  <2>2. request.mutation \in Queued /\ request.token \in 1 .. Len(issued)
    BY <1>1, <2>1 DEF Types, LateTypes
  <2>3. EffectTypes'
    BY <1>1, <1>2, <2>1, <2>2, Served
  <2>4. PassTypes' /\ UserTypes' /\ LateTypes'
    BY <1>1, <1>2, <1>5, <2>1, PassStays, UserUnchanged, LateStays DEF ServeLate
  <2> QED  BY <1>3, <2>3, <2>4 DEF QueueInv, Types
<1>6. ASSUME NEW t \in Tokens, Expire(t)
      PROVE  QueueInv'
  <2>1. expired' \subseteq 1 .. Len(issued)
    BY <1>1, <1>6, Lengths DEF Expire, Types, UserTypes, Tokens
  <2>2. UserTypes'
    BY <1>1, <1>2, <2>1 DEF Types, UserTypes, user
  <2>3. PassTypes' /\ LateTypes' /\ EffectTypes'
    BY <1>1, <1>2, <1>6, PassStays, LateStays, EffectsStay DEF Expire
  <2> QED  BY <1>3, <2>2, <2>3 DEF QueueInv, Types
<1> QED  BY <1>4, <1>5, <1>6

LEMMA QueueOpens ==
  ASSUME QueueInv, NEW a \in Accounts, Establish(a), session # "authenticated"
  PROVE  QueueInv'
<1>1. Types /\ Snapshot
  BY DEF QueueInv
<1>2. /\ issued' = Append(issued, a) /\ Len(issued') = Len(issued) + 1
      /\ issued' \in Seq(Accounts) /\ Len(issued') <= MaxSessions
  BY <1>1, Lengths, AppendProperties, OfflineAssumption DEF Establish, Types, UserTypes
<1>3. /\ Grows /\ Len(author)' \in Nat /\ Len(issued)' \in Nat
      /\ UNCHANGED <<rows, pass, late, applied, newest, delayed>> /\ author' = author
  BY <1>1, <1>2, Lengths DEF Establish, Grows, rows
<1>4. UserTypes'
  BY <1>1, <1>2, Lengths DEF Establish, Types, UserTypes, NoToken
<1>5. DueTypes'
  <2>1. Ref \in 0 .. Len(issued) /\ Schedule(Ref)
    BY <1>1, Lengths DEF Ref, Establish
  <2> QED  BY <1>1, <1>3, <2>1, DueScheduled
<1>6. RowTypes' /\ Snapshot' /\ PassTypes' /\ LateTypes' /\ EffectTypes'
  BY <1>1, <1>3, RowsUnchanged, SnapshotKept, PassStays, LateStays, EffectsStay DEF pass
<1> QED  BY <1>4, <1>5, <1>6 DEF QueueInv, Types

\* A purge of the table and of the session.
LEMMA QueuePurges ==
  ASSUME QueueInv, status' = PurgeTenantScoped,
         UNCHANGED <<author, retryCount, online, pass, due, late, api, kills, delayed>>
  PROVE  RowTypes' /\ PassTypes' /\ EffectTypes' /\ LateTypes' /\ DueTypes' /\ Snapshot'
<1>1. Types /\ Snapshot /\ RowTypes
  BY DEF QueueInv, Types
<1>2. /\ status' \in [Mutations -> {"none", "pending", "processing", "failed", "deleted"}]
      /\ \A n \in Mutations : status'[n] = "none" <=> n > Len(author')
      /\ \A n \in Mutations : Present(n) => status'[n] = "deleted"
      /\ \A n \in Mutations : ~Present(n) => status'[n] = status[n]
  BY <1>1, Purged
<1>3. RowTypes'
  BY <1>1, <1>2 DEF RowTypes
<1>4. RowsKeep
  BY <1>2 DEF RowsKeep, Present
<1>5. /\ author' = author /\ issued' = issued /\ Grows
      /\ Len(author)' \in Nat /\ Len(issued)' \in Nat
  BY <1>1, Unadded DEF api
<1> QED
  BY <1>1, <1>3, <1>4, <1>5, SnapshotKept, PassStays, LateStays, EffectsStay, DueStays
     DEF pass, api

LEMMA QueueLeaves ==
  ASSUME QueueInv,
         NothingToRestore \/ RefreshRefused \/ RefreshUnreachable \/ Logout \/ GoOffline \/ GoOnline
  PROVE  QueueInv'
<1>1. Types /\ Snapshot
  BY DEF QueueInv
<1>2. CASE EndRestore
  <2>1. UserTypes'
    BY <1>1, <1>2 DEF EndRestore, Types, UserTypes, api
  <2>2. RowTypes' /\ PassTypes' /\ EffectTypes' /\ LateTypes' /\ DueTypes' /\ Snapshot'
    BY <1>2, QueuePurges DEF EndRestore
  <2> QED  BY <2>1, <2>2 DEF QueueInv, Types
<1>3. CASE PurgeOfflineStore
  <2>1. UserTypes'
    BY <1>1, <1>3 DEF PurgeOfflineStore, Leave, Types, UserTypes, api
  <2>2. RowTypes' /\ PassTypes' /\ EffectTypes' /\ LateTypes' /\ DueTypes' /\ Snapshot'
    BY <1>3, QueuePurges DEF PurgeOfflineStore
  <2> QED  BY <2>1, <2>2 DEF QueueInv, Types
<1>4. CASE StartLogout \/ ClearRefreshToken \/ ResetSession \/ GoOffline \/ GoOnline
  <2>1. /\ UNCHANGED <<rows, pass, late, api, kills, delayed>>
        /\ author' = author /\ issued' = issued /\ applied' = applied /\ newest' = newest
        /\ Grows /\ Len(author)' \in Nat /\ Len(issued)' \in Nat
    BY <1>1, <1>4, Unadded
       DEF StartLogout, ClearRefreshToken, ResetSession, GoOffline, GoOnline, rows, api
  <2>2. UserTypes'
    <3>1. issued' = issued /\ expired' = expired /\ kills' = kills
      BY <2>1 DEF api
    <3>2. CASE StartLogout \/ ClearRefreshToken
      BY <1>1, <3>1, <3>2 DEF StartLogout, ClearRefreshToken, Leave, Types, UserTypes
    <3>3. CASE ResetSession
      BY <1>1, <3>1, <3>3, Lengths DEF ResetSession, Leave, Types, UserTypes, NoToken
    <3>4. CASE GoOffline \/ GoOnline
      BY <1>1, <3>1, <3>4 DEF GoOffline, GoOnline, Types, UserTypes, user
    <3> QED  BY <1>4, <3>2, <3>3, <3>4
  <2>3. DueTypes'
    <3>1. Ref \in 0 .. Len(issued) /\ (due' = due \/ Schedule(Ref))
      BY <1>1, <1>4, Lengths
         DEF StartLogout, ClearRefreshToken, ResetSession, GoOffline, GoOnline, Ref
    <3> QED  BY <1>1, <2>1, <3>1, DueStays, DueScheduled
  <2>4. RowTypes' /\ Snapshot' /\ PassTypes' /\ LateTypes' /\ EffectTypes'
    BY <1>1, <2>1, RowsUnchanged, SnapshotKept, PassStays, LateStays, EffectsStay DEF pass
  <2> QED  BY <2>2, <2>3, <2>4 DEF QueueInv, Types
<1> QED
  BY <1>2, <1>3, <1>4 DEF NothingToRestore, RefreshRefused, RefreshUnreachable, Logout

LEMMA QueueIsKilled ==
  ASSUME QueueInv, Kill
  PROVE  QueueInv'
<1>1. Types /\ Snapshot
  BY DEF QueueInv
<1>2. /\ UNCHANGED <<rows, stored, online, api>> /\ author' = author /\ issued' = issued
      /\ applied' = applied /\ newest' = newest
      /\ Grows /\ Len(author)' \in Nat /\ Len(issued)' \in Nat
  BY <1>1, Unadded DEF Kill, rows, api
<1>3. UserTypes'
  BY <1>1, <1>2, Lengths, OfflineAssumption DEF Kill, Types, UserTypes, NoToken, api
<1>4. RowTypes' /\ EffectTypes' /\ PassTypes' /\ Snapshot'
  BY <1>1, <1>2, RowsUnchanged, EffectsStay, Stopped DEF Kill
<1>5. DueTypes'
  BY OfflineAssumption DEF Kill, DueTypes
<1>6. LateTypes'
  <2>1. CASE at = "answer"
    BY <1>1, <1>2, <2>1, GivenUp DEF Kill
  <2>2. CASE at # "answer"
    BY <1>1, <1>2, <2>2, LateStays DEF Kill
  <2> QED  BY <2>1, <2>2
<1> QED  BY <1>3, <1>4, <1>5, <1>6 DEF QueueInv, Types

LEMMA QueueNext == QueueInv /\ [Next]_vars => QueueInv'
<1> SUFFICES ASSUME QueueInv, [Next]_vars PROVE QueueInv'
  OBVIOUS
<1>1. CASE UNCHANGED vars
  <2>1. Types /\ Snapshot
    BY DEF QueueInv
  <2>2. UNCHANGED <<rows, user, online, pass, due, late, api, kills, delayed>>
    BY <1>1 DEF vars
  <2>3. /\ author' = author /\ issued' = issued /\ applied' = applied /\ newest' = newest
        /\ Grows /\ Len(author)' \in Nat /\ Len(issued)' \in Nat
    BY <2>1, <2>2, Unadded DEF rows, api
  <2> QED
    BY <2>1, <2>2, <2>3, RowsUnchanged, UserUnchanged, SnapshotKept, PassStays, LateStays,
       EffectsStay, DueStays DEF QueueInv, Types, pass, api
<1>2. CASE (\E d \in Deps : ProcessQueue(d)) \/ Pass
  BY <1>2, QueuePasses
<1>3. CASE \E kind \in Offered : EnqueueMutation(kind)
  BY <1>3, QueueEnqueues
<1>4. CASE Receive \/ NetworkFails
  BY <1>4, QueueReceives
<1>5. CASE Serve \/ ServeLate \/ \E t \in Tokens : Expire(t)
  BY <1>5, QueueServes
<1>6. ASSUME NEW a \in Accounts, Login(a)
      PROVE  QueueInv'
  BY <1>6, QueueOpens DEF Login
<1>7. CASE RestoreSession
  <2>1. stored \in Accounts /\ Establish(stored) /\ session # "authenticated"
    BY <1>7 DEF RestoreSession, QueueInv, Types, UserTypes
  <2> QED  BY <2>1, QueueOpens
<1>8. CASE \/ NothingToRestore \/ RefreshRefused \/ RefreshUnreachable \/ Logout
           \/ GoOffline \/ GoOnline
  BY <1>8, QueueLeaves
<1>9. CASE Kill
  BY <1>9, QueueIsKilled
<1> QED
  BY <1>1, <1>2, <1>3, <1>4, <1>5, <1>6, <1>7, <1>8, <1>9 DEF Next, Start

\* The invariant the next two follow from: types, and what a pass has in hand is current.
THEOREM QueueInvariant == Spec => []QueueInv
BY QueueInit, QueueNext, PTL DEF Spec

\* In every state the rows, the session, the pass and what the API keeps have their shapes;
\* no mutation stays pending after MAX_TRANSIENT_RETRIES transient answers.
THEOREM QueueTypes == Spec => []TypeOK
<1>1. QueueInv => TypeOK
  BY TypesSuffice DEF QueueInv
<1> QED  BY <1>1, QueueInvariant, PTL

\* What a pass has read and still uses is what the database says.
THEOREM SnapshotsAreCurrent == Spec => []SnapshotIsCurrent
<1>1. QueueInv => SnapshotIsCurrent
  BY DEF QueueInv, Snapshot
<1> QED  BY <1>1, QueueInvariant, PTL

-----------------------------------------------------------------------------
(* Effects.                                                                *)

\* Mutations are queued one at a time and keep their author.
LEMMA AuthorsMove ==
  ASSUME Types, [Next]_vars
  PROVE  \/ author' = author
         \/ /\ Len(author') = Len(author) + 1 /\ \E kind \in Offered : EnqueueMutation(kind)
            /\ \A m \in Queued : author'[m] = author[m]
<1>1. ASSUME NEW kind \in Offered, EnqueueMutation(kind)
      PROVE  /\ Len(author') = Len(author) + 1
              /\ \A m \in Queued : author'[m] = author[m]
  <2>1. PICK row : row = [account |-> issued[access], kind |-> kind]
    OBVIOUS
  <2>2. author' = Append(author, row)
    BY <1>1, <2>1 DEF EnqueueMutation
  <2>3. author \in Seq(Mutation \cup {row}) /\ row \in Mutation \cup {row}
    BY DEF Types, RowTypes
  <2>4. /\ Len(author') = Len(author) + 1 /\ author'[Len(author) + 1] = row
        /\ \A m \in 1 .. Len(author) : author'[m] = author[m]
    BY <2>2, <2>3, AppendProperties
  <2> QED  BY <2>2, <2>4 DEF Queued
<1>2. author' = author \/ \E kind \in Offered : EnqueueMutation(kind)
  BY DEF Next, Start, Pass, Receive, Logout, vars, rows, ProcessQueue, ListPendingMutations,
         TakeNext, Send, ReceiveOk, ReceiveUnauthorized, ReceiveTransient, ReceiveRejected,
         Received, NetworkFails, Serve, ServeLate, Expire, Login, RestoreSession, Establish,
         EndRestore, NothingToRestore, RefreshRefused, RefreshUnreachable, StartLogout,
         PurgeOfflineStore, ClearRefreshToken, ResetSession, GoOffline, GoOnline, Kill
<1> QED  BY <1>1, <1>2

\* Effects are those of the request in hand, or of one that was given up.
IsServed(m) ==
  \/ Serve /\ m = current
  \/ ServeLate /\ \E request \in late : m = request.mutation

LEMMA EffectsMove ==
  ASSUME Types, [Next]_vars
  PROVE  \/ applied' = applied
         \/ /\ author' = author
            /\ \E m \in Queued, a \in Accounts : IsServed(m) /\ Apply(m, a) /\ Accepts(m, a)
<1>1. CASE Serve
  <2>1. PICK answer \in Replies : Serves(current, token, answer)
    BY <1>1 DEF Serve
  <2>2. current \in Queued /\ token \in 1 .. Len(issued) /\ author' = author
    BY <1>1 DEF Serve, Types, PassTypes, rows
  <2> QED  BY <1>1, <2>1, <2>2, Served DEF IsServed
<1>2. CASE ServeLate
  <2>1. PICK request \in late, answer \in Replies :
          Serves(request.mutation, request.token, answer)
    BY <1>2 DEF ServeLate
  <2>2. request.mutation \in Queued /\ request.token \in 1 .. Len(issued) /\ author' = author
    BY <1>2, <2>1 DEF ServeLate, Types, LateTypes, rows
  <2>3. PICK m, t : m = request.mutation /\ t = request.token
    OBVIOUS
  <2>4. m \in Queued /\ t \in 1 .. Len(issued) /\ Serves(m, t, answer) /\ IsServed(m)
    BY <1>2, <2>1, <2>2, <2>3 DEF IsServed
  <2> QED  BY <2>2, <2>4, Served
<1>3. applied' = applied \/ Serve \/ ServeLate
  BY DEF Next, Start, Pass, Receive, Logout, vars, api, ProcessQueue, ListPendingMutations,
         TakeNext, Send, ReceiveOk, ReceiveUnauthorized, ReceiveTransient, ReceiveRejected,
         Received, NetworkFails, EnqueueMutation, Expire, Login, RestoreSession, Establish,
         EndRestore, NothingToRestore, RefreshRefused, RefreshUnreachable, StartLogout,
         PurgeOfflineStore, ClearRefreshToken, ResetSession, GoOffline, GoOnline, Kill
<1> QED  BY <1>1, <1>2, <1>3

\* Only what was queued has effects.
EffectsAreQueued == \A m \in Mutations, a \in Accounts : applied[m][a] > 0 => m \in Queued

LEMMA EffectsAreQueuedNext ==
  ASSUME Types, EffectsAreQueued, [Next]_vars
  PROVE  EffectsAreQueued'
<1>1. Queued \subseteq Queued'
  BY AuthorsMove, Lengths DEF Queued
<1>2. CASE applied' = applied
  BY <1>1, <1>2 DEF EffectsAreQueued
<1>3. ASSUME NEW m \in Queued, NEW a \in Accounts, Apply(m, a), author' = author
      PROVE  EffectsAreQueued'
  BY <1>1, <1>3, Applies DEF EffectsAreQueued
<1> QED  BY <1>2, <1>3, EffectsMove

\* Effects stay in the tenant of the author, but for those of a customer, supplier or product,
\* and an answer that all is well says that there was one.
EffectsAtHome ==
  /\ EffectsAreQueued
  /\ \A m \in Queued, a \in Accounts :
       applied[m][a] > 0 /\ author[m].kind # "record" => author[m].account = a

HadEffect(m) ==
  \E a \in Accounts : applied[m][a] > 0 /\ (author[m].kind # "record" => a = author[m].account)

AnswersAreTrue ==
  /\ at # "answer" => reply = "none"
  /\ at = "answer" /\ reply = "ok" => HadEffect(current)

HomeInv == QueueInv /\ EffectsAtHome /\ AnswersAreTrue

LEMMA HomeInit == Init => HomeInv
<1> SUFFICES ASSUME Init PROVE HomeInv
  OBVIOUS
<1>1. Queued = {}
  BY DEF Init, Queued
<1>2. EffectsAtHome
  BY <1>1 DEF Init, EffectsAtHome, EffectsAreQueued
<1>3. AnswersAreTrue
  BY DEF Init, AnswersAreTrue
<1> QED  BY <1>2, <1>3, QueueInit DEF HomeInv

LEMMA EffectsAtHomeNext ==
  ASSUME HomeInv, [Next]_vars
  PROVE  EffectsAtHome'
<1>1. Types /\ EffectsAtHome
  BY DEF HomeInv, QueueInv
<1>2. EffectsAreQueued'
  BY <1>1, EffectsAreQueuedNext DEF EffectsAtHome
<1>3. CASE author' = author /\ applied' = applied
  BY <1>1, <1>2, <1>3 DEF EffectsAtHome, Queued
<1>4. ASSUME NEW m \in Queued, NEW a \in Accounts, Apply(m, a), Accepts(m, a), author' = author
      PROVE  EffectsAtHome'
  <2>1. author[m].kind # "record" => author[m].account = a
    BY <1>4 DEF Accepts
  <2>2. \A n \in Mutations, b \in Accounts : (n # m \/ b # a) => applied'[n][b] = applied[n][b]
    BY <1>1, <1>4, Applies
  <2> QED  BY <1>1, <1>2, <1>4, <2>1, <2>2, Lengths DEF EffectsAtHome, Queued
<1>5. CASE /\ Len(author') = Len(author) + 1
           /\ \A m \in Queued : author'[m] = author[m]
           /\ applied' = applied
  <2>1. Queued' = Queued \cup {Len(author) + 1} /\ Len(author) + 1 \notin Queued
    BY <1>1, <1>5, Lengths DEF Queued
  <2>2. ASSUME NEW m \in Queued', NEW a \in Accounts, applied'[m][a] > 0
        PROVE  m \in Queued
    <3>1. Len(author') <= MaxMutations
      BY QueueNext DEF HomeInv, QueueInv, Types, RowTypes
    <3>2. m \in Mutations
      BY <1>1, <1>5, <3>1, Lengths, OfflineAssumption DEF Queued, Mutations
    <3> QED  BY <1>1, <1>5, <2>2, <3>2 DEF EffectsAtHome, EffectsAreQueued
  <2> QED  BY <1>1, <1>2, <1>5, <2>1, <2>2 DEF EffectsAtHome
<1>6. (\E kind \in Offered : EnqueueMutation(kind)) => applied' = applied
  BY DEF EnqueueMutation, api
<1> QED  BY <1>1, <1>3, <1>4, <1>5, <1>6, AuthorsMove, EffectsMove

LEMMA AnswersAreTrueNext ==
  ASSUME HomeInv, [Next]_vars
  PROVE  AnswersAreTrue'
<1>1. Types /\ EffectsAtHome /\ AnswersAreTrue
  BY DEF HomeInv, QueueInv
<1>2. at = "answer" => current \in Queued /\ current \in Mutations /\ token \in 1 .. Len(issued)
  BY <1>1, Lengths DEF Types, PassTypes
<1>3. CASE UNCHANGED <<at, reply, current>>
  <2>1. CASE at = "answer" /\ reply = "ok"
    <3>1. author'[current] = author[current]
      BY <1>1, <1>2, <2>1, AuthorsMove
    <3>2. PICK b \in Accounts :
            /\ applied[current][b] > 0
            /\ author[current].kind # "record" => b = author[current].account
      BY <1>1, <2>1 DEF AnswersAreTrue, HadEffect
    <3>3. applied'[current][b] > 0
      <4>1. ASSUME NEW m \in Queued, NEW a \in Accounts, Apply(m, a), author' = author
            PROVE  applied'[current][b] > 0
        <5>1. applied'[m][a] > 0
          BY <1>1, <4>1, Applies
        <5>2. (current # m \/ b # a) => applied'[current][b] = applied[current][b]
          BY <1>1, <1>2, <2>1, <4>1, Applies
        <5> QED  BY <3>2, <5>1, <5>2
      <4> QED  BY <1>1, <3>2, <4>1, EffectsMove
    <3>4. HadEffect(current)'
      BY <1>3, <3>1, <3>2, <3>3 DEF HadEffect
    <3> QED  BY <1>3, <2>1, <3>4 DEF AnswersAreTrue
  <2>2. CASE ~(at = "answer" /\ reply = "ok")
    BY <1>1, <1>3, <2>2 DEF AnswersAreTrue
  <2> QED  BY <2>1, <2>2
<1>4. CASE reply' = "none"
  BY <1>4 DEF AnswersAreTrue
<1>5. CASE Serve
  <2>1. PICK answer \in Replies : Serves(current, token, answer) /\ reply' = answer
    BY <1>5 DEF Serve
  <2>2. at = "answer" /\ at' = at /\ current' = current /\ author' = author
    BY <1>5 DEF Serve, rows
  <2>3. CASE answer = "ok"
    <3>1. PICK a \in Accounts : a = issued[token]
      BY <1>1, <1>2, <2>1, <2>2, Served
    <3>2. \/ Apply(current, a) /\ Accepts(current, a)
          \/ UNCHANGED <<applied, newest>> /\ Deduplicates(current, a)
      BY <1>1, <1>2, <2>1, <2>2, <2>3, <3>1, Served
    <3>3. CASE Apply(current, a) /\ Accepts(current, a)
      <4>1. author[current].kind # "record" => a = author[current].account
        BY <3>3 DEF Accepts
      <4>2. applied'[current][a] > 0
        BY <1>1, <1>2, <2>2, <3>3, Applies
      <4> QED  BY <2>2, <4>1, <4>2 DEF AnswersAreTrue, HadEffect
    <3>4. CASE UNCHANGED <<applied, newest>> /\ Deduplicates(current, a)
      <4>1. applied[current][a] > 0 /\ author[current].kind # "record"
        BY <3>4 DEF Deduplicates
      <4>2. author[current].account = a
        BY <1>1, <1>2, <2>2, <4>1 DEF EffectsAtHome
      <4> QED  BY <2>2, <3>4, <4>1, <4>2 DEF AnswersAreTrue, HadEffect
    <3> QED  BY <3>2, <3>3, <3>4
  <2>4. CASE answer # "ok"
    BY <2>1, <2>2, <2>4 DEF AnswersAreTrue
  <2> QED  BY <2>3, <2>4
<1>6. CASE at # "answer" /\ reply' = reply
  BY <1>1, <1>4, <1>6 DEF AnswersAreTrue
<1>7. ASSUME Continue \/ Stop
      PROVE  reply' = "none"
  BY <1>7 DEF Continue, Stop
<1>8. \/ UNCHANGED <<at, reply, current>> \/ reply' = "none" \/ Serve
      \/ at # "answer" /\ reply' = reply
  BY <1>7 DEF Next, Start, Pass, Receive, Logout, vars, pass, ProcessQueue,
         ListPendingMutations, TakeNext, Send, ReceiveOk, ReceiveUnauthorized, ReceiveTransient,
         ReceiveRejected, NetworkFails, EnqueueMutation, ServeLate, Expire, Login,
         RestoreSession, Establish, EndRestore, NothingToRestore, RefreshRefused,
         RefreshUnreachable, StartLogout, PurgeOfflineStore, ClearRefreshToken, ResetSession,
         GoOffline, GoOnline, Kill
<1> QED  BY <1>3, <1>4, <1>5, <1>6, <1>8

LEMMA HomeNext == HomeInv /\ [Next]_vars => HomeInv'
BY QueueNext, EffectsAtHomeNext, AnswersAreTrueNext DEF HomeInv

\* What a row that is deleted outside a purge had been answered.
LEMMA DoneNext ==
  ASSUME HomeInv, [Next]_vars, session = "authenticated", leaving # "purge",
         NEW m \in Mutations, Present(m), status'[m] = "deleted"
  PROVE  HadEffect(m)
<1>1. Types /\ AnswersAreTrue
  BY DEF HomeInv, QueueInv
<1>2. status[m] # "deleted"
  BY DEF Present
<1>3. ASSUME NEW n, NEW s, status' = Mark(n, s)
      PROVE  n = m /\ s = "deleted"
  BY <1>1, <1>2, <1>3 DEF Mark, Types, RowTypes
<1>4. CASE ReceiveOk
  BY <1>1, <1>3, <1>4 DEF ReceiveOk, Received, AnswersAreTrue
<1>5. ASSUME NEW kind, EnqueueMutation(kind)
      PROVE  FALSE
  BY <1>1, <1>2, <1>5 DEF EnqueueMutation, Types, RowTypes
<1>6. ~(status' = status)
  BY <1>2
<1>7. ReceiveOk
  BY <1>3, <1>5, <1>6
     DEF Next, Start, Pass, Receive, Logout, vars, rows, ProcessQueue, Leave,
         ListPendingMutations, TakeNext, Send, ReceiveUnauthorized, ReceiveTransient,
         ReceiveRejected, Received, NetworkFails, Serve, ServeLate, Expire, Login,
         RestoreSession, Establish, EndRestore, NothingToRestore, RefreshRefused,
         RefreshUnreachable, StartLogout, PurgeOfflineStore, ClearRefreshToken, ResetSession,
         GoOffline, GoOnline, Kill
<1> QED  BY <1>4, <1>7

\* Whatever mutations the screens offer, a row leaves the queue during a session once the API has
\* done what it says: in the tenant of its author, whatever tokens the passes and their timers have
\* kept, or, for a customer, supplier or product, in that of a user of the device.
THEOREM DoneWasApplied == Spec => DoneIsApplied
<1>1. HomeInv /\ [Next]_vars =>
        [\A m \in Mutations :
           /\ Present(m) /\ status'[m] = "deleted"
           /\ session = "authenticated" /\ leaving # "purge"
           => \E a \in Accounts :
                applied[m][a] > 0 /\ (author[m].kind # "record" => a = author[m].account)]_vars
  BY DoneNext DEF HadEffect
<1>2. HomeInv /\ [Next]_vars => HomeInv'
  BY HomeNext
<1> QED  BY <1>1, <1>2, HomeInit, PTL DEF Spec, DoneIsApplied

-----------------------------------------------------------------------------
(* The queue is an Outbox.                                                 *)

\* Work to come: the mutations that wait, and those a pass has in hand.
ToDo(m) == Pending(m) \/ m \in InHand

\* Nothing comes back to be done.
LEMMA NoNewWork ==
  ASSUME Types, [Next]_vars, NEW m \in Mutations, ToDo(m)'
  PROVE  ToDo(m) \/ m > Len(author)
<1>1. batch \subseteq InHand
  BY InHandIs
<1>2. CASE status' = status /\ InHand' \subseteq InHand
  BY <1>2 DEF ToDo, Pending
<1>3. ASSUME NEW s, status' = Mark(current, s), at \in {"mark", "answer"},
             InHand' \subseteq InHand
      PROVE  ToDo(m)
  <2>1. current \in InHand /\ current \in Mutations
    BY <1>3, Lengths DEF InHand, Types, PassTypes
  <2>2. m # current => status'[m] = status[m]
    BY <1>3, <2>1 DEF Mark, Types, RowTypes
  <2> QED  BY <1>3, <2>1, <2>2 DEF ToDo, Pending
<1>4. CASE status' = PurgeTenantScoped /\ UNCHANGED <<at, batch, current>>
  <2>1. Pending(m)' => Pending(m)
    BY <1>4 DEF PurgeTenantScoped, Pending, Present
  <2>2. InHand' = InHand
    BY <1>4 DEF InHand
  <2> QED  BY <2>1, <2>2 DEF ToDo
<1>5. CASE ListPendingMutations
  BY <1>5 DEF ListPendingMutations, rows, ToDo, Pending, InHand
<1>6. ASSUME NEW kind \in Offered, EnqueueMutation(kind)
      PROVE  ToDo(m) \/ m > Len(author)
  <2>1. InHand' = InHand
    BY <1>6 DEF EnqueueMutation, pass, InHand
  <2>2. m # Len(author) + 1 => status'[m] = status[m]
    BY <1>6 DEF EnqueueMutation, Types, RowTypes
  <2> QED  BY <2>1, <2>2, Lengths DEF ToDo, Pending
<1>7. ASSUME UNCHANGED <<at, batch, current>>
      PROVE  InHand' \subseteq InHand
  BY <1>7 DEF InHand
<1>8. ASSUME Continue \/ Stop
      PROVE  InHand' \subseteq InHand
  BY <1>1, <1>8 DEF Continue, Stop, InHand
<1>9. CASE \/ UNCHANGED vars \/ (\E d \in Deps : ProcessQueue(d)) \/ Serve \/ ServeLate
           \/ (\E t \in Tokens : Expire(t)) \/ RestoreSession \/ (\E a \in Accounts : Login(a))
           \/ StartLogout \/ ClearRefreshToken \/ ResetSession \/ GoOffline \/ GoOnline \/ Kill
  <2>1. status' = status
    BY <1>9 DEF vars, rows, ProcessQueue, Serve, ServeLate, Expire, RestoreSession, Login,
                Establish, StartLogout, ClearRefreshToken, ResetSession, GoOffline, GoOnline, Kill
  <2>2. ASSUME NEW d \in Deps, ProcessQueue(d)
        PROVE  InHand' \subseteq InHand
    BY <2>2 DEF ProcessQueue, InHand
  <2>3. (\E d \in Deps : ProcessQueue(d)) \/ UNCHANGED <<at, batch, current>> \/ Stop
    BY <1>9 DEF vars, pass, Serve, ServeLate, Expire, RestoreSession, Login,
                Establish, StartLogout, ClearRefreshToken, ResetSession, GoOffline, GoOnline, Kill
  <2> QED  BY <1>2, <1>7, <1>8, <2>1, <2>2, <2>3
<1>10. CASE TakeNext
  <2>1. status' = status
    BY <1>10 DEF TakeNext, rows
  <2>2. CASE ~Stop
    <3>1. current' \in batch /\ batch' = batch \ {current'}
      BY <1>10, <2>2 DEF TakeNext
    <3> QED  BY <1>1, <1>2, <2>1, <3>1 DEF InHand
  <2> QED  BY <1>2, <1>8, <2>1, <2>2
<1>11. CASE Send
  <2>1. InHand' \subseteq InHand
    BY <1>11 DEF Send, InHand
  <2> QED  BY <1>3, <1>11, <2>1 DEF Send
<1>12. CASE Receive \/ NetworkFails
  <2>1. (Continue \/ Stop) /\ at = "answer"
    BY <1>12 DEF Receive, ReceiveOk, ReceiveUnauthorized, ReceiveTransient, ReceiveRejected,
                 Received, NetworkFails
  <2>2. status' = status \/ \E s \in {"pending", "failed", "deleted"} : status' = Mark(current, s)
    BY <1>12 DEF Receive, ReceiveOk, ReceiveUnauthorized, ReceiveTransient, ReceiveRejected,
                 NetworkFails
  <2> QED  BY <1>2, <1>3, <1>8, <2>1, <2>2
<1>13. CASE NothingToRestore \/ RefreshRefused \/ RefreshUnreachable \/ PurgeOfflineStore
  BY <1>4, <1>13 DEF NothingToRestore, RefreshRefused, RefreshUnreachable, EndRestore,
                     PurgeOfflineStore, pass
<1> QED  BY <1>5, <1>6, <1>9, <1>10, <1>11, <1>12, <1>13 DEF Next, Start, Pass, Logout

\* What is still to be done comes after what has had an effect; nothing is served late.
InOrder ==
  /\ late = {}
  /\ EffectsAreQueued
  /\ \A d \in Delivered, m \in Mutations : ToDo(m) => d <= m

OrderInv == QueueInv /\ InOrder

LEMMA OrderInit == Init => OrderInv
BY QueueInit DEF Init, OrderInv, InOrder, EffectsAreQueued, Delivered, Queued

LEMMA NothingLate ==
  ASSUME MaxDelayed = 0, OrderInv, [Next]_vars
  PROVE  late' = {}
<1>1. delayed \in 0 .. MaxDelayed /\ late = {}
  BY DEF OrderInv, QueueInv, Types, LateTypes, InOrder
<1>2. ASSUME GiveUpRequest
      PROVE  late' = {}
  BY <1>1, <1>2 DEF GiveUpRequest
<1>3. ASSUME ServeLate
      PROVE  late' = {}
  BY <1>1, <1>3 DEF ServeLate
<1>4. late' = late \/ GiveUpRequest \/ ServeLate
  BY DEF Next, Start, Pass, Receive, Logout, vars, ProcessQueue, ListPendingMutations,
         TakeNext, Send, ReceiveOk, ReceiveUnauthorized, ReceiveTransient, ReceiveRejected,
         Received, NetworkFails, EnqueueMutation, Serve, Expire, Login, RestoreSession,
         Establish, EndRestore, NothingToRestore, RefreshRefused, RefreshUnreachable,
         StartLogout, PurgeOfflineStore, ClearRefreshToken, ResetSession, GoOffline, GoOnline,
         Kill
<1> QED  BY <1>1, <1>2, <1>3, <1>4

\* A step delivers nothing, or the mutation in hand, which comes after all those that were.
LEMMA Delivers ==
  ASSUME OrderInv, [Next]_vars
  PROVE  \/ Delivered' = Delivered
         \/ /\ Delivered' = Delivered \cup {current} /\ current \in Queued
            /\ author' = author /\ Serve /\ \A d \in Delivered : d <= current
<1>1. Types /\ Types' /\ EffectsAreQueued /\ Queued \subseteq Mutations
  BY QueueNext, Lengths DEF OrderInv, QueueInv, InOrder
<1>2. CASE applied' = applied
  <2>1. Queued \subseteq Queued'
    BY <1>1, AuthorsMove, Lengths DEF Queued
  <2>2. Queued' \subseteq Mutations
    BY <1>1, OfflineAssumption DEF Types, RowTypes, Queued, Mutations
  <2>3. Delivered' = Delivered
    BY <1>1, <1>2, <2>1, <2>2 DEF Delivered, EffectsAreQueued
  <2> QED  BY <2>3
<1>3. ASSUME NEW m \in Queued, NEW a \in Accounts, IsServed(m), Apply(m, a), author' = author
      PROVE  /\ Delivered' = Delivered \cup {current} /\ current \in Queued
             /\ Serve /\ \A d \in Delivered : d <= current
  <2>1. Serve /\ m = current /\ at = "answer"
    BY <1>3 DEF IsServed, ServeLate, OrderInv, InOrder, Serve
  <2>2. /\ applied'[m][a] > 0
        /\ \A n \in Mutations, b \in Accounts :
             (n # m \/ b # a) => applied'[n][b] = applied[n][b]
    BY <1>1, <1>3, Applies
  <2>3. Queued' = Queued
    BY <1>3 DEF Queued
  <2>4. Delivered' = Delivered \cup {m}
    BY <1>1, <1>3, <2>2, <2>3 DEF Delivered
  <2>5. ToDo(current)
    BY <2>1 DEF ToDo, InHand
  <2> QED  BY <1>1, <1>3, <2>1, <2>4, <2>5 DEF OrderInv, InOrder
<1> QED  BY <1>1, <1>2, <1>3, EffectsMove

LEMMA OrderNext ==
  ASSUME MaxDelayed = 0
  PROVE  OrderInv /\ [Next]_vars => OrderInv'
<1> SUFFICES ASSUME OrderInv, [Next]_vars PROVE OrderInv'
  OBVIOUS
<1>1. Types /\ EffectsAreQueued /\ EffectsAreQueued' /\ late' = {} /\ QueueInv'
  BY QueueNext, EffectsAreQueuedNext, NothingLate DEF OrderInv, QueueInv, InOrder
<1>2. ASSUME NEW d \in Delivered', NEW m \in Mutations, ToDo(m)'
      PROVE  d <= m
  <2>1. CASE d \in Delivered
    <3>1. d \in Queued
      BY <2>1 DEF Delivered
    <3>2. ToDo(m) \/ m > Len(author)
      BY <1>1, <1>2, NoNewWork
    <3> QED  BY <1>1, <2>1, <3>1, <3>2, Lengths DEF OrderInv, InOrder, Queued, Mutations
  <2>2. CASE d \notin Delivered
    <3>1. d = current /\ current \in Queued /\ author' = author /\ Serve
      BY <1>2, <2>2, Delivers
    <3>2. UNCHANGED <<at, batch, current, status>> /\ at = "answer"
      BY <3>1 DEF Serve, rows
    <3>3. ToDo(m)
      BY <1>2, <3>2 DEF ToDo, Pending, InHand
    <3>4. m \in InHand \/ \A b \in InHand : b < m
      BY <3>2, <3>3 DEF ToDo, OrderInv, QueueInv, Snapshot, Ordered
    <3>5. current \in InHand /\ \A b \in batch : current < b
      BY <3>2 DEF InHand, OrderInv, QueueInv, Snapshot, Ordered
    <3>6. m = current \/ current < m
      BY <3>4, <3>5, InHandIs
    <3> QED  BY <1>1, <3>1, <3>6, Lengths DEF Mutations, Queued
  <2> QED  BY <2>1, <2>2
<1> QED  BY <1>1, <1>2 DEF OrderInv, InOrder

LEMMA OutboxSteps ==
  ASSUME OrderInv, [Next]_vars
  PROVE  [Abstract!Next]_(Abstract!outbox)
<1>1. Types
  BY DEF OrderInv, QueueInv
<1>2. CASE Delivered' = Delivered
  <2>1. Len(author') = Len(author) \/ Len(author') = Len(author) + 1
    BY <1>1, AuthorsMove
  <2> QED  BY <1>2, <2>1 DEF Abstract!Next, Abstract!Accept, Abstract!outbox
<1>3. CASE /\ Delivered' = Delivered \cup {current} /\ current \in Queued
           /\ author' = author /\ \A d \in Delivered : d <= current
  <2>1. CASE current \in Delivered
    <3>1. Delivered' = Delivered
      BY <1>3, <2>1
    <3> QED  BY <1>2, <3>1
  <2>2. CASE current \notin Delivered
    <3>1. \A d \in Delivered : d < current
      BY <1>1, <1>3, <2>2, Lengths DEF Delivered, Queued
    <3>2. Abstract!Deliver(current) /\ current \in 1 .. Len(author)
      BY <1>3, <3>1 DEF Abstract!Deliver, Queued
    <3> QED  BY <3>2 DEF Abstract!Next
  <2> QED  BY <2>1, <2>2
<1> QED  BY <1>2, <1>3, Delivers

\* Where the API serves no request that the device has given up, mutations first take effect
\* in the order they were queued in: the queue is an Outbox.
THEOREM QueueIsAnOutbox ==
  ASSUME MaxDelayed = 0
  PROVE  Spec => ImplementsOutbox
<1>1. Init => Abstract!Init
  BY DEF Init, Abstract!Init, Delivered, Queued
<1>2. OrderInv /\ [Next]_vars => [Abstract!Next]_(Abstract!outbox)
  BY OutboxSteps
<1>3. OrderInv /\ [Next]_vars => OrderInv'
  BY OrderNext
<1> QED  BY <1>1, <1>2, <1>3, OrderInit, PTL DEF Spec, ImplementsOutbox, Abstract!Spec
=============================================================================
