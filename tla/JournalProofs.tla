--------------------------- MODULE JournalProofs ---------------------------
(***************************************************************************)
(* Theorems about Journal, for any number of enterprises, requests, keys   *)
(* and accounts, and any entries: numbers have no gap, printed numbers and *)
(* keys are unique, answers name entries, and the journal implements       *)
(* Ledger.  A trial balance balances: sums are taken by induction on the   *)
(* size of a set, as the absence of a least counterexample.                *)
(***************************************************************************)
EXTENDS Journal, FiniteSetTheorems, WellFoundedInduction, TLAPS

\* A request past the check of its lines holds an enterprise and lines in double entry.
Prepared ==
  \A r \in Requests :
    request[r].pc \in {"lookup", "accounts", "number", "insert", "commit", "audit"} =>
      /\ request[r].enterprise \in Enterprises
      /\ request[r].lines \in Inputs
      /\ Balanced(request[r].lines)

\* A request that has taken a number holds the next one, and holds it alone.
HoldsNext ==
  \A r \in Requests : request[r].pc \in {"insert", "commit"} =>
    /\ request[r].number = counter[request[r].enterprise] + 1
    /\ \A q \in Holding(request[r].enterprise) : q = r

\* No two entries have a unique value in common, and no inserted row with anything else.
NoCollision ==
  /\ \A m, n \in entries : Collide(m, n) => m = n
  /\ \A r \in Requests : request[r].pc = "commit" =>
       /\ \A n \in entries : ~Collide(Draft(r), n)
       /\ \A q \in Requests \ {r} : request[q].pc = "commit" => ~Collide(Draft(r), Draft(q))

DoubleEntry == \A n \in entries : Balanced(n.lines)

JournalInv ==
  RowsOK /\ Prepared /\ HoldsNext /\ NumbersWithoutGap /\ NoCollision /\ DoubleEntry

-----------------------------------------------------------------------------
(* The inductive invariant.                                                *)

LEMMA InitInv == ASSUME JournalAssumption, Init PROVE JournalInv
<1>1. RowsOK
  BY DEF Init, RowsOK, IdleRequest, RequestState
<1>2. Prepared /\ HoldsNext /\ NoCollision /\ DoubleEntry
  BY DEF Init, Prepared, HoldsNext, NoCollision, DoubleEntry, IdleRequest
<1>3. NumbersWithoutGap
  BY DEF Init, NumbersWithoutGap, EntriesOf
<1> QED BY <1>1, <1>2, <1>3 DEF JournalInv

\* Steps of a request that only change the request, and neither take a number nor insert.
LEMMA QuietStep ==
  ASSUME JournalInv, NEW r \in Requests, NEW new \in RequestState,
         request' = [request EXCEPT ![r] = new],
         UNCHANGED <<prefix, account, entries, counter, audited>>,
         new.pc \notin {"insert", "commit", "audit"},
         new.pc \in {"lookup", "accounts", "number"} =>
           /\ new.enterprise \in Enterprises /\ new.lines \in Inputs /\ Balanced(new.lines)
  PROVE  JournalInv'
<1>1. RowsOK'
  BY DEF JournalInv, RowsOK
<1>2. /\ request'[r] = new
      /\ \A q \in Requests \ {r} : request'[q] = request[q]
  BY DEF JournalInv, RowsOK
<1>3. Prepared'
  BY <1>2 DEF JournalInv, Prepared
<1>4. HoldsNext'
  BY <1>2 DEF JournalInv, HoldsNext, Holding
<1>5. NumbersWithoutGap'
  BY DEF JournalInv, NumbersWithoutGap, EntriesOf
<1>6. NoCollision'
  BY <1>2 DEF JournalInv, NoCollision, Collide, Printed, Draft
<1>7. DoubleEntry'
  BY DEF JournalInv, DoubleEntry
<1> QED BY <1>1, <1>3, <1>4, <1>5, <1>6, <1>7 DEF JournalInv

\* The record of a request is a record of its type.
LEMMA RequestTyped ==
  ASSUME RowsOK, NEW r \in Requests
  PROVE  /\ request[r] \in RequestState
         /\ request[r].number \in Nat /\ request[r].created \in BOOLEAN
  BY DEF RowsOK, RequestState

LEMMA ReceiveInv ==
  ASSUME JournalAssumption, JournalInv, NEW r \in Requests, NEW e \in Enterprises,
         NEW key \in Keys \cup {None}, NEW lines \in Inputs, Receive(r, e, key, lines)
  PROVE  JournalInv'
<1> DEFINE new == [IdleRequest EXCEPT !.pc = IF Balanced(lines) THEN "lookup" ELSE "refused",
                                      !.enterprise = e, !.key = key, !.lines = lines]
<1>1. new \in RequestState
  BY DEF RequestState, IdleRequest
<1>2. request' = [request EXCEPT ![r] = new]
  BY DEF Receive
<1>3. /\ new.pc \notin {"insert", "commit", "audit"}
      /\ new.pc \in {"lookup", "accounts", "number"} =>
           new.enterprise \in Enterprises /\ new.lines \in Inputs /\ Balanced(new.lines)
  BY DEF IdleRequest
<1>4. UNCHANGED <<prefix, account, entries, counter, audited>>
  BY DEF Receive
<1> HIDE DEF new
<1> QED BY <1>1, <1>2, <1>3, <1>4, QuietStep

\* A request goes on, with the same call, to a label where it holds no number.
LEMMA GotoInv ==
  ASSUME JournalInv, NEW r \in Requests, NEW label \in {"accounts", "number", "refused"},
         Goto(r, label),
         request[r].pc \in {"lookup", "accounts"},
         UNCHANGED <<prefix, account, entries, counter, audited>>
  PROVE  JournalInv'
<1> DEFINE new == [request[r] EXCEPT !.pc = label]
<1>1. request[r] \in RequestState
  BY RequestTyped DEF JournalInv
<1>2. new \in RequestState /\ new.pc = label
      /\ new.enterprise = request[r].enterprise /\ new.lines = request[r].lines
  BY <1>1 DEF RequestState
<1>3. request' = [request EXCEPT ![r] = new]
  BY DEF Goto
<1>4. /\ request[r].enterprise \in Enterprises
      /\ request[r].lines \in Inputs
      /\ Balanced(request[r].lines)
  BY DEF JournalInv, Prepared
<1> HIDE DEF new
<1> QED BY <1>2, <1>3, <1>4, QuietStep

\* A request ends.
LEMMA AnswerInv ==
  ASSUME JournalInv, NEW r \in Requests, NEW label \in {"done", "error"},
         NEW number \in Nat, NEW created \in BOOLEAN,
         Answer(r, label, number, created),
         UNCHANGED <<prefix, account, entries, counter, audited>>
  PROVE  JournalInv'
<1> DEFINE new == [request[r] EXCEPT !.pc = label, !.number = number, !.created = created]
<1>1. request[r] \in RequestState
  BY RequestTyped DEF JournalInv
<1>2. new \in RequestState /\ new.pc = label
  BY <1>1 DEF RequestState
<1>3. request' = [request EXCEPT ![r] = new]
  BY DEF Answer
<1> HIDE DEF new
<1> QED BY <1>2, <1>3, QuietStep

LEMMA LookUpInv ==
  ASSUME JournalInv, NEW r \in Requests, LookUp(r)
  PROVE  JournalInv'
<1>0. UNCHANGED <<prefix, account, entries, counter, audited>> /\ request[r].pc = "lookup"
  BY DEF LookUp, LookUpAnd
<1>1. CASE Goto(r, "accounts")
  BY <1>0, <1>1, GotoInv
<1>2. CASE \E n \in WithKey(request[r].enterprise, request[r].key) :
             Answer(r, "done", n.number, FALSE)
  <2>1. PICK n \in WithKey(request[r].enterprise, request[r].key) :
          Answer(r, "done", n.number, FALSE)
    BY <1>2
  <2>2. n.number \in Nat
    BY DEF JournalInv, RowsOK, WithKey, EntriesOf, Entry
  <2> QED BY <1>0, <2>1, <2>2, AnswerInv
<1> QED BY <1>1, <1>2 DEF LookUp, LookUpAnd

LEMMA CheckAccountsInv ==
  ASSUME JournalInv, NEW r \in Requests, CheckAccounts(r)
  PROVE  JournalInv'
<1>1. /\ UNCHANGED <<prefix, account, entries, counter, audited>>
      /\ request[r].pc = "accounts"
      /\ Goto(r, "number") \/ Goto(r, "refused")
  BY DEF CheckAccounts
<1> QED BY <1>1, GotoInv

LEMMA FailInv ==
  ASSUME JournalInv, NEW r \in Requests, Fail(r)
  PROVE  JournalInv'
  BY AnswerInv DEF Fail

-----------------------------------------------------------------------------
(* The steps that take a number, insert, and commit.                       *)

LEMMA TakeNumberInv ==
  ASSUME JournalInv, NEW r \in Requests, TakeNumber(r)
  PROVE  JournalInv'
<1> DEFINE e == request[r].enterprise
           new == [request[r] EXCEPT !.pc = "insert", !.number = counter[e] + 1]
<1>1. request[r] \in RequestState
  BY RequestTyped DEF JournalInv
<1>2. e \in Enterprises /\ request[r].lines \in Inputs /\ Balanced(request[r].lines)
  BY DEF JournalInv, Prepared, TakeNumber
<1>3. counter[e] \in Nat /\ counter[e] + 1 \in Nat
  BY <1>2 DEF JournalInv, RowsOK
<1>4. /\ new \in RequestState /\ new.pc = "insert" /\ new.number = counter[e] + 1
      /\ new.enterprise = e /\ new.lines = request[r].lines
  BY <1>1, <1>3 DEF RequestState
<1>5. /\ request' = [request EXCEPT ![r] = new]
      /\ UNCHANGED <<prefix, account, entries, counter, audited>>
      /\ Holding(e) = {}
  BY DEF TakeNumber
<1> HIDE DEF e, new
<1>6. /\ request'[r] = new
      /\ \A q \in Requests \ {r} : request'[q] = request[q]
  BY <1>5 DEF JournalInv, RowsOK
<1>7. RowsOK'
  BY <1>4, <1>5 DEF JournalInv, RowsOK
<1>8. Prepared'
  BY <1>2, <1>4, <1>6 DEF JournalInv, Prepared
<1>9. HoldsNext'
  BY <1>4, <1>5, <1>6 DEF JournalInv, HoldsNext, Holding
<1>10. NumbersWithoutGap' /\ DoubleEntry'
  BY <1>5 DEF JournalInv, NumbersWithoutGap, EntriesOf, DoubleEntry
<1>11. NoCollision'
  BY <1>4, <1>5, <1>6 DEF JournalInv, NoCollision, Collide, Printed, Draft
<1> QED BY <1>7, <1>8, <1>9, <1>10, <1>11 DEF JournalInv

LEMMA InsertInv ==
  ASSUME JournalInv, NEW r \in Requests, Insert(r)
  PROVE  JournalInv'
<1>1. CASE \E n \in entries : Collide(Draft(r), n)
  BY <1>1, AnswerInv DEF Insert
<1>2. CASE \A n \in entries : ~Collide(Draft(r), n)
  <2> DEFINE new == [request[r] EXCEPT !.pc = "commit"]
  <2>1. request[r] \in RequestState
    BY RequestTyped DEF JournalInv
  <2>2. /\ new \in RequestState /\ new.pc = "commit" /\ new.number = request[r].number
        /\ new.enterprise = request[r].enterprise /\ new.lines = request[r].lines
        /\ new.key = request[r].key
    BY <2>1 DEF RequestState
  <2>3. /\ request' = [request EXCEPT ![r] = new]
        /\ UNCHANGED <<prefix, account, entries, counter, audited>>
        /\ request[r].pc = "insert"
        /\ \A n \in Inserted : ~Collide(Draft(r), n)
    BY <1>2 DEF Insert, Goto
  <2> HIDE DEF new
  <2>4. /\ request'[r] = new
        /\ \A q \in Requests \ {r} : request'[q] = request[q]
    BY <2>3 DEF JournalInv, RowsOK
  <2>5. RowsOK'
    BY <2>2, <2>3 DEF JournalInv, RowsOK
  <2>6. Prepared'
    BY <2>2, <2>3, <2>4 DEF JournalInv, Prepared
  <2>7. HoldsNext'
    BY <2>2, <2>3, <2>4 DEF JournalInv, HoldsNext, Holding
  <2>8. NumbersWithoutGap' /\ DoubleEntry'
    BY <2>3 DEF JournalInv, NumbersWithoutGap, EntriesOf, DoubleEntry
  <2>9. \A q \in Requests : Draft(q)' = Draft(q)
    BY <2>2, <2>4 DEF Draft
  <2>10. \A m, n : Collide(m, n)' <=> Collide(m, n)
    BY <2>3 DEF Collide, Printed
  <2>11. \A q \in Requests \ {r} : request[q].pc = "commit" => ~Collide(Draft(r), Draft(q))
    BY <2>3 DEF Inserted
  <2>12. \A m, n : Collide(m, n) <=> Collide(n, m)
    BY DEF Collide
  <2>13. \A m, n \in entries' : Collide(m, n)' => m = n
    BY <2>3, <2>10 DEF JournalInv, NoCollision
  <2>14. ASSUME NEW p \in Requests, request'[p].pc = "commit"
         PROVE  /\ \A n \in entries' : ~Collide(Draft(p), n)'
                /\ \A q \in Requests \ {p} :
                     request'[q].pc = "commit" => ~Collide(Draft(p), Draft(q))'
    <3>1. \A n \in entries' : ~Collide(Draft(p), n)
      BY <1>2, <2>3, <2>4, <2>14 DEF JournalInv, NoCollision
    <3>2. \A q \in Requests \ {p} : request'[q].pc = "commit" => ~Collide(Draft(p), Draft(q))
      BY <2>4, <2>11, <2>12, <2>14 DEF JournalInv, NoCollision
    <3> QED BY <3>1, <3>2, <2>9, <2>3 DEF Collide, Printed
  <2>15. NoCollision'
    BY <2>13, <2>14 DEF NoCollision
  <2> QED BY <2>5, <2>6, <2>7, <2>8, <2>15 DEF JournalInv
<1> QED BY <1>1, <1>2

LEMMA CommitInv ==
  ASSUME JournalInv, NEW r \in Requests, Commit(r)
  PROVE  JournalInv'
<1> DEFINE e == request[r].enterprise
           x == request[r].number
           d == Draft(r)
           new == [request[r] EXCEPT !.pc = "audit", !.number = x, !.created = TRUE]
<1>1. /\ request[r] \in RequestState /\ request[r].pc = "commit" /\ x \in Nat
      /\ e \in Enterprises /\ request[r].lines \in Inputs /\ Balanced(request[r].lines)
  BY RequestTyped DEF JournalInv, Commit, Prepared
<1>2. counter[e] \in Nat /\ x = counter[e] + 1
  BY <1>1 DEF JournalInv, RowsOK, HoldsNext
<1>3. /\ new \in RequestState /\ new.pc = "audit" /\ new.number = x
      /\ new.enterprise = e /\ new.lines = request[r].lines
  BY <1>1 DEF RequestState
<1>4. /\ d \in Entry /\ d.enterprise = e /\ d.number = x /\ d.lines = request[r].lines
      /\ d.key = request[r].key
  BY <1>1 DEF Draft, Entry, RequestState
<1>5. /\ entries' = entries \cup {d}
      /\ counter' = [counter EXCEPT ![e] = x]
      /\ request' = [request EXCEPT ![r] = new]
      /\ UNCHANGED <<prefix, account, audited>>
  BY DEF Commit, Answer
<1>6. /\ \A n \in entries : ~Collide(d, n)
      /\ \A q \in Requests \ {r} : request[q].pc = "commit" => ~Collide(d, Draft(q))
      /\ \A q \in Requests \ {r} :
           request[q].pc \in {"insert", "commit"} => request[q].enterprise # e
  BY <1>1 DEF JournalInv, NoCollision, HoldsNext, Holding
<1> HIDE DEF e, x, d, new
<1>7. /\ request'[r] = new
      /\ \A q \in Requests \ {r} : request'[q] = request[q]
  BY <1>5 DEF JournalInv, RowsOK
<1>8. /\ counter'[e] = x
      /\ \A f \in Enterprises \ {e} : counter'[f] = counter[f]
  BY <1>1, <1>5 DEF JournalInv, RowsOK
<1>9. RowsOK'
  BY <1>1, <1>3, <1>4, <1>5 DEF JournalInv, RowsOK
<1>10. Prepared'
  BY <1>1, <1>3, <1>7 DEF JournalInv, Prepared
<1>11. HoldsNext'
  <2> SUFFICES ASSUME NEW q \in Requests, request'[q].pc \in {"insert", "commit"}
               PROVE  /\ request'[q].number = counter'[request'[q].enterprise] + 1
                      /\ \A p \in Requests :
                           /\ request'[p].pc \in {"insert", "commit"}
                           /\ request'[p].enterprise = request'[q].enterprise
                           => p = q
    BY DEF HoldsNext, Holding
  <2>1. q # r /\ request'[q] = request[q]
    BY <1>3, <1>7
  <2>2. request[q].enterprise \in Enterprises \ {e}
    BY <1>6, <2>1 DEF JournalInv, Prepared
  <2>3. request'[q].number = counter'[request'[q].enterprise] + 1
    BY <1>8, <2>1, <2>2 DEF JournalInv, HoldsNext
  <2> QED BY <1>3, <1>7, <2>1, <2>3 DEF JournalInv, HoldsNext, Holding
<1>12. NumbersWithoutGap'
  <2> SUFFICES ASSUME NEW f \in Enterprises
               PROVE  /\ {n.number : n \in EntriesOf(f)'} = 1..counter'[f]
                      /\ \A m, n \in EntriesOf(f)' : m.number = n.number => m = n
    BY DEF NumbersWithoutGap
  <2>1. /\ {n.number : n \in EntriesOf(f)} = 1..counter[f]
        /\ \A m, n \in EntriesOf(f) : m.number = n.number => m = n
    BY DEF JournalInv, NumbersWithoutGap
  <2>2. CASE f # e
    <3>1. EntriesOf(f)' = EntriesOf(f) /\ counter'[f] = counter[f]
      BY <1>4, <1>5, <1>8, <2>2 DEF EntriesOf
    <3> QED BY <2>1, <3>1
  <2>3. CASE f = e
    <3>1. EntriesOf(f)' = EntriesOf(f) \cup {d}
      BY <1>4, <1>5, <2>3 DEF EntriesOf
    <3>2. counter'[f] = counter[f] + 1 /\ d.number = counter[f] + 1 /\ counter[f] \in Nat
      BY <1>2, <1>4, <1>8, <2>3 DEF e
    <3>3. {n.number : n \in EntriesOf(f)'} = {n.number : n \in EntriesOf(f)} \cup {counter[f] + 1}
      BY <3>1, <3>2
    <3>4. 1..(counter[f] + 1) = (1..counter[f]) \cup {counter[f] + 1}
      BY <3>2
    <3>5. \A n \in EntriesOf(f) : n.number \in 1..counter[f]
      BY <2>1
    <3>6. \A m, n \in EntriesOf(f)' : m.number = n.number => m = n
      BY <2>1, <3>1, <3>2, <3>5
    <3> QED BY <2>1, <3>2, <3>3, <3>4, <3>6
  <2> QED BY <2>2, <2>3
<1>13. DoubleEntry'
  BY <1>1, <1>4, <1>5 DEF JournalInv, DoubleEntry
<1>14. NoCollision'
  <2>1. \A m, n : Collide(m, n)' <=> Collide(m, n)
    BY <1>5 DEF Collide, Printed
  <2>2. \A m, n : Collide(m, n) <=> Collide(n, m)
    BY DEF Collide
  <2>3. \A q \in Requests \ {r} : Draft(q)' = Draft(q)
    BY <1>7 DEF Draft
  <2>4. \A m, n \in entries' : Collide(m, n) => m = n
    BY <1>5, <1>6, <2>2 DEF JournalInv, NoCollision
  <2>5. ASSUME NEW p \in Requests, request'[p].pc = "commit"
        PROVE  /\ \A n \in entries' : ~Collide(Draft(p), n)'
               /\ \A q \in Requests \ {p} :
                    request'[q].pc = "commit" => ~Collide(Draft(p), Draft(q))'
    <3>1. p # r /\ request[p].pc = "commit"
      BY <1>3, <1>7, <2>5
    <3>2. \A n \in entries' : ~Collide(Draft(p), n)
      BY <1>5, <1>6, <2>2, <3>1 DEF JournalInv, NoCollision
    <3>3. \A q \in Requests \ {p} :
            request'[q].pc = "commit" => q # r /\ ~Collide(Draft(p), Draft(q))
      BY <1>3, <1>7, <3>1 DEF JournalInv, NoCollision
    <3> QED BY <3>1, <3>2, <3>3, <2>3, <1>5 DEF Collide, Printed
  <2>6. \A m, n \in entries' : Collide(m, n)' => m = n
    BY <2>1, <2>4
  <2> QED BY <2>5, <2>6 DEF NoCollision
<1> QED BY <1>9, <1>10, <1>11, <1>12, <1>13, <1>14 DEF JournalInv

LEMMA AuditInv ==
  ASSUME JournalInv, NEW r \in Requests, Audit(r)
  PROVE  JournalInv'
<1> DEFINE new == [request[r] EXCEPT !.pc = "done"]
           row == [by |-> r, enterprise |-> request[r].enterprise, number |-> request[r].number]
<1>1. /\ request[r] \in RequestState
      /\ row \in AuditRow
  BY RequestTyped DEF JournalInv, Prepared, Audit, AuditRow
<1>2. new \in RequestState /\ new.pc = "done"
  BY <1>1 DEF RequestState
<1>3. /\ request' = [request EXCEPT ![r] = new]
      /\ audited' = audited \cup {row}
      /\ UNCHANGED <<prefix, account, entries, counter>>
  BY DEF Audit, Goto
<1> HIDE DEF new, row
<1>4. /\ request'[r] = new
      /\ \A q \in Requests \ {r} : request'[q] = request[q]
  BY <1>3 DEF JournalInv, RowsOK
<1>5. RowsOK'
  BY <1>1, <1>2, <1>3 DEF JournalInv, RowsOK
<1>6. Prepared' /\ HoldsNext'
  BY <1>2, <1>3, <1>4 DEF JournalInv, Prepared, HoldsNext, Holding
<1>7. NumbersWithoutGap' /\ DoubleEntry'
  BY <1>3 DEF JournalInv, NumbersWithoutGap, EntriesOf, DoubleEntry
<1>8. NoCollision'
  BY <1>2, <1>3, <1>4 DEF JournalInv, NoCollision, Collide, Printed, Draft
<1> QED BY <1>5, <1>6, <1>7, <1>8 DEF JournalInv

\* Nothing else touches the journal.
LEMMA OthersInv ==
  ASSUME JournalInv, account' \in [Accounts -> Enterprises \cup {None}],
         UNCHANGED <<prefix, entries, counter, request, audited>>
  PROVE  JournalInv'
  BY DEF JournalInv, RowsOK, Prepared, HoldsNext, Holding, NumbersWithoutGap, EntriesOf,
         NoCollision, Collide, Printed, Draft, DoubleEntry

LEMMA NextInv == ASSUME JournalAssumption, JournalInv, [Next]_vars PROVE JournalInv'
<1>1. ASSUME NEW r \in Requests, Step(r) \/ Fail(r)
      PROVE  JournalInv'
  BY <1>1, LookUpInv, CheckAccountsInv, TakeNumberInv, InsertInv, CommitInv, AuditInv, FailInv
     DEF Step
<1>2. ASSUME NEW a \in Accounts, NEW e \in Enterprises, CreateAccount(a, e)
      PROVE  JournalInv'
  BY <1>2, OthersInv DEF CreateAccount, JournalInv, RowsOK
<1>3. CASE (\E e \in Enterprises : ReadAccounts(e)) \/ SumLines \/ CloseReport
  <2>1. UNCHANGED <<prefix, account, entries, counter, request, audited>>
    BY <1>3 DEF ReadAccounts, SumLines, CloseReport
  <2> QED BY <2>1, OthersInv DEF JournalInv, RowsOK
<1>4. CASE UNCHANGED vars
  BY <1>4, OthersInv DEF vars, JournalInv, RowsOK
<1> QED BY <1>1, <1>2, <1>3, <1>4, ReceiveInv DEF Next

THEOREM JournalCorrect == Spec => []JournalInv
  BY JournalAssumption, InitInv, NextInv, PTL DEF Spec

\* The numbers of every enterprise are consecutive, whatever fails or is replayed.
THEOREM JournalIsGapless == Spec => []NumbersWithoutGap
<1>1. JournalInv => NumbersWithoutGap
  BY DEF JournalInv
<1> QED BY <1>1, JournalCorrect, PTL

\* A printed number names one entry, whatever prefixes the ids of enterprises share.
THEOREM PrintedNumbersAreUnique == Spec => []PrintedOnce
<1>1. JournalInv => PrintedOnce
  BY DEF JournalInv, NoCollision, PrintedOnce, Collide
<1> QED BY <1>1, JournalCorrect, PTL

-----------------------------------------------------------------------------
(* Answers and the audit log.                                              *)

\* Audit rows and the requests that wrote them name each other.
AuditTrail ==
  /\ \A r \in Requests : request[r].pc = "audit" => request[r].created
  /\ \A r \in Requests : request[r].pc = "done" /\ request[r].created =>
       \E a \in audited : a.by = r
  /\ \A a \in audited : /\ a.by \in Requests
                        /\ request[a.by].pc = "done" /\ request[a.by].created
                        /\ a = [by |-> a.by, enterprise |-> request[a.by].enterprise,
                                number |-> request[a.by].number]

Trace == AnswersNameEntries /\ AuditTrail

\* Steps that neither add an entry nor answer one.
LEMMA TraceQuiet ==
  ASSUME JournalInv, Trace, NEW r \in Requests, request[r].pc # "done",
         request'[r].pc \notin {"audit", "done"},
         \A q \in Requests \ {r} : request'[q] = request[q],
         UNCHANGED <<entries, audited>>
  PROVE  Trace'
<1>1. AnswersNameEntries'
  BY DEF Trace, AnswersNameEntries, EntriesOf
<1>2. AuditTrail'
  BY DEF Trace, AuditTrail
<1> QED BY <1>1, <1>2 DEF Trace

\* What a request holds after it has gone on, or ended.
LEMMA GotoFields ==
  ASSUME RowsOK, NEW r \in Requests, NEW label, Goto(r, label)
  PROVE  /\ request'[r].pc = label /\ request'[r].number = request[r].number
         /\ request'[r].created = request[r].created
         /\ request'[r].enterprise = request[r].enterprise /\ request'[r].key = request[r].key
         /\ request'[r].lines = request[r].lines
         /\ \A q \in Requests \ {r} : request'[q] = request[q]
<1> DEFINE new == [request[r] EXCEPT !.pc = label]
<1>1. request[r] \in RequestState
  BY RequestTyped
<1>2. /\ new.pc = label /\ new.number = request[r].number /\ new.created = request[r].created
      /\ new.enterprise = request[r].enterprise /\ new.key = request[r].key
      /\ new.lines = request[r].lines
  BY <1>1 DEF RequestState
<1>3. request' = [request EXCEPT ![r] = new]
  BY DEF Goto
<1> HIDE DEF new
<1>4. request'[r] = new /\ \A q \in Requests \ {r} : request'[q] = request[q]
  BY <1>3 DEF RowsOK
<1> QED BY <1>2, <1>4

LEMMA AnswerFields ==
  ASSUME RowsOK, NEW r \in Requests, NEW label, NEW number, NEW created,
         Answer(r, label, number, created)
  PROVE  /\ request'[r].pc = label /\ request'[r].number = number
         /\ request'[r].created = created
         /\ request'[r].enterprise = request[r].enterprise /\ request'[r].key = request[r].key
         /\ \A q \in Requests \ {r} : request'[q] = request[q]
<1> DEFINE new == [request[r] EXCEPT !.pc = label, !.number = number, !.created = created]
<1>1. request[r] \in RequestState
  BY RequestTyped
<1>2. /\ new.pc = label /\ new.number = number /\ new.created = created
      /\ new.enterprise = request[r].enterprise /\ new.key = request[r].key
  BY <1>1 DEF RequestState
<1>3. request' = [request EXCEPT ![r] = new]
  BY DEF Answer
<1> HIDE DEF new
<1>4. request'[r] = new /\ \A q \in Requests \ {r} : request'[q] = request[q]
  BY <1>3 DEF RowsOK
<1> QED BY <1>2, <1>4

LEMMA TraceLookUp ==
  ASSUME JournalInv, Trace, NEW r \in Requests, LookUp(r)
  PROVE  Trace'
<1>1. RowsOK /\ request[r].pc = "lookup" /\ UNCHANGED <<entries, audited>>
  BY DEF JournalInv, LookUp, LookUpAnd
<1>2. CASE Goto(r, "accounts")
  BY <1>1, <1>2, GotoFields, TraceQuiet
<1>3. CASE \E n \in WithKey(request[r].enterprise, request[r].key) :
             Answer(r, "done", n.number, FALSE)
  <2>1. PICK n \in WithKey(request[r].enterprise, request[r].key) :
          Answer(r, "done", n.number, FALSE)
    BY <1>3
  <2>2. /\ request'[r].pc = "done" /\ request'[r].number = n.number
        /\ request'[r].created = FALSE
        /\ request'[r].enterprise = request[r].enterprise /\ request'[r].key = request[r].key
        /\ \A q \in Requests \ {r} : request'[q] = request[q]
    BY <1>1, <2>1, AnswerFields
  <2>3. n \in EntriesOf(request[r].enterprise) /\ n.key = request[r].key
    BY DEF WithKey
  <2>4. ASSUME NEW q \in Requests, request'[q].pc \in {"audit", "done"}
        PROVE  (\E m \in EntriesOf(request[q].enterprise) :
                  m.number = request[q].number /\ m.key = request[q].key)'
    <3>1. CASE q = r
      BY <1>1, <2>2, <2>3, <3>1 DEF EntriesOf
    <3>2. CASE q # r
      BY <1>1, <2>2, <2>4, <3>2 DEF Trace, AnswersNameEntries, EntriesOf
    <3> QED BY <3>1, <3>2
  <2>5. ASSUME NEW p \in Requests, NEW q \in Requests \ {p},
               request'[p].pc \in {"audit", "done"}, request'[q].pc \in {"audit", "done"},
               request'[q].enterprise = request'[p].enterprise,
               request'[q].number = request'[p].number
        PROVE  ~(request'[q].created /\ request'[p].created)
    <3>1. CASE p = r \/ q = r
      BY <2>2, <3>1
    <3>2. CASE p # r /\ q # r
      BY <2>2, <2>5, <3>2 DEF Trace, AnswersNameEntries
    <3> QED BY <3>1, <3>2
  <2>6. AnswersNameEntries'
    BY <2>4, <2>5 DEF AnswersNameEntries
  <2>7. AuditTrail'
    BY <1>1, <2>2 DEF Trace, AuditTrail
  <2> QED BY <2>6, <2>7 DEF Trace
<1> QED BY <1>2, <1>3 DEF LookUp, LookUpAnd

LEMMA TraceCommit ==
  ASSUME JournalInv, Trace, NEW r \in Requests, Commit(r)
  PROVE  Trace'
<1>1. /\ RowsOK /\ request[r].pc = "commit"
      /\ request[r].enterprise \in Enterprises
      /\ request[r].number = counter[request[r].enterprise] + 1
      /\ counter[request[r].enterprise] \in Nat
  BY DEF JournalInv, RowsOK, Commit, Prepared, HoldsNext
<1>2. /\ request'[r].pc = "audit" /\ request'[r].number = request[r].number
      /\ request'[r].created = TRUE
      /\ request'[r].enterprise = request[r].enterprise /\ request'[r].key = request[r].key
      /\ \A q \in Requests \ {r} : request'[q] = request[q]
      /\ entries' = entries \cup {Draft(r)} /\ audited' = audited
  BY <1>1, AnswerFields DEF Commit
<1>3. /\ Draft(r).enterprise = request[r].enterprise /\ Draft(r).number = request[r].number
      /\ Draft(r).key = request[r].key
  BY DEF Draft
<1>4. \A q \in Requests \ {r} :
        /\ request[q].pc \in {"audit", "done"}
        /\ request[q].enterprise = request[r].enterprise
        => request[q].number # request[r].number
  <2> SUFFICES ASSUME NEW q \in Requests \ {r}, request[q].pc \in {"audit", "done"},
                      request[q].enterprise = request[r].enterprise
               PROVE  request[q].number # request[r].number
    OBVIOUS
  <2>1. PICK n \in EntriesOf(request[r].enterprise) : n.number = request[q].number
    BY DEF Trace, AnswersNameEntries
  <2>2. n.number \in 1..counter[request[r].enterprise]
    BY <1>1 DEF JournalInv, NumbersWithoutGap
  <2> QED BY <1>1, <2>1, <2>2
<1>5. AnswersNameEntries'
  <2>1. ASSUME NEW q \in Requests, request'[q].pc \in {"audit", "done"}
        PROVE  (\E n \in EntriesOf(request[q].enterprise) :
                  n.number = request[q].number /\ n.key = request[q].key)'
    <3>1. CASE q = r
      BY <1>2, <1>3, <3>1 DEF EntriesOf
    <3>2. CASE q # r
      BY <1>2, <2>1, <3>2 DEF Trace, AnswersNameEntries, EntriesOf
    <3> QED BY <3>1, <3>2
  <2>2. ASSUME NEW p \in Requests, NEW q \in Requests \ {p},
               request'[p].pc \in {"audit", "done"}, request'[q].pc \in {"audit", "done"},
               request'[q].enterprise = request'[p].enterprise,
               request'[q].number = request'[p].number
        PROVE  ~(request'[q].created /\ request'[p].created)
    <3>1. CASE p = r \/ q = r
      BY <1>2, <1>4, <2>2, <3>1
    <3>2. CASE p # r /\ q # r
      BY <1>2, <2>2, <3>2 DEF Trace, AnswersNameEntries
    <3> QED BY <3>1, <3>2
  <2> QED BY <2>1, <2>2 DEF AnswersNameEntries
<1>6. AuditTrail'
  <2>1. \A q \in Requests : /\ request'[q].pc = "audit" => request'[q].created
                            /\ request'[q].pc = "done" => request'[q] = request[q]
    BY <1>2 DEF Trace, AuditTrail
  <2>2. \A a \in audited : a.by \in Requests \ {r} /\ request'[a.by] = request[a.by]
    BY <1>1, <1>2 DEF Trace, AuditTrail
  <2>3. \A a \in audited' :
          /\ a.by \in Requests
          /\ request'[a.by].pc = "done" /\ request'[a.by].created
          /\ a = [by |-> a.by, enterprise |-> request'[a.by].enterprise,
                  number |-> request'[a.by].number]
    BY <1>2, <2>2 DEF Trace, AuditTrail
  <2>4. \A q \in Requests : request'[q].pc = "done" /\ request'[q].created =>
          \E a \in audited' : a.by = q
    BY <1>2, <2>1 DEF Trace, AuditTrail
  <2> QED BY <2>1, <2>3, <2>4 DEF AuditTrail
<1> QED BY <1>5, <1>6 DEF Trace

LEMMA TraceAudit ==
  ASSUME JournalInv, Trace, NEW r \in Requests, Audit(r)
  PROVE  Trace'
<1>1. RowsOK /\ request[r].pc = "audit" /\ request[r].created
  BY DEF JournalInv, Audit, Trace, AuditTrail
<1>2. /\ request'[r].pc = "done" /\ request'[r].number = request[r].number
      /\ request'[r].created = request[r].created
      /\ request'[r].enterprise = request[r].enterprise /\ request'[r].key = request[r].key
      /\ \A q \in Requests \ {r} : request'[q] = request[q]
      /\ entries' = entries
      /\ audited' = audited \cup {[by |-> r, enterprise |-> request[r].enterprise,
                                   number |-> request[r].number]}
  BY <1>1, GotoFields DEF Audit
<1>3. AnswersNameEntries'
  BY <1>1, <1>2 DEF Trace, AnswersNameEntries, EntriesOf
<1>4. AuditTrail'
  <2> DEFINE row == [by |-> r, enterprise |-> request[r].enterprise, number |-> request[r].number]
  <2>1. \A a \in audited : a.by \in Requests \ {r} /\ request'[a.by] = request[a.by]
    BY <1>1, <1>2 DEF Trace, AuditTrail
  <2>2. /\ row.by = r
        /\ row = [by |-> row.by, enterprise |-> request'[row.by].enterprise,
                  number |-> request'[row.by].number]
    BY <1>2
  <2>3. audited' = audited \cup {row}
    BY <1>2
  <2> HIDE DEF row
  <2>4. \A a \in audited' :
          /\ a.by \in Requests
          /\ request'[a.by].pc = "done" /\ request'[a.by].created
          /\ a = [by |-> a.by, enterprise |-> request'[a.by].enterprise,
                  number |-> request'[a.by].number]
    BY <1>1, <1>2, <2>1, <2>2, <2>3 DEF Trace, AuditTrail
  <2>5. \A q \in Requests : request'[q].pc = "done" /\ request'[q].created =>
          \E a \in audited' : a.by = q
    BY <1>2, <2>2, <2>3 DEF Trace, AuditTrail
  <2>6. \A q \in Requests : request'[q].pc = "audit" => request'[q].created
    BY <1>2 DEF Trace, AuditTrail
  <2> QED BY <2>4, <2>5, <2>6 DEF AuditTrail
<1> QED BY <1>3, <1>4 DEF Trace

LEMMA TraceReceive ==
  ASSUME JournalInv, Trace, NEW r \in Requests, NEW e \in Enterprises,
         NEW key \in Keys \cup {None}, NEW lines \in Inputs, Receive(r, e, key, lines)
  PROVE  Trace'
<1> DEFINE new == [IdleRequest EXCEPT !.pc = IF Balanced(lines) THEN "lookup" ELSE "refused",
                                      !.enterprise = e, !.key = key, !.lines = lines]
<1>1. new.pc \notin {"audit", "done"}
  BY DEF IdleRequest
<1>2. /\ request' = [request EXCEPT ![r] = new]
      /\ request[r].pc = "idle" /\ UNCHANGED <<entries, audited>>
  BY DEF Receive
<1> HIDE DEF new
<1>3. request'[r] = new /\ \A q \in Requests \ {r} : request'[q] = request[q]
  BY <1>2 DEF JournalInv, RowsOK
<1> QED BY <1>1, <1>2, <1>3, TraceQuiet

LEMMA TraceTakeNumber ==
  ASSUME JournalInv, Trace, NEW r \in Requests, TakeNumber(r)
  PROVE  Trace'
<1> DEFINE new == [request[r] EXCEPT !.pc = "insert",
                                     !.number = counter[request[r].enterprise] + 1]
<1>1. request[r] \in RequestState
  BY RequestTyped DEF JournalInv
<1>2. new.pc = "insert"
  BY <1>1 DEF RequestState
<1>3. /\ request' = [request EXCEPT ![r] = new]
      /\ request[r].pc = "number" /\ UNCHANGED <<entries, audited>>
  BY DEF TakeNumber
<1> HIDE DEF new
<1>4. request'[r] = new /\ \A q \in Requests \ {r} : request'[q] = request[q]
  BY <1>3 DEF JournalInv, RowsOK
<1> QED BY <1>2, <1>3, <1>4, TraceQuiet

LEMMA TraceNext == ASSUME JournalInv, Trace, [Next]_vars PROVE Trace'
<1>0. RowsOK
  BY DEF JournalInv
<1>1. ASSUME NEW r \in Requests, NEW label \in {"number", "refused", "commit", "error"},
             request[r].pc # "done", UNCHANGED <<entries, audited>>,
             Goto(r, label) \/ \E number, created : Answer(r, label, number, created)
      PROVE  Trace'
  <2>1. /\ request'[r].pc = label
        /\ \A q \in Requests \ {r} : request'[q] = request[q]
    BY <1>0, <1>1, GotoFields, AnswerFields
  <2> QED BY <1>1, <2>1, TraceQuiet
<1>2. ASSUME NEW r \in Requests, CheckAccounts(r)
      PROVE  Trace'
  BY <1>1, <1>2 DEF CheckAccounts
<1>3. ASSUME NEW r \in Requests, Insert(r) \/ Fail(r)
      PROVE  Trace'
  <2>1. /\ request[r].pc # "done" /\ UNCHANGED <<entries, audited>>
        /\ Goto(r, "commit") \/ Answer(r, "error", 0, FALSE)
    BY <1>3 DEF Insert, Fail
  <2> QED BY <1>1, <2>1
<1>4. CASE UNCHANGED <<entries, request, audited>>
  BY <1>4 DEF Trace, AnswersNameEntries, EntriesOf, AuditTrail
<1> QED BY <1>2, <1>3, <1>4, TraceLookUp, TraceCommit, TraceAudit, TraceReceive, TraceTakeNumber
        DEF Next, Step, vars, CreateAccount, ReadAccounts, SumLines, CloseReport

LEMMA TraceInit == ASSUME Init PROVE Trace
  BY DEF Init, Trace, AnswersNameEntries, AuditTrail, IdleRequest

LEMMA TraceCorrect == Spec => [](JournalInv /\ Trace)
  BY JournalAssumption, InitInv, NextInv, TraceInit, TraceNext, PTL DEF Spec

\* A request that succeeds names an entry of its own enterprise that carries its key, and an
\* entry has one creator, whatever is delivered twice.
THEOREM AnswersAreTrue == Spec => []AnswersNameEntries
<1>1. Trace => AnswersNameEntries
  BY DEF Trace
<1> QED BY <1>1, TraceCorrect, PTL

\* The audit log has one row for each entry whose creation was answered, by its creator.
THEOREM AuditIsTrue == Spec => []AuditedByItsCreator
<1>1. ASSUME Trace PROVE AuditedByItsCreator
  <2>1. ASSUME NEW a \in audited, NEW b \in audited,
               a.enterprise = b.enterprise, a.number = b.number
        PROVE  a = b
    <3>1. a.by = b.by
      BY <1>1, <2>1 DEF Trace, AuditTrail, AnswersNameEntries
    <3> QED BY <1>1, <3>1 DEF Trace, AuditTrail
  <2>2. ASSUME NEW r \in Requests
        PROVE  (request[r].pc = "done" /\ request[r].created) <=> (\E a \in audited : a.by = r)
    BY <1>1 DEF Trace, AuditTrail
  <2> QED BY <2>1, <2>2 DEF AuditedByItsCreator
<1> QED BY <1>1, TraceCorrect, PTL

-----------------------------------------------------------------------------
(* The accounts of entries.                                                *)

\* Entries, and requests whose accounts have been checked, post to accounts of their enterprise.
OwnAccounts ==
  /\ \A n \in entries : AccountsOf(n.lines) \subseteq Owned(n.enterprise)
  /\ \A r \in Requests : request[r].pc \in {"number", "insert", "commit"} =>
       AccountsOf(request[r].lines) \subseteq Owned(request[r].enterprise)

\* Steps of a request that posts to no other accounts than it did, or none.
LEMMA OwnKept ==
  ASSUME RowsOK, OwnAccounts, NEW r \in Requests, UNCHANGED <<account, entries>>,
         \A q \in Requests \ {r} : request'[q] = request[q],
         request'[r].pc \in {"number", "insert", "commit"} =>
           /\ request'[r].enterprise = request[r].enterprise
           /\ request'[r].lines = request[r].lines
           /\ AccountsOf(request[r].lines) \subseteq Owned(request[r].enterprise)
  PROVE  OwnAccounts'
<1>1. \A e : Owned(e)' = Owned(e)
  BY DEF Owned
<1>2. \A q \in Requests : request'[q].pc \in {"number", "insert", "commit"} =>
        AccountsOf(request'[q].lines) \subseteq Owned(request'[q].enterprise)
  <2> SUFFICES ASSUME NEW q \in Requests, request'[q].pc \in {"number", "insert", "commit"}
               PROVE  AccountsOf(request'[q].lines) \subseteq Owned(request'[q].enterprise)
    OBVIOUS
  <2>1. CASE q = r
    BY <2>1
  <2>2. CASE q # r
    BY <2>2 DEF OwnAccounts
  <2> QED BY <2>1, <2>2
<1> QED BY <1>1, <1>2 DEF OwnAccounts, AccountsOf

LEMMA OwnNext == ASSUME JournalInv, OwnAccounts, [Next]_vars PROVE OwnAccounts'
<1>0. RowsOK
  BY DEF JournalInv
<1>1. ASSUME NEW r \in Requests, NEW e \in Enterprises, NEW key \in Keys \cup {None},
             NEW lines \in Inputs, Receive(r, e, key, lines)
      PROVE  OwnAccounts'
  <2>1. request'[r].pc \in {"lookup", "refused"} /\ UNCHANGED <<account, entries>>
        /\ \A q \in Requests \ {r} : request'[q] = request[q]
    BY <1>0, <1>1 DEF Receive, RowsOK, IdleRequest
  <2> QED BY <1>0, <2>1, OwnKept
<1>2. ASSUME NEW r \in Requests, LookUp(r)
      PROVE  OwnAccounts'
  <2>1. request'[r].pc \in {"accounts", "done"}
        /\ \A q \in Requests \ {r} : request'[q] = request[q]
    BY <1>0, <1>2, GotoFields, AnswerFields DEF LookUp, LookUpAnd
  <2> QED BY <1>0, <1>2, <2>1, OwnKept DEF LookUp, LookUpAnd
<1>3. ASSUME NEW r \in Requests, CheckAccounts(r)
      PROVE  OwnAccounts'
  <2>1. CASE /\ Goto(r, "number")
             /\ AccountsOf(request[r].lines) \subseteq Owned(request[r].enterprise)
    BY <1>0, <1>3, <2>1, GotoFields, OwnKept DEF CheckAccounts
  <2>2. CASE Goto(r, "refused")
    BY <1>0, <1>3, <2>2, GotoFields, OwnKept DEF CheckAccounts
  <2> QED BY <1>3, <2>1, <2>2 DEF CheckAccounts
<1>4. ASSUME NEW r \in Requests, TakeNumber(r)
      PROVE  OwnAccounts'
  <2> DEFINE new == [request[r] EXCEPT !.pc = "insert",
                                       !.number = counter[request[r].enterprise] + 1]
  <2>1. request[r] \in RequestState
    BY <1>0, RequestTyped
  <2>2. new.enterprise = request[r].enterprise /\ new.lines = request[r].lines
    BY <2>1 DEF RequestState
  <2>3. request' = [request EXCEPT ![r] = new]
    BY <1>4 DEF TakeNumber
  <2> HIDE DEF new
  <2>4. request'[r] = new /\ \A q \in Requests \ {r} : request'[q] = request[q]
    BY <1>0, <2>3 DEF RowsOK
  <2> QED BY <1>0, <1>4, <2>2, <2>4, OwnKept DEF TakeNumber, OwnAccounts
<1>5. ASSUME NEW r \in Requests, Insert(r)
      PROVE  OwnAccounts'
  <2>1. /\ AccountsOf(request[r].lines) \subseteq Owned(request[r].enterprise)
        /\ UNCHANGED <<account, entries>>
    BY <1>5 DEF Insert, OwnAccounts
  <2>2. CASE Goto(r, "commit")
    <3>1. /\ request'[r].enterprise = request[r].enterprise
          /\ request'[r].lines = request[r].lines
          /\ \A q \in Requests \ {r} : request'[q] = request[q]
      BY <1>0, <2>2, GotoFields
    <3> QED BY <1>0, <2>1, <3>1, OwnKept
  <2>3. CASE Answer(r, "error", 0, FALSE)
    <3>1. request'[r].pc = "error" /\ \A q \in Requests \ {r} : request'[q] = request[q]
      BY <1>0, <2>3, AnswerFields
    <3> QED BY <1>0, <2>1, <3>1, OwnKept
  <2> QED BY <1>5, <2>2, <2>3 DEF Insert
<1>6. ASSUME NEW r \in Requests, Commit(r)
      PROVE  OwnAccounts'
  <2>1. /\ request'[r].pc = "audit" /\ UNCHANGED account
        /\ \A q \in Requests \ {r} : request'[q] = request[q]
        /\ entries' = entries \cup {Draft(r)}
    BY <1>0, <1>6, AnswerFields DEF Commit
  <2>2. AccountsOf(Draft(r).lines) \subseteq Owned(Draft(r).enterprise)
    BY <1>6 DEF Commit, OwnAccounts, Draft
  <2>3. \A e : Owned(e)' = Owned(e)
    BY <2>1 DEF Owned
  <2>4. \A q \in Requests : request'[q].pc \in {"number", "insert", "commit"} =>
          request'[q] = request[q]
    BY <2>1
  <2>5. \A n \in entries' : AccountsOf(n.lines) \subseteq Owned(n.enterprise)
    BY <2>1, <2>2 DEF OwnAccounts
  <2> QED BY <2>3, <2>4, <2>5 DEF OwnAccounts, AccountsOf
<1>7. ASSUME NEW r \in Requests, Audit(r) \/ Fail(r)
      PROVE  OwnAccounts'
  <2>1. UNCHANGED <<account, entries>>
    BY <1>7 DEF Audit, Fail
  <2>2. CASE Goto(r, "done")
    <3>1. request'[r].pc = "done" /\ \A q \in Requests \ {r} : request'[q] = request[q]
      BY <1>0, <2>2, GotoFields
    <3> QED BY <1>0, <2>1, <3>1, OwnKept
  <2>3. CASE Answer(r, "error", 0, FALSE)
    <3>1. request'[r].pc = "error" /\ \A q \in Requests \ {r} : request'[q] = request[q]
      BY <1>0, <2>3, AnswerFields
    <3> QED BY <1>0, <2>1, <3>1, OwnKept
  <2> QED BY <1>7, <2>2, <2>3 DEF Audit, Fail
\* An account that is created was nobody's.
<1>8. ASSUME NEW a \in Accounts, NEW e \in Enterprises, CreateAccount(a, e)
      PROVE  OwnAccounts'
  <2>1. UNCHANGED <<entries, request>> /\ account[a] = None
        /\ \A b \in Accounts : account'[b] = IF b = a THEN e ELSE account[b]
    BY <1>0, <1>8 DEF CreateAccount, RowsOK
  <2>2. \A f \in Enterprises : Owned(f) \subseteq Owned(f)'
    BY <2>1, JournalAssumption DEF Owned
  <2>3. \A n \in entries : n.enterprise \in Enterprises
    BY <1>0 DEF RowsOK, Entry
  <2>4. \A r \in Requests : request[r].pc \in {"number", "insert", "commit"} =>
          request[r].enterprise \in Enterprises
    BY DEF JournalInv, Prepared
  <2> QED BY <2>1, <2>2, <2>3, <2>4 DEF OwnAccounts, AccountsOf
<1>9. CASE (\E e \in Enterprises : ReadAccounts(e)) \/ SumLines \/ CloseReport \/ UNCHANGED vars
  <2>1. UNCHANGED <<account, entries, request>>
    BY <1>9 DEF ReadAccounts, SumLines, CloseReport, vars
  <2>2. \A e : Owned(e)' = Owned(e)
    BY <2>1 DEF Owned
  <2> QED BY <2>1, <2>2 DEF OwnAccounts, AccountsOf
<1> QED BY <1>1, <1>2, <1>3, <1>4, <1>5, <1>6, <1>7, <1>8, <1>9 DEF Next, Step

-----------------------------------------------------------------------------
(* Sums.                                                                   *)

\* A set of naturals that has a member has a least one.
LEMMA LeastOfAny ==
  ASSUME NEW S \in SUBSET Nat, S # {}
  PROVE  \E m \in S : \A n \in S : m <= n
<1>1. \E m \in S : \A n \in S : ~(<<n, m>> \in OpToRel(<, Nat))
  BY NatLessThanWellFounded, WFMin
<1>2. PICK m \in S : \A n \in S : ~(<<n, m>> \in OpToRel(<, Nat))
  BY <1>1
<1>3. ASSUME NEW n \in S
      PROVE  m <= n
  <2>1. ~(n < m)
    BY <1>2 DEF OpToRel
  <2> QED BY <2>1
<1> QED BY <1>3

\* A sum over a set is a function of its subsets, chosen for the equation it solves.
Picked(s) == CHOOSE x \in s : TRUE
Added(v, f, s) == IF s = {} THEN 0 ELSE v[Picked(s)] + f[s \ {Picked(s)}]
Sums(S, v, f) == f = [s \in SUBSET S |-> Added(v, f, s)]
TotalOf(S, v) == (CHOOSE f : Sums(S, v, f))[S]

\* Summing picks the elements of a finite set one by one.
LEMMA PickedOneByOne ==
  ASSUME NEW S, IsFiniteSet(S), NEW s \in SUBSET S
  PROVE  /\ Cardinality(s) \in Nat /\ (s = {} <=> Cardinality(s) = 0)
         /\ Cardinality(s) <= Cardinality(S)
         /\ s # {} => /\ Picked(s) \in s /\ s \ {Picked(s)} \in SUBSET S
                      /\ Cardinality(s \ {Picked(s)}) = Cardinality(s) - 1
<1>1. IsFiniteSet(s) /\ Cardinality(s) <= Cardinality(S)
  BY FS_Subset
<1>2. Cardinality(s) \in Nat /\ (s = {} <=> Cardinality(s) = 0)
  BY <1>1, FS_CardinalityType, FS_EmptySet
<1>3. s # {} => Picked(s) \in s
  BY DEF Picked
<1>4. s # {} => Cardinality(s \ {Picked(s)}) = Cardinality(s) - 1
  BY <1>1, <1>3, FS_RemoveElement
<1> QED BY <1>1, <1>2, <1>3, <1>4

\* The equation has a solution.
LEMMA TotalsExist ==
  ASSUME NEW S, IsFiniteSet(S), NEW v
  PROVE  \E f : Sums(S, v, f)
<1> DEFINE Small(n) == {s \in SUBSET S : Cardinality(s) <= n}
           Solved(n) == \E f : f = [s \in Small(n) |-> Added(v, f, s)]
           unsolved == {n \in Nat : ~Solved(n)}
<1>1. Solved(0)
  <2> DEFINE f == [s \in Small(0) |-> 0]
  <2>1. ASSUME NEW s \in Small(0)
        PROVE  s = {}
    <3>1. s \in SUBSET S /\ Cardinality(s) <= 0
      OBVIOUS
    <3>2. Cardinality(s) \in Nat /\ (s = {} <=> Cardinality(s) = 0)
      BY <3>1, PickedOneByOne
    <3> QED BY <3>1, <3>2
  <2>2. f = [s \in Small(0) |-> Added(v, f, s)]
    BY <2>1 DEF Added
  <2> QED BY <2>2
<1>2. ASSUME NEW n \in Nat, Solved(n)
      PROVE  Solved(n + 1)
  <2>1. PICK f : f = [s \in Small(n) |-> Added(v, f, s)]
    BY <1>2
  <2> DEFINE g == [s \in Small(n + 1) |-> Added(v, f, s)]
  <2>2. ASSUME NEW s \in Small(n + 1), s # {}
        PROVE  s \ {Picked(s)} \in Small(n) \cap Small(n + 1)
    <3>1. /\ Cardinality(s) \in Nat /\ s \ {Picked(s)} \in SUBSET S
          /\ Cardinality(s \ {Picked(s)}) = Cardinality(s) - 1
      BY <2>2, PickedOneByOne
    <3> QED BY <3>1
  <2>3. \A t \in Small(n) \cap Small(n + 1) : g[t] = f[t]
    <3> SUFFICES ASSUME NEW t \in Small(n) \cap Small(n + 1)
                 PROVE  g[t] = f[t]
      OBVIOUS
    <3>1. f[t] = Added(v, f, t)
      <4> HIDE DEF Small
      <4> QED BY <2>1, Zenon
    <3> QED BY <3>1
  <2> HIDE DEF Small
  <2>4. \A s \in Small(n + 1) : Added(v, f, s) = Added(v, g, s)
    <3> HIDE DEF g
    <3> QED BY <2>2, <2>3 DEF Added
  <2>5. g = [s \in Small(n + 1) |-> Added(v, g, s)]
    <3> DEFINE h == g
    <3>1. \A s \in Small(n + 1) : Added(v, f, s) = Added(v, h, s)
      BY <2>4
    <3> HIDE DEF h
    <3>2. g = [s \in Small(n + 1) |-> Added(v, h, s)]
      BY <3>1
    <3> QED BY <3>2 DEF h
  <2> QED BY <2>5
<1>3. \A n \in Nat : Solved(n)
  <2> HIDE DEF Solved
  <2> SUFFICES ASSUME unsolved # {}
               PROVE  FALSE
    OBVIOUS
  <2>1. PICK m \in unsolved : \A n \in unsolved : m <= n
    BY LeastOfAny
  <2>2. m # 0 /\ m \in Nat
    BY <1>1, <2>1
  <2>3. m - 1 \in Nat /\ m = (m - 1) + 1
    BY <2>2
  <2>4. Solved(m - 1)
    BY <2>1, <2>3
  <2> QED BY <1>2, <2>1, <2>3, <2>4
<1>4. Small(Cardinality(S)) = SUBSET S /\ Cardinality(S) \in Nat
  BY PickedOneByOne, FS_CardinalityType
<1> HIDE DEF Small
<1> QED BY <1>3, <1>4 DEF Sums

\* The sum of naturals over a finite set is a natural.
LEMMA TotalIsNat ==
  ASSUME NEW S, IsFiniteSet(S), NEW v, \A x \in S : v[x] \in Nat
  PROVE  TotalOf(S, v) \in Nat
<1> DEFINE f == CHOOSE g : Sums(S, v, g)
           wrong == {n \in Nat : \E s \in SUBSET S : Cardinality(s) = n /\ f[s] \notin Nat}
<1>1. Sums(S, v, f)
  BY TotalsExist
<1> HIDE DEF f
<1>2. wrong = {}
  <2> SUFFICES ASSUME wrong # {}
               PROVE  FALSE
    OBVIOUS
  <2>1. PICK m \in wrong : \A n \in wrong : m <= n
    BY LeastOfAny
  <2>2. PICK s \in SUBSET S : Cardinality(s) = m /\ f[s] \notin Nat
    BY <2>1
  <2>3. f[s] = Added(v, f, s)
    BY <1>1, Zenon DEF Sums
  <2>4. CASE s = {}
    BY <2>2, <2>3, <2>4 DEF Added
  <2>5. CASE s # {}
    <3>1. /\ Picked(s) \in S /\ s \ {Picked(s)} \in SUBSET S
          /\ Cardinality(s \ {Picked(s)}) \in Nat /\ Cardinality(s \ {Picked(s)}) < m
      BY <2>2, <2>5, PickedOneByOne
    <3>2. f[s \ {Picked(s)}] \in Nat
      BY <2>1, <3>1
    <3>3. v[Picked(s)] \in Nat
      BY <3>1
    <3> QED BY <2>2, <2>3, <2>5, <3>2, <3>3 DEF Added
  <2> QED BY <2>4, <2>5
<1>3. f[S] \in Nat
  BY <1>2, PickedOneByOne
<1> QED BY <1>3, Zenon DEF TotalOf, f
-----------------------------------------------------------------------------
(* The trial balance.                                                      *)

\* The column of an entry over the lines on given accounts.
LinesOn(accounts, n) == {i \in DOMAIN n.lines : n.lines[i].account \in accounts}
PartOn(column, accounts, n) ==
  MapThenSumSet(LAMBDA i : n.lines[i][column], LinesOn(accounts, n))

\* When the accounts are those of the lines, a column is a total of the entry.
LEMMA WholeColumns ==
  ASSUME NEW n, NEW accounts, AccountsOf(n.lines) \subseteq accounts
  PROVE  /\ PartOn("debit", accounts, n) = Debit(n.lines)
         /\ PartOn("credit", accounts, n) = Credit(n.lines)
<1>1. LinesOn(accounts, n) = DOMAIN n.lines
  BY DEF AccountsOf, LinesOn
<1>2. /\ PartOn("debit", accounts, n) = MapThenSumSet(LAMBDA i : n.lines[i].debit, DOMAIN n.lines)
      /\ PartOn("credit", accounts, n) = MapThenSumSet(LAMBDA i : n.lines[i].credit, DOMAIN n.lines)
  BY <1>1, Zenon DEF PartOn
<1> QED BY <1>2 DEF Debit, Credit

\* The columns of an entry, and of the entries of an enterprise, are such sums: two equations
\* that say the same of every function have the same solution chosen.
LEMMA PartIsTotal ==
  ASSUME NEW column, NEW accounts, NEW n
  PROVE  PartOn(column, accounts, n) =
           TotalOf(LinesOn(accounts, n), [i \in LinesOn(accounts, n) |-> n.lines[i][column]])
<1> DEFINE E == LinesOn(accounts, n)
           v == [i \in E |-> n.lines[i][column]]
           Equation(f) == [s \in SUBSET E |->
             IF s = {} THEN 0 ELSE n.lines[Picked(s)][column] + f[s \ {Picked(s)}]]
<1>1. PartOn(column, accounts, n) = (CHOOSE f : f = Equation(f))[E]
  BY Zenon DEF PartOn, MapThenSumSet, MapThenFoldSet, Picked
<1>2. ASSUME NEW f
      PROVE  Equation(f) = [s \in SUBSET E |-> Added(v, f, s)]
  <2>1. \A s \in SUBSET E : s # {} => Picked(s) \in E
    BY DEF Picked
  <2> HIDE DEF E
  <2> QED BY <2>1 DEF Added
<1> HIDE DEF E, v, Equation
<1>3. (CHOOSE f : f = Equation(f)) = (CHOOSE f : Sums(E, v, f))
  <2>1. ASSUME NEW f
        PROVE  (f = Equation(f)) <=> Sums(E, v, f)
    BY <1>2, Zenon DEF Sums
  <2> QED BY <2>1, Zenon
<1>4. PartOn(column, accounts, n) = TotalOf(E, v)
  BY <1>1, <1>3, Zenon DEF TotalOf
<1> QED BY <1>4 DEF E, v

LEMMA SumIsTotal ==
  ASSUME NEW column, NEW accounts, NEW e
  PROVE  SumOn(column, accounts, e) =
           TotalOf(EntriesOf(e), [n \in EntriesOf(e) |-> PartOn(column, accounts, n)])
<1> DEFINE E == EntriesOf(e)
           v == [n \in E |-> PartOn(column, accounts, n)]
           Equation(f) == [s \in SUBSET E |->
             IF s = {} THEN 0 ELSE PartOn(column, accounts, Picked(s)) + f[s \ {Picked(s)}]]
<1>1. SumOn(column, accounts, e) = (CHOOSE f : f = Equation(f))[E]
  BY Zenon DEF SumOn, PartOn, LinesOn, MapThenSumSet, MapThenFoldSet, Picked
<1>2. ASSUME NEW f
      PROVE  Equation(f) = [s \in SUBSET E |-> Added(v, f, s)]
  <2>1. \A s \in SUBSET E : s # {} => Picked(s) \in E
    BY DEF Picked
  <2> HIDE DEF E
  <2> QED BY <2>1 DEF Added
<1> HIDE DEF E, v, Equation
<1>3. (CHOOSE f : f = Equation(f)) = (CHOOSE f : Sums(E, v, f))
  <2>1. ASSUME NEW f
        PROVE  (f = Equation(f)) <=> Sums(E, v, f)
    BY <1>2, Zenon DEF Sums
  <2> QED BY <2>1, Zenon
<1>4. SumOn(column, accounts, e) = TotalOf(E, v)
  BY <1>1, <1>3, Zenon DEF TotalOf
<1> QED BY <1>4 DEF E, v

LEMMA SumsAgree ==
  ASSUME NEW accounts, NEW e,
         \A n \in EntriesOf(e) : PartOn("debit", accounts, n) = PartOn("credit", accounts, n)
  PROVE  SumOn("debit", accounts, e) = SumOn("credit", accounts, e)
<1>1. [n \in EntriesOf(e) |-> PartOn("debit", accounts, n)]
        = [n \in EntriesOf(e) |-> PartOn("credit", accounts, n)]
  OBVIOUS
<1> QED BY <1>1, SumIsTotal, Zenon

\* Sums over finitely many entries are naturals.
LEMMA SumTyped ==
  ASSUME JournalAssumption, RowsOK, IsFiniteSet(entries), NEW column \in {"debit", "credit"},
         NEW accounts, NEW e
  PROVE  SumOn(column, accounts, e) \in Nat
<1>1. ASSUME NEW n \in EntriesOf(e)
      PROVE  PartOn(column, accounts, n) \in Nat
  <2>1. n.lines \in Seq(Line)
    BY <1>1 DEF EntriesOf, RowsOK, Entry, JournalAssumption
  <2>2. IsFiniteSet(DOMAIN n.lines)
    <3>1. DOMAIN n.lines = 1 .. Len(n.lines) /\ Len(n.lines) \in Nat
      BY <2>1
    <3> QED BY <3>1, FS_Interval
  <2>3. IsFiniteSet(LinesOn(accounts, n))
    BY <2>2, FS_Subset DEF LinesOn
  <2> DEFINE v == [i \in LinesOn(accounts, n) |-> n.lines[i][column]]
  <2>4. \A i \in LinesOn(accounts, n) : v[i] \in Nat
    <3> SUFFICES ASSUME NEW i \in LinesOn(accounts, n)
                 PROVE  n.lines[i][column] \in Nat
      OBVIOUS
    <3>1. n.lines[i] \in Line
      BY <2>1 DEF LinesOn
    <3> QED BY <3>1 DEF Line
  <2> HIDE DEF v
  <2>5. TotalOf(LinesOn(accounts, n), v) \in Nat
    BY <2>3, <2>4, TotalIsNat
  <2> QED BY <2>5, PartIsTotal, Zenon DEF v
<1> DEFINE v == [n \in EntriesOf(e) |-> PartOn(column, accounts, n)]
<1>2. \A n \in EntriesOf(e) : v[n] \in Nat
  BY <1>1
<1>3. IsFiniteSet(EntriesOf(e))
  BY FS_Subset DEF EntriesOf
<1> HIDE DEF v
<1>4. TotalOf(EntriesOf(e), v) \in Nat
  BY <1>2, <1>3, TotalIsNat
<1> QED BY <1>4, SumIsTotal, Zenon DEF v

\* A report is a record with totals, of what are finitely many entries at any time.
ReportOK == report \in Report /\ IsFiniteSet(entries)

LEMMA ReportNext ==
  ASSUME JournalAssumption, JournalInv, ReportOK, [Next]_vars
  PROVE  ReportOK'
<1>1. CASE UNCHANGED report
  <2>1. entries' = entries \/ \E r \in Requests : entries' = entries \cup {Draft(r)}
    BY DEF Next, Step, vars, Receive, LookUp, LookUpAnd, CheckAccounts, TakeNumber, Insert, Commit,
       Audit, Fail, CreateAccount, ReadAccounts, SumLines, CloseReport
  <2>2. IsFiniteSet(entries')
    BY <2>1, FS_AddElement DEF ReportOK
  <2> QED BY <1>1, <2>2 DEF ReportOK
<1>2. CASE SumLines
  <2> DEFINE debit == SumOn("debit", report.accounts, report.enterprise)
             credit == SumOn("credit", report.accounts, report.enterprise)
  <2>1. debit \in Nat /\ credit \in Nat
    BY SumTyped DEF JournalInv, ReportOK
  <2> HIDE DEF debit, credit
  <2>2. report' = [report EXCEPT !.pc = "done", !.debit = debit, !.credit = credit]
        /\ entries' = entries
    BY <1>2 DEF SumLines, debit, credit
  <2> QED BY <2>1, <2>2 DEF ReportOK, Report
<1>3. CASE \E e \in Enterprises : ReadAccounts(e)
  <2>1. PICK e \in Enterprises : ReadAccounts(e)
    BY <1>3
  <2>2. Owned(e) \subseteq Accounts /\ IdleReport \in Report
    BY DEF Owned, IdleReport, Report
  <2>3. report' = [IdleReport EXCEPT !.pc = "sum", !.enterprise = e, !.accounts = Owned(e)]
        /\ entries' = entries
    BY <2>1 DEF ReadAccounts
  <2>4. report' \in Report
    BY <2>2, <2>3 DEF Report
  <2> QED BY <2>3, <2>4 DEF ReportOK
<1>4. CASE CloseReport
  <2>1. report' = IdleReport /\ entries' = entries
    BY <1>4 DEF CloseReport
  <2>2. IdleReport \in Report
    BY DEF IdleReport, Report
  <2> QED BY <2>1, <2>2 DEF ReportOK
<1>5. UNCHANGED report \/ SumLines \/ (\E e \in Enterprises : ReadAccounts(e)) \/ CloseReport
  BY DEF Next, Step, vars, Receive, LookUp, LookUpAnd, CheckAccounts, TakeNumber, Insert, Commit,
     Audit, Fail, CreateAccount
<1> QED BY <1>1, <1>2, <1>3, <1>4, <1>5

LEMMA ReportCorrect == Spec => [](JournalInv /\ OwnAccounts /\ ReportOK)
<1>1. Init => OwnAccounts /\ ReportOK
  <2> SUFFICES ASSUME Init PROVE OwnAccounts /\ ReportOK
    OBVIOUS
  <2>1. OwnAccounts
    BY DEF Init, OwnAccounts, IdleRequest
  <2>2. IsFiniteSet(entries)
    BY FS_EmptySet DEF Init
  <2>3. report \in Report
    BY DEF Init, Report, IdleReport
  <2> QED BY <2>1, <2>2, <2>3 DEF ReportOK
<1> QED BY <1>1, JournalAssumption, InitInv, NextInv, OwnNext, ReportNext, PTL DEF Spec

\* Tables and requests keep their shapes, and the totals of a trial balance are naturals.
THEOREM JournalTypes == Spec => []TypeOK
<1>1. JournalInv /\ ReportOK => TypeOK
  BY DEF JournalInv, ReportOK, TypeOK
<1> QED BY <1>1, ReportCorrect, PTL

\* A trial balance whose accounts are all those of the enterprise, when its lines are summed, is
\* balanced, for any entries posted between its two queries: every entry is in double entry, all its
\* lines are on accounts of its enterprise, and the two columns sum the same entries.
THEOREM ReportsAreExact == Spec => ReportIsExact
<1> DEFINE Exact == /\ report.pc = "sum" /\ report'.pc = "done"
                    /\ report.accounts = Owned(report.enterprise)
                    => report'.debit = report'.credit
<1>1. ASSUME JournalInv, OwnAccounts, ReportOK, [Next]_vars
      PROVE  Exact
  <2> SUFFICES ASSUME report.pc = "sum", report'.pc = "done",
                      report.accounts = Owned(report.enterprise)
               PROVE  report'.debit = report'.credit
    OBVIOUS
  <2>1. SumLines
    BY <1>1 DEF Next, Step, vars, Receive, LookUp, LookUpAnd, CheckAccounts, TakeNumber, Insert,
       Commit, Audit, Fail, CreateAccount, ReadAccounts, CloseReport, IdleReport
  <2>2. ASSUME NEW n \in EntriesOf(report.enterprise)
        PROVE  PartOn("debit", report.accounts, n) = PartOn("credit", report.accounts, n)
    <3>1. AccountsOf(n.lines) \subseteq report.accounts /\ Balanced(n.lines)
      BY <1>1, <2>2 DEF EntriesOf, OwnAccounts, JournalInv, DoubleEntry
    <3> QED BY <3>1, WholeColumns DEF Balanced
  <2>3. SumOn("debit", report.accounts, report.enterprise)
          = SumOn("credit", report.accounts, report.enterprise)
    BY <2>2, SumsAgree
  <2> QED BY <1>1, <2>1, <2>3 DEF SumLines, ReportOK, Report
<1>2. Spec => [][Exact]_vars
  BY <1>1, ReportCorrect, PTL DEF Spec
<1> QED BY <1>2 DEF ReportIsExact

-----------------------------------------------------------------------------
(* Refinement of Ledger.                                                   *)

Row == [lines: {lines \in Inputs : Balanced(lines)}, key: Keys \cup {None}]

RowOf(n) == [lines |-> n.lines, key |-> n.key]

LEMMA NumberedIs ==
  ASSUME NumbersWithoutGap, NEW e \in Enterprises, NEW n \in EntriesOf(e)
  PROVE  Numbered(e, n.number) = n
  BY DEF NumbersWithoutGap, Numbered

LEMMA NumberedExists ==
  ASSUME NumbersWithoutGap, NEW e \in Enterprises, NEW i \in 1..counter[e]
  PROVE  Numbered(e, i) \in EntriesOf(e) /\ Numbered(e, i).number = i
<1>1. PICK n \in EntriesOf(e) : n.number = i
  BY DEF NumbersWithoutGap
<1> QED BY <1>1, NumberedIs

LEMMA LedgerTyped ==
  ASSUME JournalInv, NEW e \in Enterprises
  PROVE  /\ LedgerOf(e) \in Seq(Row) /\ Len(LedgerOf(e)) = counter[e]
         /\ \A i \in 1..counter[e] : LedgerOf(e)[i] = RowOf(Numbered(e, i))
<1>1. counter[e] \in Nat
  BY DEF JournalInv, RowsOK
<1>2. \A i \in 1..counter[e] : RowOf(Numbered(e, i)) \in Row
  BY NumberedExists DEF JournalInv, RowsOK, DoubleEntry, EntriesOf, Entry, RowOf, Row
<1>3. LedgerOf(e) = [i \in 1..counter[e] |-> RowOf(Numbered(e, i))]
  BY DEF LedgerOf, RowOf
<1> QED BY <1>1, <1>2, <1>3

LEMMA LedgerKept ==
  ASSUME NEW e \in Enterprises, EntriesOf(e)' = EntriesOf(e), counter'[e] = counter[e]
  PROVE  LedgerOf(e)' = LedgerOf(e)
  BY DEF LedgerOf, Numbered

LEMMA LedgerGrows ==
  ASSUME JournalInv, JournalInv', NEW r \in Requests, Commit(r),
         NEW e \in Enterprises, e = request[r].enterprise, NEW d, d = Draft(r)
  PROVE  /\ LedgerOf(e)' = Append(LedgerOf(e), RowOf(d))
         /\ \A f \in Enterprises \ {e} : LedgerOf(f)' = LedgerOf(f)
<1>1. /\ counter[e] \in Nat /\ counter[e] + 1 \in Nat
      /\ d.enterprise = e /\ d.number = counter[e] + 1
      /\ d.lines \in Inputs /\ Balanced(d.lines) /\ d.key \in Keys \cup {None}
  BY RequestTyped DEF JournalInv, RowsOK, Commit, Prepared, HoldsNext, Draft, RequestState
<1>2. /\ entries' = entries \cup {d}
      /\ counter' = [counter EXCEPT ![e] = counter[e] + 1]
  BY <1>1 DEF Commit, Draft
<1>3. /\ counter'[e] = counter[e] + 1
      /\ \A f \in Enterprises \ {e} : counter'[f] = counter[f]
  BY <1>1, <1>2 DEF JournalInv, RowsOK
<1>4. EntriesOf(e)' = EntriesOf(e) \cup {d}
  BY <1>1, <1>2 DEF EntriesOf
<1>5. \A f \in Enterprises \ {e} : LedgerOf(f)' = LedgerOf(f)
  <2> SUFFICES ASSUME NEW f \in Enterprises \ {e} PROVE LedgerOf(f)' = LedgerOf(f)
    OBVIOUS
  <2>1. EntriesOf(f)' = EntriesOf(f)
    BY <1>1, <1>2 DEF EntriesOf
  <2> QED BY <1>3, <2>1, LedgerKept
<1>6. \A i \in 1..counter[e] : Numbered(e, i)' = Numbered(e, i)
  <2> SUFFICES ASSUME NEW i \in 1..counter[e] PROVE Numbered(e, i)' = Numbered(e, i)
    OBVIOUS
  <2>1. Numbered(e, i) \in EntriesOf(e)' /\ Numbered(e, i).number = i
    BY <1>1, <1>4, NumberedExists DEF JournalInv
  <2>2. \A m, n \in EntriesOf(e)' : m.number = n.number => m = n
    BY <1>1 DEF JournalInv, NumbersWithoutGap
  <2>3. Numbered(e, i)' = CHOOSE n \in EntriesOf(e)' : n.number = i
    BY DEF Numbered
  <2> QED BY <2>1, <2>2, <2>3
<1>7. \A i \in {counter[e] + 1} : Numbered(e, i)' = d
  <2> SUFFICES ASSUME NEW i, i = counter[e] + 1 PROVE Numbered(e, i)' = d
    OBVIOUS
  <2>1. d \in EntriesOf(e)' /\ d.number = i
    BY <1>1, <1>4
  <2>2. \A m, n \in EntriesOf(e)' : m.number = n.number => m = n
    BY <1>1 DEF JournalInv, NumbersWithoutGap
  <2>3. Numbered(e, i)' = CHOOSE n \in EntriesOf(e)' : n.number = i
    BY DEF Numbered
  <2> QED BY <2>1, <2>2, <2>3
<1>8. LedgerOf(e)' = [i \in 1..(counter[e] + 1) |-> RowOf(Numbered(e, i)')]
  BY <1>3 DEF LedgerOf, RowOf
<1>9. RowOf(d) \in Row
  BY <1>1 DEF RowOf, Row
<1>10. LedgerOf(e)' = Append(LedgerOf(e), RowOf(d))
  <2>1. /\ LedgerOf(e) \in Seq(Row) /\ Len(LedgerOf(e)) = counter[e]
        /\ \A i \in 1..counter[e] : LedgerOf(e)[i] = RowOf(Numbered(e, i))
    BY <1>1, LedgerTyped
  <2> DEFINE s == LedgerOf(e)
             t == Append(s, RowOf(d))
  <2>2. /\ t \in Seq(Row) /\ Len(t) = counter[e] + 1
        /\ \A i \in 1..counter[e] : t[i] = s[i]
        /\ t[counter[e] + 1] = RowOf(d)
    BY <1>1, <1>9, <2>1
  <2>3. ASSUME NEW i \in 1..(counter[e] + 1)
        PROVE  RowOf(Numbered(e, i)') = t[i]
    <3>1. CASE i \in 1..counter[e]
      BY <1>6, <2>1, <2>2, <3>1
    <3>2. CASE i = counter[e] + 1
      BY <1>7, <2>2, <3>2
    <3>3. i \in 1..counter[e] \/ i = counter[e] + 1
      BY <1>1
    <3> QED BY <3>1, <3>2, <3>3
  <2>4. t = [i \in 1..(counter[e] + 1) |-> t[i]]
    BY <2>2
  <2> HIDE DEF t, s
  <2>5. LedgerOf(e)' = t
    BY <1>8, <2>3, <2>4
  <2> QED BY <2>5 DEF t, s
<1> QED BY <1>5, <1>10

\* Steps other than a commit leave the ledger alone.
LEMMA LedgerStep ==
  ASSUME JournalInv, JournalInv', [Next]_vars
  PROVE  \/ \E r \in Requests : Commit(r)
         \/ UNCHANGED [e \in Enterprises |-> LedgerOf(e)]
<1>1. CASE UNCHANGED <<entries, counter>>
  <2>1. \A e \in Enterprises : LedgerOf(e)' = LedgerOf(e)
    BY <1>1, LedgerKept DEF EntriesOf
  <2> QED BY <2>1
<1>2. (\E r \in Requests : Commit(r)) \/ UNCHANGED <<entries, counter>>
  BY DEF Next, Step, vars, Receive, LookUp, LookUpAnd, CheckAccounts, TakeNumber, Insert,
         Audit, Fail, CreateAccount, ReadAccounts, SumLines, CloseReport
<1> QED BY <1>1, <1>2

\* The journal implements the list of entries: what is posted stays, in the order of its
\* number, and a key posts once.
THEOREM JournalIsALedger == Spec => ImplementsLedger
<1>1. ASSUME Init PROVE L!Init
  <2>1. \A e \in Enterprises : LedgerOf(e) = <<>>
    BY <1>1 DEF Init, LedgerOf
  <2> QED BY <2>1 DEF L!Init
<1>2. ASSUME JournalInv, JournalInv', [Next]_vars
      PROVE  [L!Next]_([e \in Enterprises |-> LedgerOf(e)])
  <2>1. ASSUME NEW r \in Requests, Commit(r)
        PROVE  L!Next
    <3>0. request[r].enterprise \in Enterprises
      BY <1>2, <2>1 DEF JournalInv, Prepared, Commit
    <3> PICK e \in Enterprises, d \in {Draft(r)} : e = request[r].enterprise /\ d = Draft(r)
      BY <3>0
    <3>1. /\ LedgerOf(e)' = Append(LedgerOf(e), RowOf(d))
          /\ \A f \in Enterprises \ {e} : LedgerOf(f)' = LedgerOf(f)
      BY <1>2, <2>1, LedgerGrows
    <3>2. d.lines \in Inputs /\ Balanced(d.lines) /\ d.key \in Keys \cup {None} /\ d.enterprise = e
      BY <1>2, <2>1, RequestTyped DEF JournalInv, RowsOK, Commit, Prepared, Draft, RequestState
    <3>3. \A n \in EntriesOf(e) : d.key # None => n.key # d.key
      BY <1>2, <2>1, <3>2 DEF JournalInv, NoCollision, Commit, Collide, EntriesOf
    <3>4. d.key # None => d.key \notin {LedgerOf(e)[i].key : i \in DOMAIN LedgerOf(e)}
      <4>1. /\ LedgerOf(e) \in Seq(Row) /\ Len(LedgerOf(e)) = counter[e]
            /\ \A i \in 1..counter[e] : LedgerOf(e)[i] = RowOf(Numbered(e, i))
        BY <1>2, <3>1, LedgerTyped
      <4>2. \A i \in 1..counter[e] : Numbered(e, i) \in EntriesOf(e)
        BY <1>2, <3>1, NumberedExists DEF JournalInv
      <4>3. \A i \in DOMAIN LedgerOf(e) : i \in 1..counter[e]
        BY <4>1
      <4>4. \A n : RowOf(n).key = n.key
        BY DEF RowOf
      <4>5. \A i \in DOMAIN LedgerOf(e) : LedgerOf(e)[i].key = Numbered(e, i).key
        BY <4>1, <4>3, <4>4
      <4> QED BY <3>3, <4>2, <4>3, <4>5
    <3>5. L!Post(e, d.lines, d.key)
      BY <3>1, <3>4 DEF L!Post, L!Used, RowOf
    <3> QED BY <3>1, <3>2, <3>5 DEF L!Next
  <2> QED BY <1>2, <2>1, LedgerStep
<1> QED BY <1>1, <1>2, JournalCorrect, PTL DEF Spec, ImplementsLedger, L!Spec
=============================================================================
