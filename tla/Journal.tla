------------------------------ MODULE Journal ------------------------------
(***************************************************************************)
(* The accounting journal (apps/api/src/accounting).  Requests that post   *)
(* entries run concurrently, each in a READ COMMITTED transaction, one     *)
(* action per statement, while accounts are created and a trial balance is *)
(* read.  The tables hold what is committed: what a transaction has        *)
(* written and not committed is in its request.  TakeNumber locks the row  *)
(* of the enterprise's counter until the end of the transaction, and an    *)
(* insertion waits for a transaction that has inserted the same unique     *)
(* value.                                                                  *)
(***************************************************************************)
EXTENDS Integers, Sequences, FiniteSetsExt

CONSTANTS
  Enterprises,
  Accounts,     \* rows the table accounts may come to hold
  Keys,         \* values of the Idempotency-Key header
  Inputs,       \* the lines clients send
  Requests,     \* requests to POST /accounting/journal-entries
  Prefixes,     \* first eight characters of an enterprise's id
  None          \* SQL NULL, and the absence of a value

Line == [account: Accounts, debit: Nat, credit: Nat]

ASSUME JournalAssumption ==
  /\ Inputs \subseteq Seq(Line)
  /\ None \notin Keys \cup Enterprises \cup Requests

VARIABLES
  prefix,       \* prefix of each enterprise's id, which its numbers carry
  account,      \* owner of each row of accounts, None before it is created
  entries,      \* table journal_entries, with the lines
  counter,      \* journal_entry_counters.last_number of each enterprise
  request,      \* requests
  audited,      \* rows CREATE_JOURNAL_ENTRY of the audit log
  report        \* a reading of the trial balance

vars == <<prefix, account, entries, counter, request, audited, report>>

-----------------------------------------------------------------------------
(* Lines and rows.                                                         *)

Debit(lines) == MapThenSumSet(LAMBDA i : lines[i].debit, DOMAIN lines)
Credit(lines) == MapThenSumSet(LAMBDA i : lines[i].credit, DOMAIN lines)

\* Double entry: the totals agree, and each line is either a debit or a credit.
Balanced(lines) ==
  /\ Debit(lines) = Credit(lines) /\ Debit(lines) > 0
  /\ \A i \in DOMAIN lines : (lines[i].debit > 0) # (lines[i].credit > 0)

AccountsOf(lines) == {lines[i].account : i \in DOMAIN lines}

Owned(e) == {a \in Accounts : account[a] = e}

Entry == [enterprise: Enterprises, number: Nat, key: Keys \cup {None}, lines: Inputs]

EntriesOf(e) == {n \in entries : n.enterprise = e}

\* The entry that carries an idempotency key.
WithKey(e, key) == {n \in EntriesOf(e) : key # None /\ n.key = key}

\* The printed number, ECR-<prefix>-<number>.
Printed(n) == <<prefix[n.enterprise], n.number>>

RequestState ==
  [pc: {"idle", "lookup", "accounts", "number", "insert", "commit", "audit",
        "done", "refused", "error"},
   enterprise: Enterprises \cup {None}, key: Keys \cup {None}, lines: Inputs \cup {<<>>},
   number: Nat, created: BOOLEAN]

IdleRequest == [pc |-> "idle", enterprise |-> None, key |-> None, lines |-> <<>>,
                number |-> 0, created |-> FALSE]

AuditRow == [by: Requests, enterprise: Enterprises, number: Nat]

Report == [pc: {"idle", "sum", "done"}, enterprise: Enterprises \cup {None},
           accounts: SUBSET Accounts, debit: Nat, credit: Nat]

IdleReport == [pc |-> "idle", enterprise |-> None, accounts |-> {}, debit |-> 0, credit |-> 0]

\* One invariant says that tables and requests, and then the report, keep their shapes.
RowsOK ==
  /\ prefix \in [Enterprises -> Prefixes]
  /\ account \in [Accounts -> Enterprises \cup {None}]
  /\ entries \subseteq Entry
  /\ counter \in [Enterprises -> Nat]
  /\ request \in [Requests -> RequestState]
  /\ audited \subseteq AuditRow

TypeOK == RowsOK /\ report \in Report

Init ==
  /\ prefix \in [Enterprises -> Prefixes]
  /\ account = [a \in Accounts |-> None]
  /\ entries = {}
  /\ counter = [e \in Enterprises |-> 0]
  /\ request = [r \in Requests |-> IdleRequest]
  /\ audited = {}
  /\ report = IdleReport

-----------------------------------------------------------------------------
(* Posting an entry: JournalService.create.                                *)

Goto(r, label) == request' = [request EXCEPT ![r].pc = label]

\* The request ends, with the entry it answers if there is one.
Answer(r, label, number, created) ==
  request' = [request EXCEPT ![r] = [@ EXCEPT !.pc = label, !.number = number,
                                              !.created = created]]

\* The entry a request is inserting.
Draft(r) == [enterprise |-> request[r].enterprise, number |-> request[r].number,
             key |-> request[r].key, lines |-> request[r].lines]

\* Faulty variant: double entry is left to the HTTP schema, which a direct call skips.
ReceiveUnchecked(r, e, key, lines) ==
  /\ request[r].pc = "idle"
  /\ request' = [request EXCEPT ![r] =
       [IdleRequest EXCEPT !.pc = "lookup", !.enterprise = e, !.key = key, !.lines = lines]]
  /\ UNCHANGED <<prefix, account, entries, counter, audited, report>>

\* A call arrives; lines that break double entry are refused before the transaction.
Receive(r, e, key, lines) ==
  /\ request[r].pc = "idle"
  /\ request' = [request EXCEPT ![r] =
       [IdleRequest EXCEPT !.pc = IF Balanced(lines) THEN "lookup" ELSE "refused",
                           !.enterprise = e, !.key = key, !.lines = lines]]
  /\ UNCHANGED <<prefix, account, entries, counter, audited, report>>

\* A key is looked up, and a replay ends at a label, perhaps told that it created the entry.
LookUpAnd(r, label, created) ==
  /\ request[r].pc = "lookup"
  /\ LET existing == WithKey(request[r].enterprise, request[r].key)
     IN  IF existing = {} THEN Goto(r, "accounts")
         ELSE \E n \in existing : Answer(r, label, n.number, created)
  /\ UNCHANGED <<prefix, account, entries, counter, audited, report>>

\* Faulty variant: a replay is told that it created the entry.
LookUpAsCreated(r) == LookUpAnd(r, "done", TRUE)

\* A replay is answered with the entry of its key, before a number is taken.
LookUp(r) == LookUpAnd(r, "done", FALSE)

\* Faulty variant: the accounts must exist, whoever owns them.
CheckAccountsExist(r) ==
  /\ request[r].pc = "accounts"
  /\ Goto(r, IF \A a \in AccountsOf(request[r].lines) : account[a] # None
             THEN "number" ELSE "refused")
  /\ UNCHANGED <<prefix, account, entries, counter, audited, report>>

\* Every account of the lines must exist and be the enterprise's own.
CheckAccounts(r) ==
  /\ request[r].pc = "accounts"
  /\ Goto(r, IF AccountsOf(request[r].lines) \subseteq Owned(request[r].enterprise)
             THEN "number" ELSE "refused")
  /\ UNCHANGED <<prefix, account, entries, counter, audited, report>>

\* Requests that hold the row of their enterprise's counter.
Holding(e) == {q \in Requests : request[q].pc \in {"insert", "commit"} /\ request[q].enterprise = e}

\* The upsert of the counter waits for the transaction that holds its row.
TakeNumber(r) ==
  /\ request[r].pc = "number"
  /\ Holding(request[r].enterprise) = {}
  /\ request' = [request EXCEPT ![r] = [@ EXCEPT !.pc = "insert",
                                                 !.number = counter[request[r].enterprise] + 1]]
  /\ UNCHANGED <<prefix, account, entries, counter, audited, report>>

\* The unique values of two rows collide: the printed number, or the key in one enterprise.
Collide(m, n) ==
  \/ Printed(m) = Printed(n)
  \/ m.enterprise = n.enterprise /\ m.key = n.key /\ m.key # None

Inserted == {Draft(q) : q \in {p \in Requests : request[p].pc = "commit"}}

\* The insertion waits for uncommitted rows it collides with, and fails on committed ones.
\* After a failure the lookup of the catch block runs in the aborted transaction, fails too,
\* and everything is rolled back.
Insert(r) ==
  /\ request[r].pc = "insert"
  /\ \A n \in Inserted : ~Collide(Draft(r), n)
  /\ IF \E n \in entries : Collide(Draft(r), n)
       THEN Answer(r, "error", 0, FALSE)
       ELSE Goto(r, "commit")
  /\ UNCHANGED <<prefix, account, entries, counter, audited, report>>

Commit(r) ==
  /\ request[r].pc = "commit"
  /\ entries' = entries \cup {Draft(r)}
  /\ counter' = [counter EXCEPT ![request[r].enterprise] = request[r].number]
  /\ Answer(r, "audit", request[r].number, TRUE)
  /\ UNCHANGED <<prefix, account, audited, report>>

\* The audit row is written after the commit, by another connection.
Audit(r) ==
  /\ request[r].pc = "audit"
  /\ audited' = audited \cup {[by |-> r, enterprise |-> request[r].enterprise,
                               number |-> request[r].number]}
  /\ Goto(r, "done")
  /\ UNCHANGED <<prefix, account, entries, counter, report>>

\* A statement fails, the transaction times out or the process dies: what is not committed
\* is rolled back, and the client is not told what was.
Fail(r) ==
  /\ request[r].pc \in {"lookup", "accounts", "number", "insert", "commit", "audit"}
  /\ Answer(r, "error", 0, FALSE)
  /\ UNCHANGED <<prefix, account, entries, counter, audited, report>>

-----------------------------------------------------------------------------
(* Accounts, and the trial balance.                                        *)

CreateAccount(a, e) ==
  /\ account[a] = None
  /\ account' = [account EXCEPT ![a] = e]
  /\ UNCHANGED <<prefix, entries, counter, request, audited, report>>

ReadAccounts(e) ==
  /\ report.pc = "idle"
  /\ report' = [IdleReport EXCEPT !.pc = "sum", !.enterprise = e, !.accounts = Owned(e)]
  /\ UNCHANGED <<prefix, account, entries, counter, request, audited>>

\* The sums groupBy returns for the accounts read before, over what is committed now.
SumOn(column, accounts, e) ==
  MapThenSumSet(LAMBDA n : MapThenSumSet(LAMBDA i : n.lines[i][column],
                             {i \in DOMAIN n.lines : n.lines[i].account \in accounts}),
                EntriesOf(e))

SumLines ==
  /\ report.pc = "sum"
  /\ report' = [report EXCEPT
       !.pc = "done",
       !.debit = SumOn("debit", report.accounts, report.enterprise),
       !.credit = SumOn("credit", report.accounts, report.enterprise)]
  /\ UNCHANGED <<prefix, account, entries, counter, request, audited>>

CloseReport ==
  /\ report.pc = "done"
  /\ report' = IdleReport
  /\ UNCHANGED <<prefix, account, entries, counter, request, audited>>

-----------------------------------------------------------------------------
Step(r) ==
  \/ LookUp(r) \/ CheckAccounts(r) \/ TakeNumber(r) \/ Insert(r) \/ Commit(r) \/ Audit(r)

Next ==
  \/ \E r \in Requests, e \in Enterprises, key \in Keys \cup {None}, lines \in Inputs :
       Receive(r, e, key, lines)
  \/ \E r \in Requests : Step(r) \/ Fail(r)
  \/ \E a \in Accounts, e \in Enterprises : CreateAccount(a, e)
  \/ \E e \in Enterprises : ReadAccounts(e)
  \/ SumLines
  \/ CloseReport

Spec == Init /\ [][Next]_vars

-----------------------------------------------------------------------------
(* Properties.                                                             *)

\* The numbers of an enterprise's entries are 1, 2, ... up to its counter, and each is given
\* once, whatever fails or is replayed ("sans trou, resistante a la concurrence",
\* journal.repository.ts:113).
NumbersWithoutGap ==
  \A e \in Enterprises :
    /\ {n.number : n \in EntriesOf(e)} = 1..counter[e]
    /\ \A m, n \in EntriesOf(e) : m.number = n.number => m = n

\* A printed number names one entry, even of enterprises whose ids begin alike.
PrintedOnce == \A m, n \in entries : Printed(m) = Printed(n) => m = n

\* A request that succeeds names an entry of its enterprise with its key, and among the
\* requests of one key at most one is told that it created it.
AnswersNameEntries ==
  \A r \in Requests : request[r].pc \in {"audit", "done"} =>
    /\ \E n \in EntriesOf(request[r].enterprise) :
         n.number = request[r].number /\ n.key = request[r].key
    /\ \A q \in Requests \ {r} :
         /\ request[q].pc \in {"audit", "done"}
         /\ request[q].enterprise = request[r].enterprise
         /\ request[q].number = request[r].number
         => ~(request[q].created /\ request[r].created)

\* An entry is audited at most once, by the request that created it, and always when that
\* request was answered.
AuditedByItsCreator ==
  /\ \A a, b \in audited : a.enterprise = b.enterprise /\ a.number = b.number => a = b
  /\ \A r \in Requests :
       (request[r].pc = "done" /\ request[r].created) <=> (\E a \in audited : a.by = r)

\* A trial balance is balanced unless an account was created after it read the accounts,
\* whatever is posted in between.
ReportIsExact ==
  [][ /\ report.pc = "sum" /\ report'.pc = "done"
      /\ report.accounts = Owned(report.enterprise)
      => report'.debit = report'.credit ]_vars

\* Without the proviso, as accounts.repository.ts:100-102 has it; the code does not ensure it.
TrialBalances == report.pc = "done" => report.debit = report.credit

\* The entry of an enterprise that carries a number.
Numbered(e, i) == CHOOSE n \in EntriesOf(e) : n.number = i

LedgerOf(e) ==
  [i \in 1..counter[e] |-> [lines |-> Numbered(e, i).lines, key |-> Numbered(e, i).key]]

L == INSTANCE Ledger WITH
       Entries <- {lines \in Inputs : Balanced(lines)},
       ledger <- [e \in Enterprises |-> LedgerOf(e)]

\* The journal is append-only: entries in double entry are added at the end, one per key.
ImplementsLedger == L!Spec
=============================================================================
