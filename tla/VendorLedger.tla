---------------------------- MODULE VendorLedger ----------------------------
(***************************************************************************)
(* A vendor's ledger in the procurement service: entries with a running     *)
(* balance (vendor_service.py), booked for invoices or by hand, and mirrored *)
(* to the Finance service by a call after their commit (ledger_service.py)  *)
(* or by the beat task that retries unsynced ones (invoice_tasks.py).  The  *)
(* balance is read without a lock from the entry with the latest            *)
(* created_at, which PostgreSQL's now() sets to the time the inserting      *)
(* transaction began.                                                       *)
(***************************************************************************)
EXTENDS Integers, FiniteSets, FiniteSums

CONSTANTS
  Invoices,     \* ids of purchase_invoices of the vendor
  Adjustments,  \* manual entries, POST /vendors/{id}/ledger
  Amount,       \* what an entry adds to the balance: debits more, credits less
  RetryTasks,   \* runs of retry_unsynced_ledger_entries under way
  MaxFaults     \* bound: failures of processes and lost replies, in all

Jobs == Invoices \cup Adjustments

ASSUME LedgerAssumption ==
  /\ IsFiniteSet(Jobs) /\ IsFiniteSet(RetryTasks)
  /\ Invoices \cap Adjustments = {}
  /\ Amount \in [Jobs -> Int \ {0}]
  /\ \A i \in Invoices : Amount[i] < 0
  /\ MaxFaults \in Nat

VARIABLES
  is_deleted,  \* the vendor is soft-deleted
  entry,       \* rows of vendor_ledger_entries, by the request that adds them
  journal,     \* how many journal entries Finance has for each
  job,         \* the request of each invoice or adjustment
  retry,       \* the entries a retry task has read, and those it has marked
  begun,       \* transactions that began, the clock of created_at
  faults,      \* failures so far
  interleaved   \* history: two requests added entries at one time

ledgerVars == <<is_deleted, entry, journal, job, retry, begun, faults, interleaved>>

NoEntry == [created_at |-> 0, balance_after |-> 0, synced |-> FALSE]

NewJob == [step |-> "new", created_at |-> 0, balance |-> 0]

NoRetry == [step |-> "idle", todo |-> {}, marked |-> {}]

LedgerInit ==
  /\ is_deleted = FALSE
  /\ entry = [j \in Jobs |-> NoEntry]
  /\ journal = [j \in Jobs |-> 0]
  /\ job = [j \in Jobs |-> NewJob]
  /\ retry = [t \in RetryTasks |-> NoRetry]
  /\ begun = 0
  /\ faults = 0
  /\ interleaved = FALSE

Exists(j) == entry[j].created_at > 0

Entries == {j \in Jobs : Exists(j)}

Goto(j, step) == job' = [job EXCEPT ![j].step = step]

Adding(j) == job[j].step \in {"read_balance", "insert"}

Post(j) == journal' = [journal EXCEPT ![j] = @ + 1]

Fault == faults < MaxFaults /\ faults' = faults + 1

-----------------------------------------------------------------------------
\* DELETE /vendors/{id}
delete_vendor ==
  /\ is_deleted' = TRUE
  /\ UNCHANGED <<entry, journal, job, retry, begun, faults, interleaved>>

\* The step of a request from which add_ledger_entry goes on: at once for a
\* manual entry, after the commit of its invoice for an invoice.
ReadyToAdd(j) == job[j].step = IF j \in Invoices THEN "booked" ELSE "new"

\* add_ledger_entry finds the vendor; its transaction begins here.
BeginEntry(j) ==
  /\ ReadyToAdd(j)
  /\ ~is_deleted
  /\ begun' = begun + 1
  /\ job' = [job EXCEPT ![j].step = "read_balance", ![j].created_at = begun']
  /\ interleaved' = (interleaved \/ \E k \in Jobs : Adding(k))
  /\ UNCHANGED <<is_deleted, entry, journal, retry, faults>>

\* The vendor was deleted meanwhile: 404, although the invoice is committed.
VendorNotFound(j) ==
  /\ ReadyToAdd(j)
  /\ is_deleted
  /\ Goto(j, "done")
  /\ UNCHANGED <<is_deleted, entry, journal, retry, begun, faults, interleaved>>

\* Mutant: the sort is ascending.
Earliest == IF Entries = {} THEN 0
            ELSE LET first == Min({entry[j].created_at : j \in Entries})
                 IN entry[CHOOSE j \in Entries : entry[j].created_at = first].balance_after

Latest == IF Entries = {} THEN 0
          ELSE LET last == Max({entry[j].created_at : j \in Entries})
               IN entry[CHOOSE j \in Entries : entry[j].created_at = last].balance_after

get_current_balance(j) ==
  /\ job[j].step = "read_balance"
  /\ job' = [job EXCEPT ![j].step = "insert", ![j].balance = Latest]
  /\ UNCHANGED <<is_deleted, entry, journal, retry, begun, faults, interleaved>>

\* The entry is committed; a manual one is left to the retry task.
add_ledger_entry(j) ==
  /\ job[j].step = "insert"
  /\ entry' = [entry EXCEPT ![j] = [created_at    |-> job[j].created_at,
                                    balance_after |-> job[j].balance + Amount[j],
                                    synced        |-> FALSE]]
  /\ Goto(j, IF j \in Invoices THEN "post" ELSE "done")
  /\ UNCHANGED <<is_deleted, journal, retry, begun, faults, interleaved>>

-----------------------------------------------------------------------------
\* _sync_to_finance: Finance takes the entry and answers with its reference ...
PostEntry(j) ==
  /\ job[j].step = "post"
  /\ Post(j)
  /\ Goto(j, "mark")
  /\ UNCHANGED <<is_deleted, entry, retry, begun, faults, interleaved>>

\* ... which is committed with the flag.
MarkSynced(j) ==
  /\ job[j].step = "mark"
  /\ entry' = [entry EXCEPT ![j].synced = TRUE]
  /\ Goto(j, "schedule")
  /\ UNCHANGED <<is_deleted, journal, retry, begun, faults, interleaved>>

\* FinanceServiceError: the entry stays unsynced and the request goes on.
FinanceDown(j) ==
  /\ job[j].step = "post"
  /\ Goto(j, "schedule")
  /\ UNCHANGED <<is_deleted, entry, journal, retry, begun, faults, interleaved>>

\* Finance took the entry and its answer came too late (timeout=10.0).
ReplyLost(j) ==
  /\ job[j].step = "post"
  /\ Fault
  /\ Post(j)
  /\ Goto(j, "schedule")
  /\ UNCHANGED <<is_deleted, entry, retry, begun, interleaved>>

\* The request ends between two of its commits: its process dies, the database
\* fails, Finance answers with something that is no journal entry.
FailJob(j) ==
  /\ job[j].step \notin {"new", "done"}
  /\ Fault
  /\ Goto(j, "done")
  /\ UNCHANGED <<is_deleted, entry, journal, retry, begun, interleaved>>

-----------------------------------------------------------------------------
\* Mutant: what Finance has already is not offered again.
RetryMissing(t) ==
  LET missing == {j \in Entries : ~entry[j].synced /\ journal[j] = 0}
  IN  /\ retry[t] = NoRetry
      /\ missing # {}
      /\ retry' = [retry EXCEPT ![t] = [step |-> "retry", todo |-> missing, marked |-> {}]]
      /\ UNCHANGED <<is_deleted, entry, journal, job, begun, faults, interleaved>>

\* retry_unsynced_ledger_entries reads the unsynced entries, also those whose
\* request is about to post them ...
BeginRetryTask(t) ==
  LET unsynced == {j \in Entries : ~entry[j].synced}
  IN  /\ retry[t] = NoRetry
      /\ unsynced # {}
      /\ retry' = [retry EXCEPT ![t] = [step |-> "retry", todo |-> unsynced, marked |-> {}]]
      /\ UNCHANGED <<is_deleted, entry, journal, job, begun, faults, interleaved>>

\* ... posts each ...
RetryPost(t, j) ==
  /\ j \in retry[t].todo
  /\ Post(j)
  /\ retry' = [retry EXCEPT ![t].todo = @ \ {j}, ![t].marked = @ \cup {j}]
  /\ UNCHANGED <<is_deleted, entry, job, begun, faults, interleaved>>

\* Mutant: a refused entry is marked with the others.
RefusedButMarked(t, j) ==
  /\ j \in retry[t].todo
  /\ retry' = [retry EXCEPT ![t].todo = @ \ {j}, ![t].marked = @ \cup {j}]
  /\ UNCHANGED <<is_deleted, entry, journal, job, begun, faults, interleaved>>

\* ... goes on to the next when Finance refuses ...
RetryRefused(t, j) ==
  /\ j \in retry[t].todo
  /\ retry' = [retry EXCEPT ![t].todo = @ \ {j}]
  /\ UNCHANGED <<is_deleted, entry, journal, job, begun, faults, interleaved>>

RetryReplyLost(t, j) ==
  /\ j \in retry[t].todo
  /\ Fault
  /\ Post(j)
  /\ retry' = [retry EXCEPT ![t].todo = @ \ {j}]
  /\ UNCHANGED <<is_deleted, entry, job, begun, interleaved>>

\* Mutant: the last mark alone is committed.
CommitOne(t) ==
  /\ retry[t].step = "retry" /\ retry[t].todo = {}
  /\ retry[t].marked # {}
  /\ \E j \in retry[t].marked : entry' = [entry EXCEPT ![j].synced = TRUE]
  /\ retry' = [retry EXCEPT ![t] = NoRetry]
  /\ UNCHANGED <<is_deleted, journal, job, begun, faults, interleaved>>

\* ... and commits all its marks at the end.
CommitRetry(t) ==
  /\ retry[t].step = "retry" /\ retry[t].todo = {}
  /\ entry' = [j \in Jobs |-> IF j \in retry[t].marked
                              THEN [entry[j] EXCEPT !.synced = TRUE] ELSE entry[j]]
  /\ retry' = [retry EXCEPT ![t] = NoRetry]
  /\ UNCHANGED <<is_deleted, journal, job, begun, faults, interleaved>>

\* The worker dies, or an answer without reference_id ends the task: the marks
\* of what it has posted are lost.  Beat and the broker start it again.
FailRetry(t) ==
  /\ retry[t].step = "retry"
  /\ Fault
  /\ retry' = [retry EXCEPT ![t] = NoRetry]
  /\ UNCHANGED <<is_deleted, entry, journal, job, begun, interleaved>>

RequestStep(j) ==
  \/ BeginEntry(j) \/ VendorNotFound(j) \/ get_current_balance(j) \/ add_ledger_entry(j)
  \/ PostEntry(j) \/ MarkSynced(j) \/ FinanceDown(j)

RetryStep(t) == CommitRetry(t) \/ \E j \in Jobs : RetryPost(t, j) \/ RetryRefused(t, j)

LedgerNext ==
  \/ delete_vendor
  \/ \E j \in Jobs : RequestStep(j) \/ ReplyLost(j) \/ FailJob(j)
  \/ \E t \in RetryTasks :
       \/ BeginRetryTask(t) \/ RetryStep(t) \/ FailRetry(t)
       \/ \E j \in Jobs : RetryReplyLost(t, j)

-----------------------------------------------------------------------------
JobSteps == {"new", "booked", "read_balance", "insert", "post", "mark", "schedule", "done"}

LedgerTypeOK ==
  /\ is_deleted \in BOOLEAN
  /\ entry \in [Jobs -> [created_at : Nat, balance_after : Int, synced : BOOLEAN]]
  /\ journal \in [Jobs -> Nat]
  /\ job \in [Jobs -> [step : JobSteps, created_at : Nat, balance : Int]]
  /\ retry \in [RetryTasks -> [step : {"idle", "retry"}, todo : SUBSET Jobs,
                               marked : SUBSET Jobs]]
  /\ begun \in Nat /\ faults \in 0..MaxFaults /\ interleaved \in BOOLEAN

\* What is marked as mirrored is in Finance's journal, however the request that
\* booked an entry, the retry tasks and their failures interleave.
SyncedIsPosted == \A j \in Jobs : entry[j].synced => journal[j] > 0

\* Finance has an entry more than once only by a failure, or by a retry task
\* that had read it as unsynced before it was marked.
DuplicatesBounded ==
  \A j \in Jobs : journal[j] <= 1 + Cardinality(RetryTasks) + faults

\* While requests add entries one after the other, each balance_after is the sum
\* of the entries up to it (docs/SCHEMA.md: "a running balance snapshot computed
\* at write time").
RunningBalance ==
  ~interleaved =>
    \A j \in Entries :
      entry[j].balance_after =
        SumOver(Amount, {k \in Entries : entry[k].created_at <= entry[j].created_at})

\* Every entry reaches Finance and is marked, manual ones and those whose
\* request failed or was refused included.
EntryIsMirrored == \A j \in Jobs : Exists(j) ~> entry[j].synced
=============================================================================
