---------------------------- MODULE Reconciliation ----------------------------
(***************************************************************************)
(* The matching of one settlement run of the Finance service                *)
(* (reconciliation_service.py) by a Celery task and its retries, or by hand *)
(* a second time.  A pass reads the IMPORTED settlements, asks the Orders   *)
(* service about each, and posts a journal entry for each that fits; the    *)
(* commit of that entry also commits what the pass has written so far.      *)
(***************************************************************************)
EXTENDS Journal

CONSTANTS
  Settlements,  \* rows of gateway_settlements of the run
  Passes,       \* executions of run_matching, retries included
  Fits,         \* settlements whose amount is what the Orders service expects
  Differs,      \* settlements whose amount is not
  Unpostable    \* those of which one line of the entry is zero (JournalLineIn)

\* The row and the request of the entry that a pass posts for a settlement.
Entry(p, s) == <<p, s>>

ASSUME ReconciliationAssumption ==
  /\ IsFiniteSet(Settlements) /\ IsFiniteSet(Passes)
  /\ Passes \X Settlements \subseteq Postings \ Drafts
  /\ Fits \cap Differs = {} /\ Fits \cup Differs \subseteq Settlements
  /\ Unpostable \subseteq Settlements

VARIABLES
  settlement,  \* committed status of each settlement
  exception,   \* settlements with a row in reconciliation_exceptions
  run_status,  \* committed status of the run
  pass,        \* what a pass has read, and has written but not committed
  passes_met     \* history: two passes ran at one time

reconVars == <<settlement, exception, run_status, pass, passes_met>>

NewPass == [step |-> "new", todo |-> {}, at |-> {}, holds_run |-> FALSE,
            dirty |-> [s \in Settlements |-> "clean"]]

ReconInit ==
  /\ settlement = [s \in Settlements |-> "imported"]
  /\ exception = {}
  /\ run_status = "pending"
  /\ pass = [p \in Passes |-> NewPass]
  /\ passes_met = FALSE

Running(p) == pass[p].step = "running"

\* Settlements whose exception row a pass has inserted but not committed; it
\* holds the lock of the settlement's row with it.
Raised(p) == {s \in Settlements : pass[p].dirty[s] \in {"unmatched", "mismatched"}}

LockedFor(p, s) == \E q \in Passes \ {p} : s \in Raised(q)

\* What the session has flushed becomes permanent.
Commit(p) ==
  /\ settlement' = [s \in Settlements |-> IF pass[p].dirty[s] = "clean"
                                          THEN settlement[s] ELSE pass[p].dirty[s]]
  /\ exception' = exception \cup Raised(p)

Written(p) == [pass[p] EXCEPT !.dirty = NewPass.dirty, !.holds_run = FALSE]

EndPass(p) == pass' = [pass EXCEPT ![p] = [NewPass EXCEPT !.step = "ended"]]

-----------------------------------------------------------------------------
\* run_matching: the run becomes RUNNING, which locks its row unless it is
\* RUNNING already, and the IMPORTED settlements are read.
BeginPass(p) ==
  /\ pass[p].step = "new"
  /\ run_status # "running" => \A q \in Passes : ~pass[q].holds_run
  /\ pass' = [pass EXCEPT ![p].step = "running",
                          ![p].todo = {s \in Settlements : settlement[s] = "imported"},
                          ![p].holds_run = (run_status # "running")]
  /\ passes_met' = (passes_met \/ \E q \in Passes : Running(q))
  /\ UNCHANGED <<settlement, exception, run_status, journalVars>>

Idle(p) == Running(p) /\ pass[p].at = {}

\* _raise_exception: the status and the exception row are flushed.
RaiseException(p, s, status) ==
  /\ Idle(p) /\ s \in pass[p].todo
  /\ s \notin exception /\ ~LockedFor(p, s)
  /\ pass' = [pass EXCEPT ![p].todo = @ \ {s}, ![p].dirty[s] = status]
  /\ UNCHANGED <<settlement, exception, run_status, passes_met, journalVars>>

\* No order reference, no such order, or no answer from the Orders service.
Unmatch(p, s) == RaiseException(p, s, "unmatched")

Mismatch(p, s) == s \in Differs /\ RaiseException(p, s, "mismatched")

\* Mutant: the status is flushed after the commit of the entry.
MatchAfter(p, s) ==
  /\ s \in Fits \ Unpostable
  /\ Idle(p) /\ s \in pass[p].todo
  /\ ~LockedFor(p, s)
  /\ pass' = [pass EXCEPT ![p].todo = @ \ {s}, ![p].at = {s}]
  /\ UNCHANGED <<settlement, exception, run_status, passes_met, journalVars>>

\* The amount fits: MATCHED, and on to the journal.
Match(p, s) ==
  /\ s \in Fits \ Unpostable
  /\ Idle(p) /\ s \in pass[p].todo
  /\ ~LockedFor(p, s)
  /\ pass' = [pass EXCEPT ![p].todo = @ \ {s}, ![p].at = {s}, ![p].dirty[s] = "matched"]
  /\ UNCHANGED <<settlement, exception, run_status, passes_met, journalVars>>

NumberEntry(p, s) ==
  /\ pass[p].at = {s}
  /\ _next_entry_number(Entry(p, s))
  /\ UNCHANGED reconVars

\* _post_settlement_journal_entry: the commit of create_and_post_entry.
PostSettlement(p, s) ==
  /\ pass[p].at = {s}
  /\ CommitEntry(Entry(p, s))
  /\ Commit(p)
  /\ run_status' = IF pass[p].holds_run THEN "running" ELSE run_status
  /\ pass' = [pass EXCEPT ![p] = [Written(p) EXCEPT !.at = {}]]
  /\ UNCHANGED passes_met

\* The flush fails on a unique index, of the entry's number or of an exception
\* that an earlier pass has raised, or the database ends a deadlock of two
\* passes.  The commit of the FAILED status then fails too, as the session has
\* been rolled back: PendingRollbackError, and the task is retried.
FlushFails(p, s) ==
  /\ Running(p)
  /\ \/ pass[p].at = {s} /\ NumberTaken(Entry(p, s))
     \/ /\ Idle(p) /\ s \in pass[p].todo
        /\ s \in exception \/ LockedFor(p, s)
        /\ UNCHANGED journalVars
  /\ EndPass(p)
  /\ UNCHANGED <<settlement, exception, run_status, passes_met>>

\* The journal refuses the lines: the exception is caught, and what the session
\* holds is committed with the status FAILED, MATCHED of this one included.
PostingRefused(p, s) ==
  /\ s \in Fits \cap Unpostable
  /\ Idle(p) /\ s \in pass[p].todo
  /\ ~LockedFor(p, s)
  /\ settlement' = [t \in Settlements |->
       IF t = s THEN "matched"
       ELSE IF pass[p].dirty[t] = "clean" THEN settlement[t] ELSE pass[p].dirty[t]]
  /\ exception' = exception \cup Raised(p)
  /\ run_status' = "failed"
  /\ EndPass(p)
  /\ UNCHANGED <<passes_met, journalVars>>

\* The Orders service answers with something that is no expectation: FAILED is
\* committed with what the session holds.
FailPass(p) ==
  /\ Idle(p) /\ pass[p].todo # {}
  /\ Commit(p)
  /\ run_status' = "failed"
  /\ EndPass(p)
  /\ UNCHANGED <<passes_met, journalVars>>

CompletePass(p) ==
  /\ Idle(p) /\ pass[p].todo = {}
  /\ Commit(p)
  /\ run_status' = "completed"
  /\ EndPass(p)
  /\ UNCHANGED <<passes_met, journalVars>>

\* The worker dies, or its database: the task is delivered or retried again.
LosePass(p) ==
  /\ Running(p)
  /\ EndPass(p)
  /\ UNCHANGED <<settlement, exception, run_status, passes_met, journalVars>>

PassStep(p) ==
  \/ BeginPass(p) \/ CompletePass(p) \/ FailPass(p) \/ LosePass(p)
  \/ \E s \in Settlements :
       \/ Unmatch(p, s) \/ Mismatch(p, s) \/ Match(p, s) \/ NumberEntry(p, s)
       \/ PostSettlement(p, s) \/ FlushFails(p, s) \/ PostingRefused(p, s)

\* The entries of the passes are theirs alone; the others come from requests.
OtherEntries ==
  \/ \E e \in Postings \ (Passes \X Settlements) : Create(e)
  \/ \E d \in Reversers : Reverse(d)
  \/ \E d \in Posters : PostDraft(d)

FinanceInit == JournalInit /\ ReconInit

FinanceNext ==
  \/ \E p \in Passes : PassStep(p)
  \/ OtherEntries /\ UNCHANGED reconVars

financeVars == <<journalVars, reconVars>>

FinanceSpec == FinanceInit /\ [][FinanceNext]_financeVars

-----------------------------------------------------------------------------
SettlementStatuses == {"imported", "matched", "mismatched", "unmatched"}

ReconTypeOK ==
  /\ settlement \in [Settlements -> SettlementStatuses]
  /\ exception \subseteq Settlements
  /\ run_status \in {"pending", "running", "completed", "failed"}
  /\ pass \in [Passes -> [step : {"new", "running", "ended"}, todo : SUBSET Settlements,
                          at : SUBSET Settlements, holds_run : BOOLEAN,
                          dirty : [Settlements -> SettlementStatuses \cup {"clean"}]]]
  /\ passes_met \in BOOLEAN

EntriesOf(s) == {p \in Passes : Entry(p, s) \in Recorded}

\* While passes follow one another, whatever becomes of each, the journal has
\* one entry at most for a settlement and none for one that is not MATCHED, and
\* those put aside, and no others, are before the staff as exceptions.
SettledOnce ==
  ~passes_met =>
    \A s \in Settlements :
      /\ Cardinality(EntriesOf(s)) <= 1
      /\ EntriesOf(s) # {} => settlement[s] = "matched"
      /\ s \in exception <=> settlement[s] \in {"mismatched", "unmatched"}

\* "exact match within tolerance -> MATCHED, ledger entry posted"
MatchedIsPosted ==
  \A s \in Settlements : settlement[s] = "matched" => EntriesOf(s) # {}
=============================================================================
