-------------------------- MODULE PurchaseInvoices --------------------------
(***************************************************************************)
(* Purchase invoices (invoice_service.py): an invoice is committed, then    *)
(* booked on the vendor's ledger, then handed to the broker for the 3-way   *)
(* match.  The match runs in a task, in the periodic sweep or by request,   *)
(* and the status can be set by hand; each reads the invoice, and writes    *)
(* its status without looking at the one it has.                            *)
(***************************************************************************)
EXTENDS VendorLedger

CONSTANTS
  Sessions,    \* requests and tasks that work on an invoice's status
  Matching,    \* invoices with references whose quantities fit the receipt
  Referenced,  \* invoices with both a PO and a GRN
  ByHand,      \* statuses set with PATCH
  NoInvoice

InvoiceStatuses == {"absent", "received", "matched", "disputed",
                    "approved_for_payment", "paid", "cancelled"}

ASSUME InvoiceAssumption ==
  /\ ByHand \subseteq InvoiceStatuses \ {"absent"}
  /\ Matching \subseteq Referenced /\ Referenced \subseteq Invoices
  /\ NoInvoice \notin Invoices

VARIABLES
  inv_status,  \* committed status of each invoice
  reconcile,   \* invoices with a reconcile_invoice task on the broker
  session      \* the invoice a session works on, the status it read, its update

invoiceVars == <<inv_status, reconcile, session>>

NoSession == [work |-> "idle", invoice |-> NoInvoice,
              read |-> "absent", update |-> "absent"]

InvoiceInit ==
  /\ inv_status = [i \in Invoices |-> "absent"]
  /\ reconcile = {}
  /\ session = [s \in Sessions |-> NoSession]

\* Mutant: a mismatch is left for a later match.
VerdictLater(i) == IF i \in Matching THEN "matched" ELSE "received"

\* The 3-way match compares rows that nothing changes after their insert.
Verdict(i) == IF i \in Matching THEN "matched" ELSE "disputed"

-----------------------------------------------------------------------------
\* Mutant: the payable is not booked.
CreateUnbooked(i) ==
  /\ job[i].step = "new"
  /\ ~is_deleted
  /\ inv_status' = [inv_status EXCEPT ![i] = "received"]
  /\ Goto(i, "schedule")
  /\ UNCHANGED <<is_deleted, entry, journal, retry, begun, faults, interleaved>>
  /\ UNCHANGED <<reconcile, session>>

\* POST /invoices: get_vendor, and the invoice committed as RECEIVED.
create_invoice(i) ==
  /\ job[i].step = "new"
  /\ ~is_deleted
  /\ inv_status' = [inv_status EXCEPT ![i] = "received"]
  /\ Goto(i, "booked")
  /\ UNCHANGED <<is_deleted, entry, journal, retry, begun, faults, interleaved>>
  /\ UNCHANGED <<reconcile, session>>

\* reconcile_invoice.delay; without a broker the exception is passed over.
ScheduleMatch(i) ==
  /\ job[i].step = "schedule"
  /\ IF i \in Referenced
     THEN reconcile' \in {reconcile, reconcile \cup {i}}
     ELSE UNCHANGED reconcile
  /\ Goto(i, "done")
  /\ UNCHANGED <<is_deleted, entry, journal, retry, begun, faults, interleaved>>
  /\ UNCHANGED <<inv_status, session>>

Open(s, work, i, update) ==
  /\ session[s] = NoSession
  /\ inv_status[i] # "absent"
  /\ session' = [session EXCEPT ![s] =
       [work |-> work, invoice |-> i, read |-> inv_status[i], update |-> update]]

\* The task and POST /invoices/{id}/match read the invoice ...
BeginTask(s, i) ==
  /\ i \in reconcile
  /\ Open(s, "task", i, Verdict(i))
  /\ UNCHANGED <<inv_status, reconcile, ledgerVars>>

BeginMatch(s, i) ==
  /\ Open(s, "request", i, Verdict(i))
  /\ UNCHANGED <<inv_status, reconcile, ledgerVars>>

\* Mutant: the sweep lists every invoice that is stored.
SweepStored(s, i) ==
  /\ session[s] = NoSession
  /\ inv_status[i] # "absent"
  /\ session' = [session EXCEPT ![s].work = "listed", ![s].invoice = i]
  /\ UNCHANGED <<inv_status, reconcile, ledgerVars>>

\* The sweep lists the RECEIVED invoices, with or without references ...
BeginSweep(s, i) ==
  /\ session[s] = NoSession
  /\ inv_status[i] = "received"
  /\ session' = [session EXCEPT ![s].work = "listed", ![s].invoice = i]
  /\ UNCHANGED <<inv_status, reconcile, ledgerVars>>

\* ... and reads one when its turn comes, whatever its status is by then.
ReadListed(s, i) ==
  /\ session[s].work = "listed" /\ session[s].invoice = i
  /\ session' = [session EXCEPT ![s] =
       [work |-> "sweep", invoice |-> i, read |-> inv_status[i], update |-> Verdict(i)]]
  /\ UNCHANGED <<inv_status, reconcile, ledgerVars>>

\* PATCH /invoices/{id}/status
BeginUpdate(s, i, status) ==
  /\ Open(s, "request", i, status)
  /\ UNCHANGED <<inv_status, reconcile, ledgerVars>>

\* ... and commit the status if it differs from what they read; the broker
\* drops the task when it has ended.
WriteInvoice(s, i) ==
  /\ session[s].invoice = i /\ session[s].work # "listed"
  /\ inv_status' = IF session[s].update = session[s].read
                   THEN inv_status
                   ELSE [inv_status EXCEPT ![i] = session[s].update]
  /\ reconcile' = IF session[s].work = "task" THEN reconcile \ {i} ELSE reconcile
  /\ session' = [session EXCEPT ![s] = NoSession]
  /\ UNCHANGED ledgerVars

\* A session fails before its commit.  A task whose worker died, or that has
\* retries left, comes back; after the last retry it does not.
FailSession(s) ==
  /\ session[s] # NoSession
  /\ Fault
  /\ IF session[s].work = "task"
     THEN reconcile' \in {reconcile, reconcile \ {session[s].invoice}}
     ELSE UNCHANGED reconcile
  /\ session' = [session EXCEPT ![s] = NoSession]
  /\ UNCHANGED inv_status
  /\ UNCHANGED <<is_deleted, entry, journal, job, retry, begun, interleaved>>

Work(s, i) ==
  \/ BeginTask(s, i) \/ BeginMatch(s, i) \/ BeginSweep(s, i) \/ ReadListed(s, i)
  \/ \E status \in ByHand : BeginUpdate(s, i, status)
  \/ WriteInvoice(s, i)

InvoiceNext ==
  \/ \E i \in Invoices : create_invoice(i) \/ ScheduleMatch(i)
  \/ \E s \in Sessions : FailSession(s) \/ \E i \in Invoices : Work(s, i)
  \/ LedgerNext /\ UNCHANGED invoiceVars

allVars == <<ledgerVars, invoiceVars>>

InvoicesInit == LedgerInit /\ InvoiceInit

\* Requests go on until they end, beat keeps starting the sweep and the retry
\* task, and Finance takes an entry that is offered again and again.
MatchFairness ==
  /\ \A s \in Sessions : WF_allVars(\E i \in Invoices : ReadListed(s, i) \/ WriteInvoice(s, i))
  /\ \A i \in Invoices : SF_allVars(\E s \in Sessions : BeginSweep(s, i))

RetryFairness ==
  \A t \in RetryTasks :
    /\ SF_allVars(BeginRetryTask(t) /\ UNCHANGED invoiceVars)
    /\ WF_allVars(RetryStep(t) /\ UNCHANGED invoiceVars)
    /\ \A j \in Jobs : SF_allVars(RetryPost(t, j) /\ UNCHANGED invoiceVars)

InvoiceFairness == MatchFairness /\ RetryFairness

InvoiceSafety == InvoicesInit /\ [][InvoiceNext]_allVars

InvoiceSpec == InvoiceSafety /\ InvoiceFairness

-----------------------------------------------------------------------------
InvoiceTypeOK ==
  /\ LedgerTypeOK
  /\ inv_status \in [Invoices -> InvoiceStatuses]
  /\ reconcile \subseteq Invoices
  /\ session \in [Sessions -> [work : {"idle", "task", "request", "listed", "sweep"},
                               invoice : Invoices \cup {NoInvoice},
                               read : InvoiceStatuses, update : InvoiceStatuses]]

\* Invoices that are stored and that no entry books, their requests being over.
Unbooked == {i \in Invoices : inv_status[i] # "absent" /\ job[i].step = "done" /\ ~Exists(i)}

\* An invoice is on its vendor's ledger when its request is over ("Book an
\* invoice; posts a ledger credit"), unless a request failed, one invoice for
\* each failure at most, or the vendor was deleted between the two commits.
UnbookedExplained == is_deleted \/ Cardinality(Unbooked) <= faults

\* A match of the invoice that nobody asks for is still to come: its request
\* has not ended, or a task waits at the broker, or a task or the sweep has it.
MatchComing(i) ==
  \/ job[i].step # "done" \/ i \in reconcile
  \/ \E s \in Sessions : session[s].invoice = i /\ session[s].work # "request"

Concluded(i) == inv_status[i] \notin {"absent", "received"} /\ ~MatchComing(i)

\* A request writes the status it was sent with, or that of the match it asked for.
SetByRequest(i) ==
  \E s \in Sessions : /\ session[s].work = "request" /\ session[s].invoice = i
                     /\ session'[s] = NoSession

\* Though a match writes over any status, one that was paid too: an invoice that
\* has left RECEIVED keeps its status, unless a request changes it or a task or a
\* sweep that was already on its way to the invoice comes late.
KeptUnlessAsked ==
  [][\A i \in Invoices : Concluded(i) =>
       \/ inv_status'[i] = inv_status[i] /\ Concluded(i)'
       \/ SetByRequest(i)]_allVars

\* No invoice waits for its match for ever, though the request that booked it
\* failed half way or the broker lost its task: the sweep finds it.
InvoiceIsMatched ==
  \A i \in Invoices : (inv_status[i] = "received") ~> (inv_status[i] # "received")
=============================================================================
