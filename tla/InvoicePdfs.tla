----------------------------- MODULE InvoicePdfs -----------------------------
(***************************************************************************)
(* The invoices of the customer commerce service (endpoints/invoices.py,    *)
(* services/invoice_service.py, tasks/invoice_tasks.py).  A request inserts *)
(* an invoice and sends the task that makes its document before the insert  *)
(* is committed.  The task is acknowledged late and retried a few times.    *)
(***************************************************************************)
EXTENDS Integers, FiniteSets

CONSTANTS
  CustomerInvoices, \* requests for an invoice, and the rows they insert
  PdfWorkers,       \* Celery workers
  MaxPdfRetries,    \* max_retries of the task
  MaxPdfCopies      \* bound: copies of a task the broker tells apart

\* No invoice is the mark of a worker that has none.
ASSUME InvoicePdfsAssumption ==
  /\ MaxPdfRetries \in Nat /\ MaxPdfCopies \in Nat
  /\ IsFiniteSet(PdfWorkers)
  /\ "none" \notin CustomerInvoices

PdfAttempts == 0..MaxPdfRetries

VARIABLES
  invoice,  \* invoices.status; "inserted" until the commit, "undone" without it
  pdf_url,  \* invoices whose pdf_url is stored
  pdf_task, \* tasks at the broker, by the attempts they have behind them
  maker,    \* the task of a worker and the status that it has read
  forsaken, \* history: invoices with a task lost or out of attempts
  repeated  \* history: invoices whose task was delivered while under way

pdfVars == <<invoice, pdf_url, pdf_task, maker, forsaken, repeated>>

NoMaker == [on |-> "none"]

InvoicePdfsInit ==
  /\ invoice = [i \in CustomerInvoices |-> "absent"]
  /\ pdf_url = {}
  /\ pdf_task = [i \in CustomerInvoices |-> [k \in PdfAttempts |-> 0]]
  /\ maker = [w \in PdfWorkers |-> NoMaker]
  /\ forsaken = {} /\ repeated = {}

InvoiceStored(i) == invoice[i] \in {"pending", "generated", "failed"}

-----------------------------------------------------------------------------
(* The request.                                                            *)

\* The row is flushed and the task sent; if the broker refuses it, nothing is.
create_invoice(i) ==
  /\ invoice[i] = "absent"
  /\ invoice' = [invoice EXCEPT ![i] = "inserted"]
  /\ pdf_task' = [pdf_task EXCEPT ![i][0] = @ + 1]
  /\ UNCHANGED <<pdf_url, maker, forsaken, repeated>>

\* get_db commits after the handler, or rolls back.
EndRequest(i) ==
  /\ invoice[i] = "inserted"
  /\ \E status \in {"pending", "undone"} : invoice' = [invoice EXCEPT ![i] = status]
  /\ UNCHANGED <<pdf_url, pdf_task, maker, forsaken, repeated>>

-----------------------------------------------------------------------------
(* The task.                                                               *)

Taken(i, k, taken) == [pdf_task[i] EXCEPT ![k] = IF taken THEN @ - 1 ELSE @]

\* Mutant: a task that raised is not sent again.
NeverAgain(i, k, taken) ==
  /\ pdf_task' = [pdf_task EXCEPT ![i] = Taken(i, k, taken)]
  /\ forsaken' = IF k = MaxPdfRetries THEN forsaken \cup {i} ELSE forsaken

\* self.retry after an exception, which gives up after the last attempt.
Retry(i, k, taken) ==
  IF k = MaxPdfRetries
  THEN /\ pdf_task' = [pdf_task EXCEPT ![i] = Taken(i, k, taken)]
       /\ forsaken' = forsaken \cup {i}
  ELSE /\ pdf_task' = [pdf_task EXCEPT ![i] = [Taken(i, k, taken) EXCEPT ![k + 1] = @ + 1]]
       /\ UNCHANGED forsaken

\* The task runs before the commit, or after a rollback.
InvoiceNotFound(i, k) ==
  /\ pdf_task[i][k] > 0 /\ ~InvoiceStored(i)
  /\ Retry(i, k, TRUE)
  /\ UNCHANGED <<invoice, pdf_url, maker, repeated>>

BeginPdf(w, i, k) ==
  /\ maker[w] = NoMaker /\ pdf_task[i][k] > 0 /\ InvoiceStored(i)
  /\ pdf_task' = [pdf_task EXCEPT ![i][k] = @ - 1]
  /\ maker' = [maker EXCEPT ![w] = [on |-> i, attempt |-> k, read |-> invoice[i]]]
  /\ UNCHANGED <<invoice, pdf_url, forsaken, repeated>>

Done(w) == maker' = [maker EXCEPT ![w] = NoMaker]

\* The status is written where it differs from the one read.
WriteInvoiceStatus(w, status) ==
  invoice' = IF maker[w].read = status THEN invoice
             ELSE [invoice EXCEPT ![maker[w].on] = status]

_generate_and_store(w) ==
  /\ maker[w] # NoMaker
  /\ WriteInvoiceStatus(w, "generated")
  /\ pdf_url' = pdf_url \cup {maker[w].on}
  /\ Done(w)
  /\ UNCHANGED <<pdf_task, forsaken, repeated>>

\* The document or its upload fails; the status says so, if that commits.
PdfFails(w) ==
  /\ maker[w] # NoMaker
  /\ WriteInvoiceStatus(w, "failed") \/ UNCHANGED invoice
  /\ Retry(maker[w].on, maker[w].attempt, FALSE)
  /\ Done(w)
  /\ UNCHANGED <<pdf_url, repeated>>

\* A worker dies; its task comes again (acks_late), or its pool gives it up.
LoseMaker(w) ==
  /\ maker[w] # NoMaker
  /\ \/ /\ pdf_task' = [pdf_task EXCEPT ![maker[w].on][maker[w].attempt] = @ + 1]
        /\ UNCHANGED forsaken
     \/ forsaken' = forsaken \cup {maker[w].on} /\ UNCHANGED pdf_task
  /\ Done(w)
  /\ UNCHANGED <<invoice, pdf_url, repeated>>

\* The broker delivers a task again that is late to be acknowledged.
RedeliverPdf(w) ==
  /\ maker[w] # NoMaker
  /\ pdf_task[maker[w].on][maker[w].attempt] < MaxPdfCopies
  /\ maker[w].on \notin repeated
  /\ pdf_task' = [pdf_task EXCEPT ![maker[w].on][maker[w].attempt] = @ + 1]
  /\ repeated' = repeated \cup {maker[w].on}
  /\ UNCHANGED <<invoice, pdf_url, maker, forsaken>>

PdfRequest(i) ==
  \/ create_invoice(i) \/ EndRequest(i)
  \/ \E k \in PdfAttempts : InvoiceNotFound(i, k) \/ \E w \in PdfWorkers : BeginPdf(w, i, k)

MakerStep(w) ==
  _generate_and_store(w) \/ PdfFails(w) \/ LoseMaker(w) \/ RedeliverPdf(w)

InvoicePdfsNext ==
  \/ \E i \in CustomerInvoices : PdfRequest(i)
  \/ \E w \in PdfWorkers : MakerStep(w)

InvoicePdfsSpec == InvoicePdfsInit /\ [][InvoicePdfsNext]_pdfVars

-----------------------------------------------------------------------------
InvoicePdfsTypeOK ==
  /\ invoice \in [CustomerInvoices ->
       {"absent", "inserted", "undone", "pending", "generated", "failed"}]
  /\ pdf_url \subseteq CustomerInvoices
  /\ pdf_task \in [CustomerInvoices -> [PdfAttempts -> 0..(MaxPdfCopies + 1)]]
  /\ maker \in [PdfWorkers -> {NoMaker} \cup
       [on : CustomerInvoices, attempt : PdfAttempts, read : {"pending", "generated", "failed"}]]
  /\ forsaken \subseteq CustomerInvoices /\ repeated \subseteq CustomerInvoices

PdfAtRest(i) ==
  /\ \A k \in PdfAttempts : pdf_task[i][k] = 0
  /\ \A w \in PdfWorkers : maker[w].on # i

\* An invoice whose task ran before its commit, or failed, or came twice, still
\* gets its document: when no task of a stored invoice is left it is generated,
\* unless one was given up by its pool or used up its attempts.  An invoice
\* that has a document says FAILED only after its task was delivered twice.
PdfAccounted ==
  \A i \in CustomerInvoices :
    /\ PdfAtRest(i) /\ InvoiceStored(i) /\ i \notin forsaken =>
         invoice[i] = "generated" /\ i \in pdf_url
    /\ i \in pdf_url /\ invoice[i] = "failed" => i \in repeated
=============================================================================
