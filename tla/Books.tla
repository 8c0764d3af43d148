-------------------------------- MODULE Books --------------------------------
(***************************************************************************)
(* What is kept in books: goods receipts, purchase invoices on a vendor's   *)
(* ledger (procurement service), the journal and the settlements (finance   *)
(* service).  They run side by side and share no row.                      *)
(***************************************************************************)
EXTENDS GoodsReceipt, PurchaseInvoices, Reconciliation

BooksSpec == ReceiptSpec /\ InvoiceSafety /\ FinanceSpec

\* Rows, and what requests, tasks and passes hold of them, keep their types.
BooksTypeOK == ReceiptTypeOK /\ InvoiceTypeOK /\ JournalTypeOK /\ ReconTypeOK
=============================================================================
