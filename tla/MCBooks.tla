-------------------------------- MODULE MCBooks --------------------------------
(* Instances for TLC of what is kept in books.                               *)
EXTENDS Books, TLC
CONSTANTS p1, i1, i2, u1, u2, v1, v2, a1, a2, e1

Lines == p1 :> (i1 :> 2 @@ i2 :> 1)
Amounts == [j \in Jobs |-> (v1 :> -4 @@ v2 :> -3 @@ a1 :> 2 @@ a2 :> 1)[j]]
Calls == {e1} \cup (Passes \X Settlements)

booksVars == <<receiptVars, allVars, financeVars>>

\* Receipts, invoices and journal share no row, so TLC looks at the behaviours
\* of each with the others at rest; the rest are their shuffles.
ReceiptsApart ==
  UNCHANGED <<allVars, financeVars>> /\ InvoicesInit /\ FinanceInit /\ ReceiptNext

InvoicesApart ==
  UNCHANGED <<receiptVars, financeVars>> /\ ReceiptInit /\ FinanceInit /\ InvoiceNext

\* Two passes meet each other, and one meets the reversals and late postings.
FinanceApart ==
  /\ UNCHANGED <<receiptVars, allVars>> /\ ReceiptInit /\ InvoicesInit /\ FinanceNext
  /\ \/ \A d \in Reversers \cup Posters : desk'[d] = AtDesk
     \/ \E p \in Passes : pass'[p] = NewPass

MCInit == ReceiptInit /\ InvoicesInit /\ FinanceInit
MCNext == ReceiptsApart \/ InvoicesApart \/ FinanceApart
MCSpec == MCInit /\ [][MCNext]_booksVars
=============================================================================
