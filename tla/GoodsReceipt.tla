---------------------------- MODULE GoodsReceipt ----------------------------
(***************************************************************************)
(* Purchase orders and goods receipt notes of the procurement service       *)
(* (po_service.py, grn_service.py).  A request reads the order and its      *)
(* items with plain SELECTs, decides, and writes back absolute values; a    *)
(* goods receipt commits twice, the note with the items' new counters first *)
(* and the order's new status second, from the objects it read at the       *)
(* beginning (expire_on_commit=False).                                      *)
(***************************************************************************)
EXTENDS Integers, FiniteSets

CONSTANTS
  Orders,    \* ids of purchase_orders
  Items,     \* lines of an order
  Ordered,   \* quantity_ordered of each line of each order
  Users,     \* API requests under way, at most one a user
  MaxNoted,  \* bound: notes stop when a line has this many units on them
  NoOrder

ASSUME GoodsReceiptAssumption ==
  /\ IsFiniteSet(Items)
  /\ Ordered \in [Orders -> [Items -> Nat \ {0}]]
  /\ MaxNoted \in Nat
  /\ NoOrder \notin Orders

VARIABLES
  po_status,          \* committed status of each order
  quantity_received,  \* committed counter of each purchase_order_item
  noted,              \* what the order's goods receipt notes add up to, by item
  request,            \* each user's request and the objects of its session
  overlapped          \* history: orders two requests worked on at one time

receiptVars == <<po_status, quantity_received, noted, request, overlapped>>

Statuses == {"absent", "pending_approval", "approved", "rejected",
             "partially_received", "received", "cancelled"}

None == [i \in Items |-> 0]

\* order and received are what the session has in memory of its order; update
\* is the status a request is about to write.
NoRequest == [step |-> "idle", order |-> NoOrder, status |-> "absent",
              received |-> None, update |-> "absent"]

ReceiptInit ==
  /\ po_status = [p \in Orders |-> "absent"]
  /\ quantity_received = [p \in Orders |-> None]
  /\ noted = [p \in Orders |-> None]
  /\ request = [u \in Users |-> NoRequest]
  /\ overlapped = {}

Proceed(u, r) == request' = [request EXCEPT ![u] = r]

End(u) == Proceed(u, NoRequest)

\* get_po: the order's row is read, and stays in the session as it was read.
get_po(u, p, step, update) ==
  /\ request[u] = NoRequest
  /\ po_status[p] # "absent"
  /\ Proceed(u, [NoRequest EXCEPT !.step = step, !.order = p,
                                  !.status = po_status[p], !.update = update])
  /\ overlapped' = IF \E v \in Users : request[v].order = p
                   THEN overlapped \cup {p} ELSE overlapped

\* What a quantity for each line comes to, counted unit by unit.
Units(q) == UNION {{i} \X (1..q[i]) : i \in Items}

Total(q) == Cardinality(Units(q))

-----------------------------------------------------------------------------
\* POST /purchase-orders
create_po(p) ==
  /\ po_status[p] = "absent"
  /\ po_status' = [po_status EXCEPT ![p] = "pending_approval"]
  /\ UNCHANGED <<quantity_received, noted, request, overlapped>>

\* POST /purchase-orders/{id}/approval
BeginApproval(u, p) ==
  /\ po_status[p] = "pending_approval"
  /\ \E update \in {"approved", "rejected"} : get_po(u, p, "write_status", update)
  /\ UNCHANGED <<po_status, quantity_received, noted>>

\* Mutant: the status is not looked at.
CancelAnyway(u, p) ==
  /\ get_po(u, p, "write_status", "cancelled")
  /\ UNCHANGED <<po_status, quantity_received, noted>>

\* POST /purchase-orders/{id}/cancel
BeginCancel(u, p) ==
  /\ po_status[p] # "received"
  /\ get_po(u, p, "write_status", "cancelled")
  /\ UNCHANGED <<po_status, quantity_received, noted>>

\* The commit writes the column if it differs from what was read.
WriteStatus(u, p) ==
  /\ request[u].step = "write_status" /\ request[u].order = p
  /\ po_status' = IF request[u].update = request[u].status
                  THEN po_status
                  ELSE [po_status EXCEPT ![p] = request[u].update]
  /\ End(u)
  /\ UNCHANGED <<quantity_received, noted, overlapped>>

-----------------------------------------------------------------------------
Receivable == {"approved", "partially_received"}

\* POST /grn: create_grn reads the order ...
BeginReceipt(u, p) ==
  /\ po_status[p] \in Receivable
  /\ get_po(u, p, "read_items", "absent")
  /\ UNCHANGED <<po_status, quantity_received, noted>>

\* ... and, in a second SELECT (selectinload), its items.
ReadItems(u, p) ==
  /\ request[u].step = "read_items" /\ request[u].order = p
  /\ Proceed(u, [request[u] EXCEPT !.step = "receive", !.received = quantity_received[p]])
  /\ UNCHANGED <<po_status, quantity_received, noted, overlapped>>

\* Mutant: each line is compared with the order, not with what remains of it.
FitsOrder(u, p, q) == \A i \in Items : q[i] <= Ordered[p][i]

FitsRemaining(u, p, q) ==
  \A i \in Items : q[i] <= Ordered[p][i] - request[u].received[i]

Deliveries == [Items -> 0..MaxNoted]

\* The lines are checked and added up in memory; the commit inserts the note
\* and writes the counters that changed, as absolute values.
CommitNote(u, p, q) ==
  /\ request[u].step = "receive" /\ request[u].order = p
  /\ FitsRemaining(u, p, q)
  /\ \A i \in Items : noted[p][i] + q[i] <= MaxNoted
  /\ LET sum == [i \in Items |-> request[u].received[i] + q[i]]
     IN  /\ quantity_received' = [quantity_received EXCEPT ![p] =
              [i \in Items |-> IF q[i] = 0 THEN @[i] ELSE sum[i]]]
         /\ Proceed(u, [request[u] EXCEPT !.step = "recompute", !.received = sum])
  /\ noted' = [noted EXCEPT ![p] = [i \in Items |-> @[i] + q[i]]]
  /\ UNCHANGED <<po_status, overlapped>>

\* A line beyond the remaining quantity: 400, and nothing was written.
RejectReceipt(u, p, q) ==
  /\ request[u].step = "receive" /\ request[u].order = p
  /\ ~FitsRemaining(u, p, q)
  /\ End(u)
  /\ UNCHANGED <<po_status, quantity_received, noted, overlapped>>

\* Mutant: the first complete line completes the order.
RolledByLine(status, received, p) ==
  IF Total(received) <= 0 THEN status
  ELSE IF \A i \in Items : received[i] < Ordered[p][i] THEN "partially_received"
  ELSE "received"

RolledForward(status, received, p) ==
  IF Total(received) <= 0 THEN status
  ELSE IF Total(received) < Total(Ordered[p]) THEN "partially_received"
  ELSE "received"

\* recompute_receipt_status, in a transaction of its own.  Its get_po finds the
\* order and the items in the session as create_grn left them.
recompute_receipt_status(u, p) ==
  LET new_status == RolledForward(request[u].status, request[u].received, p)
  IN  /\ request[u].step = "recompute" /\ request[u].order = p
      /\ po_status' = IF new_status = request[u].status
                      THEN po_status
                      ELSE [po_status EXCEPT ![p] = new_status]
      /\ End(u)
      /\ UNCHANGED <<quantity_received, noted, overlapped>>

-----------------------------------------------------------------------------
\* The process stops, or the database refuses: what was not committed is gone.
Fail(u) ==
  /\ request[u] # NoRequest
  /\ End(u)
  /\ UNCHANGED <<po_status, quantity_received, noted, overlapped>>

Handle(u, p) ==
  \/ BeginApproval(u, p) \/ BeginCancel(u, p) \/ WriteStatus(u, p)
  \/ BeginReceipt(u, p) \/ ReadItems(u, p)
  \/ \E q \in Deliveries : CommitNote(u, p, q) \/ RejectReceipt(u, p, q)
  \/ recompute_receipt_status(u, p)

ReceiptNext ==
  \/ \E p \in Orders : create_po(p)
  \/ \E u \in Users, p \in Orders : Handle(u, p)
  \/ \E u \in Users : Fail(u)

ReceiptSpec == ReceiptInit /\ [][ReceiptNext]_receiptVars

-----------------------------------------------------------------------------
Request == [step : {"idle", "write_status", "read_items", "receive", "recompute"},
            order : Orders \cup {NoOrder}, status : Statuses,
            received : [Items -> Nat], update : Statuses]

ReceiptTypeOK ==
  /\ po_status \in [Orders -> Statuses]
  /\ quantity_received \in [Orders -> [Items -> Nat]]
  /\ noted \in [Orders -> [Items -> Nat]]
  /\ request \in [Users -> Request]
  /\ overlapped \subseteq Orders

\* Lost updates never let a counter claim goods that no note records, nor more
\* than was ordered: whatever the interleaving of receipts, cancellations and
\* approvals, and whichever of them fail half way.
CountersCovered ==
  \A p \in Orders, i \in Items :
    quantity_received[p][i] <= noted[p][i] /\ quantity_received[p][i] <= Ordered[p][i]

\* An order whose requests never overlapped has exactly the goods of its notes
\* on its lines (docs/SCHEMA.md: "recording a GRN atomically increments").
CountersMatchNotes ==
  \A p \in Orders \ overlapped : quantity_received[p] = noted[p]

\* ... and is RECEIVED only when every line is.
ReceivedIsComplete ==
  \A p \in Orders \ overlapped :
    po_status[p] = "received" => quantity_received[p] = Ordered[p]

\* ... and once it is rejected, cancelled or received it takes no more goods,
\* and a received or cancelled one stays so.
ClosedForGood ==
  [][\A p \in Orders \ overlapped' :
       /\ po_status[p] \in {"rejected", "cancelled", "received"} => noted'[p] = noted[p]
       /\ po_status[p] \in {"cancelled", "received"} => po_status'[p] = po_status[p]]_receiptVars
=============================================================================
