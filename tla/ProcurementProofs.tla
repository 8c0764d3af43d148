------------------------- MODULE ProcurementProofs --------------------------
(***************************************************************************)
(* Proofs about procurement, for any orders, lines, quantities and users,  *)
(* and any invoices, adjustments, retry tasks and faults.                  *)
(*                                                                         *)
(* Goods receipts: the counters of an order's lines never exceed its notes *)
(* nor what was ordered, whatever overlaps or fails; and an order whose    *)
(* requests never overlapped has exactly its notes on its lines, is        *)
(* RECEIVED only when complete, and takes nothing once it is closed.       *)
(*                                                                         *)
(* A vendor's ledger and its mirror in Finance, with purchase invoices on  *)
(* top: what is marked was posted, how often an entry may be posted, and   *)
(* that the balances of entries made one after the other are running sums. *)
(***************************************************************************)
EXTENDS GoodsReceipt, PurchaseInvoices, SumTheorems, FiniteSetTheorems, TLAPS

-----------------------------------------------------------------------------
(* Goods receipts.                                                         *)

\* Every request knows the order it works on.
RequestsHaveOrders ==
  \A u \in Users : request[u].step # "idle" => request[u].order \in Orders

Counted(u) == request[u].step \in {"receive", "recompute"}

\* What a receipt has counted in memory is covered as the counters are.
CountsCovered ==
  \A u \in Users, i \in Items : Counted(u) =>
    /\ request[u].received[i] <= noted[request[u].order][i]
    /\ request[u].received[i] <= Ordered[request[u].order][i]

\* The guards that the handlers checked against the status they read.
StatusRead ==
  \A u \in Users :
    /\ request[u].step # "idle" => request[u].status # "absent"
    /\ request[u].step \in {"read_items", "receive", "recompute"} =>
         request[u].status \in Receivable
    /\ request[u].step = "write_status" =>
         \/ request[u].update \in {"approved", "rejected"}
            /\ request[u].status = "pending_approval"
         \/ request[u].update = "cancelled" /\ request[u].status # "received"

\* An order that is not overlapped has one request at most, and that request
\* has read what the tables still say.
Alone ==
  \A u, v \in Users : u # v /\ request[u].step # "idle"
                        /\ request[u].order \notin overlapped =>
                          request[v].order # request[u].order

ReadsHold ==
  \A u \in Users : request[u].step # "idle" /\ request[u].order \notin overlapped =>
    /\ request[u].status = po_status[request[u].order]
    /\ Counted(u) => request[u].received = quantity_received[request[u].order]

ReceiptInv ==
  /\ ReceiptTypeOK /\ RequestsHaveOrders /\ CountersCovered /\ CountsCovered
  /\ StatusRead /\ Alone /\ ReadsHold /\ CountersMatchNotes /\ ReceivedIsComplete

USE GoodsReceiptAssumption

-----------------------------------------------------------------------------
(* Totals.                                                                   *)

LEMMA UnitsFinite ==
  ASSUME NEW q \in [Items -> Nat]
  PROVE  IsFiniteSet(Units(q)) /\ Total(q) \in Nat
<1>. DEFINE Lines == {{i} \X (1..q[i]) : i \in Items}
            line == [i \in Items |-> {i} \X (1..q[i])]
<1>1. ASSUME NEW i \in Items
      PROVE  IsFiniteSet({i} \X (1..q[i]))
  <2>1. IsFiniteSet({i})
    BY FS_Singleton
  <2>2. IsFiniteSet(1..q[i])
    BY FS_Interval
  <2>. QED  BY <2>1, <2>2, FS_Product
<1>2. IsFiniteSet(Lines)
  <2>1. line \in Surjection(Items, Lines)
    BY DEF Surjection
  <2>2. IsFiniteSet(Items)
    BY GoodsReceiptAssumption
  <2>. HIDE DEF Lines, line
  <2>. QED  BY <2>1, <2>2, FS_Surjection
<1>3. \A X \in Lines : IsFiniteSet(X)
  BY <1>1
<1>4. IsFiniteSet(Units(q))
  BY <1>2, <1>3, FS_UNION DEF Units
<1>. QED  BY <1>4, FS_CardinalityType DEF Total

\* A delivery within the order that reaches its total is the whole order.
LEMMA FullTotal ==
  ASSUME NEW q \in [Items -> Nat], NEW o \in [Items -> Nat],
         \A i \in Items : q[i] <= o[i], ~(Total(q) < Total(o))
  PROVE  q = o
<1>1. Units(q) \subseteq Units(o)
  BY DEF Units
<1>2. IsFiniteSet(Units(o)) /\ Total(o) \in Nat /\ Total(q) \in Nat
  BY UnitsFinite
<1>3. Units(q) = Units(o)
  <2>1. Units(q) \in SUBSET Units(o)
    BY <1>1
  <2>. QED  BY <1>2, <2>1, FS_Subset DEF Total
<1>4. ASSUME NEW i \in Items, q[i] # o[i]
      PROVE  FALSE
  <2>1. q[i] < o[i] /\ q[i] \in Nat /\ o[i] \in Nat
    BY <1>4
  <2>2. <<i, o[i]>> \in {i} \X (1..o[i])
    BY <2>1
  <2>3. <<i, o[i]>> \in Units(o)
    BY <2>2 DEF Units
  <2>4. \A j \in Items : <<i, o[i]>> \notin {j} \X (1..q[j])
    BY <2>1
  <2>5. <<i, o[i]>> \notin Units(q)
    BY <2>4 DEF Units
  <2>. QED  BY <1>3, <2>3, <2>5
<1>. QED  BY <1>4


-----------------------------------------------------------------------------
(* Each handler keeps the invariant.                                         *)

LEMMA ReadOrderTyped ==
  ASSUME ReceiptTypeOK, NEW u \in Users, NEW p \in Orders,
         NEW step \in {"write_status", "read_items"}, NEW update \in Statuses,
         get_po(u, p, step, update)
  PROVE  request' \in [Users -> Request]
<1>1. NoRequest \in Request
  BY DEF NoRequest, Request, Statuses, None
<1>2. \A r \in Request, st \in Statuses :
        [r EXCEPT !.step = step, !.order = p, !.status = st, !.update = update] \in Request
  BY DEF Request
<1>3. po_status[p] \in Statuses
  BY DEF ReceiptTypeOK
<1>. HIDE DEF NoRequest
<1>4. request' = [request EXCEPT ![u] = [NoRequest EXCEPT !.step = step, !.order = p,
                                         !.status = po_status[p], !.update = update]]
  BY DEF get_po, Proceed
<1>5. [NoRequest EXCEPT !.step = step, !.order = p, !.status = po_status[p],
                        !.update = update] \in Request
  BY <1>1, <1>2, <1>3
<1>. QED  BY <1>4, <1>5 DEF ReceiptTypeOK

LEMMA create_poKept ==
  ASSUME ReceiptInv, NEW p \in Orders, create_po(p)
  PROVE  ReceiptInv'
<1>. USE DEF ReceiptInv, ReceiptTypeOK, Request, Statuses, NoRequest, None, RequestsHaveOrders, create_po
<1>1. ReceiptTypeOK'
  BY DEF ReceiptInv
<1>2. RequestsHaveOrders'
  BY DEF ReceiptInv
<1>3. CountersCovered'
  BY DEF CountersCovered, CountsCovered, Counted
<1>4. CountsCovered'
  BY DEF CountsCovered, Counted
<1>5. StatusRead'
  BY DEF StatusRead, Receivable
<1>6. Alone'
  BY DEF Alone
<1>7. ReadsHold'
  BY DEF ReadsHold, Counted, StatusRead
<1>8. CountersMatchNotes'
  BY DEF CountersMatchNotes, ReadsHold, Counted, Alone
<1>9. ReceivedIsComplete'
  BY DEF ReceivedIsComplete, ReadsHold, Counted, Alone, StatusRead, Receivable
<1>. QED  BY <1>1, <1>2, <1>3, <1>4, <1>5, <1>6, <1>7, <1>8, <1>9

LEMMA BeginApprovalKept ==
  ASSUME ReceiptInv, NEW u \in Users, NEW p \in Orders, BeginApproval(u, p)
  PROVE  ReceiptInv'
<1>1. ReceiptTypeOK'
  <2>1. PICK update \in {"approved", "rejected"} : get_po(u, p, "write_status", update)
    BY DEF BeginApproval
  <2>2. request' \in [Users -> Request]
    BY <2>1, ReadOrderTyped DEF ReceiptInv, Statuses
  <2>. QED  BY <2>2 DEF ReceiptInv, ReceiptTypeOK, BeginApproval, get_po
<1>. USE DEF ReceiptInv, ReceiptTypeOK, Request, Statuses, NoRequest, None, RequestsHaveOrders, BeginApproval, get_po, Proceed
<1>2. RequestsHaveOrders'
  BY DEF ReceiptInv
<1>3. CountersCovered'
  BY DEF CountersCovered, CountsCovered, Counted
<1>4. CountsCovered'
  BY DEF CountsCovered, Counted
<1>5. StatusRead'
  BY DEF StatusRead, Receivable
<1>6. Alone'
  BY DEF Alone
<1>7. ReadsHold'
  BY DEF ReadsHold, Counted, Alone
<1>8. CountersMatchNotes'
  BY DEF CountersMatchNotes, ReadsHold, Counted, Alone
<1>9. ReceivedIsComplete'
  BY DEF ReceivedIsComplete, ReadsHold, Counted, Alone, StatusRead, Receivable
<1>. QED  BY <1>1, <1>2, <1>3, <1>4, <1>5, <1>6, <1>7, <1>8, <1>9

LEMMA BeginCancelKept ==
  ASSUME ReceiptInv, NEW u \in Users, NEW p \in Orders, BeginCancel(u, p)
  PROVE  ReceiptInv'
<1>1. ReceiptTypeOK'
  <2>1. get_po(u, p, "write_status", "cancelled")
    BY DEF BeginCancel
  <2>2. request' \in [Users -> Request]
    BY <2>1, ReadOrderTyped DEF ReceiptInv, Statuses
  <2>. QED  BY <2>2 DEF ReceiptInv, ReceiptTypeOK, BeginCancel, get_po
<1>. USE DEF ReceiptInv, ReceiptTypeOK, Request, Statuses, NoRequest, None, RequestsHaveOrders, BeginCancel, get_po, Proceed
<1>2. RequestsHaveOrders'
  BY DEF ReceiptInv
<1>3. CountersCovered'
  BY DEF CountersCovered, CountsCovered, Counted
<1>4. CountsCovered'
  BY DEF CountsCovered, Counted
<1>5. StatusRead'
  BY DEF StatusRead, Receivable
<1>6. Alone'
  BY DEF Alone
<1>7. ReadsHold'
  BY DEF ReadsHold, Counted, Alone
<1>8. CountersMatchNotes'
  BY DEF CountersMatchNotes, ReadsHold, Counted, Alone
<1>9. ReceivedIsComplete'
  BY DEF ReceivedIsComplete, ReadsHold, Counted, Alone, StatusRead, Receivable
<1>. QED  BY <1>1, <1>2, <1>3, <1>4, <1>5, <1>6, <1>7, <1>8, <1>9

LEMMA BeginReceiptKept ==
  ASSUME ReceiptInv, NEW u \in Users, NEW p \in Orders, BeginReceipt(u, p)
  PROVE  ReceiptInv'
<1>1. ReceiptTypeOK'
  <2>1. get_po(u, p, "read_items", "absent")
    BY DEF BeginReceipt
  <2>2. request' \in [Users -> Request]
    BY <2>1, ReadOrderTyped DEF ReceiptInv, Statuses
  <2>. QED  BY <2>2 DEF ReceiptInv, ReceiptTypeOK, BeginReceipt, get_po
<1>. USE DEF ReceiptInv, ReceiptTypeOK, Request, Statuses, NoRequest, None, RequestsHaveOrders, BeginReceipt, get_po, Proceed
<1>2. RequestsHaveOrders'
  BY DEF ReceiptInv
<1>3. CountersCovered'
  BY DEF CountersCovered, CountsCovered, Counted
<1>4. CountsCovered'
  BY DEF CountsCovered, Counted
<1>5. StatusRead'
  BY DEF StatusRead, Receivable
<1>6. Alone'
  BY DEF Alone
<1>7. ReadsHold'
  BY DEF ReadsHold, Counted, Alone
<1>8. CountersMatchNotes'
  BY DEF CountersMatchNotes, ReadsHold, Counted, Alone
<1>9. ReceivedIsComplete'
  BY DEF ReceivedIsComplete, ReadsHold, Counted, Alone, StatusRead, Receivable
<1>. QED  BY <1>1, <1>2, <1>3, <1>4, <1>5, <1>6, <1>7, <1>8, <1>9

LEMMA WriteStatusKept ==
  ASSUME ReceiptInv, NEW u \in Users, NEW p \in Orders, WriteStatus(u, p)
  PROVE  ReceiptInv'
<1>. USE DEF ReceiptInv, ReceiptTypeOK, Request, Statuses, NoRequest, None, RequestsHaveOrders, WriteStatus, End, Proceed
<1>1. ReceiptTypeOK'
  BY DEF ReceiptInv
<1>2. RequestsHaveOrders'
  BY DEF ReceiptInv
<1>3. CountersCovered'
  BY DEF CountersCovered, CountsCovered, Counted
<1>4. CountsCovered'
  BY DEF CountsCovered, Counted
<1>5. StatusRead'
  BY DEF StatusRead, Receivable
<1>6. Alone'
  BY DEF Alone
<1>7. ReadsHold'
  BY DEF ReadsHold, Counted, Alone
<1>8. CountersMatchNotes'
  BY DEF CountersMatchNotes, ReadsHold, Counted, Alone
<1>9. ReceivedIsComplete'
  BY DEF ReceivedIsComplete, ReadsHold, Counted, Alone, StatusRead, Receivable
<1>. QED  BY <1>1, <1>2, <1>3, <1>4, <1>5, <1>6, <1>7, <1>8, <1>9

LEMMA ReadItemsKept ==
  ASSUME ReceiptInv, NEW u \in Users, NEW p \in Orders, ReadItems(u, p)
  PROVE  ReceiptInv'
<1>. USE DEF ReceiptInv, ReceiptTypeOK, Request, Statuses, NoRequest, None, RequestsHaveOrders, ReadItems, Proceed
<1>1. ReceiptTypeOK'
  <2>1. request[u] \in Request /\ quantity_received[p] \in [Items -> Nat]
    OBVIOUS
  <2>2. [request[u] EXCEPT !.step = "receive", !.received = quantity_received[p]] \in Request
    BY <2>1
  <2>. QED  BY <2>2
<1>2. RequestsHaveOrders'
  BY DEF ReceiptInv
<1>3. CountersCovered'
  BY DEF CountersCovered, CountsCovered, Counted
<1>4. CountsCovered'
  <2>1. request[u].order = p /\ request'[u].order = p
        /\ request'[u].received = quantity_received[p]
    OBVIOUS
  <2>2. \A v \in Users : v # u => request'[v] = request[v]
    OBVIOUS
  <2>. QED  BY <2>1, <2>2 DEF CountsCovered, Counted, CountersCovered
<1>5. StatusRead'
  BY DEF StatusRead, Receivable
<1>6. Alone'
  BY DEF Alone
<1>7. ReadsHold'
  BY DEF ReadsHold, Counted, Alone
<1>8. CountersMatchNotes'
  BY DEF CountersMatchNotes, ReadsHold, Counted, Alone
<1>9. ReceivedIsComplete'
  BY DEF ReceivedIsComplete, ReadsHold, Counted, Alone, StatusRead, Receivable
<1>. QED  BY <1>1, <1>2, <1>3, <1>4, <1>5, <1>6, <1>7, <1>8, <1>9

LEMMA CommitNoteKept ==
  ASSUME ReceiptInv, NEW u \in Users, NEW p \in Orders, NEW q \in Deliveries, CommitNote(u, p, q)
  PROVE  ReceiptInv'
<1>. USE DEF ReceiptInv, ReceiptTypeOK, Request, Statuses, NoRequest, None, RequestsHaveOrders, CommitNote, Proceed, FitsRemaining, Deliveries
<1>1. ReceiptTypeOK'
  <2>. DEFINE sum == [i \in Items |-> request[u].received[i] + q[i]]
  <2>1. q \in [Items -> Nat] /\ sum \in [Items -> Nat] /\ request[u] \in Request
    OBVIOUS
  <2>2. [request[u] EXCEPT !.step = "recompute", !.received = sum] \in Request
    BY <2>1
  <2>3. request' \in [Users -> Request]
    BY <2>2
  <2>4. noted' \in [Orders -> [Items -> Nat]]
    BY <2>1
  <2>5. quantity_received' \in [Orders -> [Items -> Nat]]
    BY <2>1
  <2>. QED  BY <2>3, <2>4, <2>5
<1>2. RequestsHaveOrders'
  BY DEF ReceiptInv
<1>3. CountersCovered'
  BY DEF CountersCovered, CountsCovered, Counted
<1>4. CountsCovered'
  BY DEF CountsCovered, Counted
<1>5. StatusRead'
  BY DEF StatusRead, Receivable
<1>6. Alone'
  BY DEF Alone
<1>7. ReadsHold'
  BY DEF ReadsHold, Counted, Alone
<1>8. CountersMatchNotes'
  <2>1. /\ UNCHANGED overlapped /\ request[u].order = p /\ Counted(u) /\ request[u].step # "idle"
        /\ \A o \in Orders : o # p => quantity_received'[o] = quantity_received[o]
                                   /\ noted'[o] = noted[o]
        /\ quantity_received'[p] = [i \in Items |-> IF q[i] = 0 THEN quantity_received[p][i]
                                                   ELSE request[u].received[i] + q[i]]
        /\ noted'[p] = [i \in Items |-> noted[p][i] + q[i]]
    BY DEF Counted
  <2>2. p \notin overlapped =>
          request[u].received = quantity_received[p] /\ quantity_received[p] = noted[p]
    <3>1. ReadsHold /\ CountersMatchNotes /\ p \in Orders /\ u \in Users
      BY DEF ReceiptInv
    <3>. HIDE DEF ReceiptInv, ReceiptTypeOK, RequestsHaveOrders, CommitNote, Proceed, FitsRemaining
    <3>. QED  BY <2>1, <3>1 DEF ReadsHold, CountersMatchNotes
  <2>3. \A i \in Items : q[i] \in Nat /\ noted[p][i] \in Nat
    OBVIOUS
  <2>4. p \notin overlapped => quantity_received'[p] = noted'[p]
    BY <2>1, <2>2, <2>3
  <2>. QED  BY <2>1, <2>4 DEF CountersMatchNotes
<1>9. ReceivedIsComplete'
  <2>1. p \notin overlapped => po_status[p] # "received"
    <3>1. request[u].step = "receive" /\ request[u].order = p /\ ReadsHold /\ StatusRead
      OBVIOUS
    <3>. HIDE DEF ReceiptInv, ReceiptTypeOK, RequestsHaveOrders, CommitNote, Proceed, FitsRemaining
    <3>. QED  BY <3>1 DEF ReadsHold, StatusRead, Receivable
  <2>2. /\ UNCHANGED <<overlapped, po_status>> /\ ReceivedIsComplete
        /\ \A o \in Orders : o # p => quantity_received'[o] = quantity_received[o]
    OBVIOUS
  <2>. HIDE DEF ReceiptInv, ReceiptTypeOK, RequestsHaveOrders, CommitNote, Proceed, FitsRemaining
  <2>. QED  BY <2>1, <2>2 DEF ReceivedIsComplete
<1>. QED  BY <1>1, <1>2, <1>3, <1>4, <1>5, <1>6, <1>7, <1>8, <1>9

LEMMA EndedKept ==
  ASSUME ReceiptInv, NEW u \in Users, End(u), UNCHANGED <<po_status, quantity_received, noted, overlapped>>
  PROVE  ReceiptInv'
<1>. USE DEF ReceiptInv, ReceiptTypeOK, Request, Statuses, NoRequest, None, RequestsHaveOrders, End, Proceed
<1>1. ReceiptTypeOK'
  BY DEF ReceiptInv
<1>2. RequestsHaveOrders'
  BY DEF ReceiptInv
<1>3. CountersCovered'
  BY DEF CountersCovered, CountsCovered, Counted
<1>4. CountsCovered'
  BY DEF CountsCovered, Counted
<1>5. StatusRead'
  BY DEF StatusRead, Receivable
<1>6. Alone'
  BY DEF Alone
<1>7. ReadsHold'
  BY DEF ReadsHold, Counted, Alone
<1>8. CountersMatchNotes'
  BY DEF CountersMatchNotes, ReadsHold, Counted, Alone
<1>9. ReceivedIsComplete'
  BY DEF ReceivedIsComplete, ReadsHold, Counted, Alone, StatusRead, Receivable
<1>. QED  BY <1>1, <1>2, <1>3, <1>4, <1>5, <1>6, <1>7, <1>8, <1>9

LEMMA recomputeKept ==
  ASSUME ReceiptInv, NEW u \in Users, NEW p \in Orders, recompute_receipt_status(u, p)
  PROVE  ReceiptInv'
<1>. USE DEF ReceiptInv, ReceiptTypeOK, Request, Statuses, NoRequest, None, RequestsHaveOrders, recompute_receipt_status, End, Proceed, RolledForward
<1>1. ReceiptTypeOK'
  BY DEF ReceiptInv
<1>2. RequestsHaveOrders'
  BY DEF ReceiptInv
<1>3. CountersCovered'
  BY DEF CountersCovered, CountsCovered, Counted
<1>4. CountsCovered'
  BY DEF CountsCovered, Counted
<1>5. StatusRead'
  BY DEF StatusRead, Receivable
<1>6. Alone'
  BY DEF Alone
<1>7. ReadsHold'
  BY DEF ReadsHold, Counted, Alone
<1>8. CountersMatchNotes'
  BY DEF CountersMatchNotes, ReadsHold, Counted, Alone
<1>9. ReceivedIsComplete'
  <2>1. SUFFICES ASSUME p \notin overlapped, po_status'[p] = "received"
                 PROVE  quantity_received[p] = Ordered[p]
    BY DEF ReceivedIsComplete
  <2>2. request[u].received = quantity_received[p] /\ request[u].status = po_status[p]
    BY <2>1 DEF ReadsHold, Counted
  <2>3. CASE po_status[p] = "received"
    BY <2>1, <2>3 DEF ReceivedIsComplete
  <2>4. CASE po_status[p] # "received"
    <3>1. ~(Total(request[u].received) < Total(Ordered[p]))
      BY <2>1, <2>2, <2>4
    <3>2. quantity_received[p] \in [Items -> Nat] /\ Ordered[p] \in [Items -> Nat]
      OBVIOUS
    <3>3. \A i \in Items : quantity_received[p][i] <= Ordered[p][i]
      BY DEF CountersCovered
    <3>. QED  BY <2>2, <3>1, <3>2, <3>3, FullTotal
  <2>. QED  BY <2>3, <2>4
<1>. QED  BY <1>1, <1>2, <1>3, <1>4, <1>5, <1>6, <1>7, <1>8, <1>9

-----------------------------------------------------------------------------
LEMMA InitReceiptInv == ReceiptInit => ReceiptInv
  BY DEF ReceiptInit, ReceiptInv, ReceiptTypeOK, Request, Statuses, NoRequest, None,
         RequestsHaveOrders, CountersCovered, CountsCovered, Counted, StatusRead,
         Alone, ReadsHold, CountersMatchNotes, ReceivedIsComplete

LEMMA StepReceiptInv == ReceiptInv /\ [ReceiptNext]_receiptVars => ReceiptInv'
<1>. SUFFICES ASSUME ReceiptInv, [ReceiptNext]_receiptVars
              PROVE  ReceiptInv'
  OBVIOUS
<1>1. CASE UNCHANGED receiptVars
  BY <1>1 DEF receiptVars, ReceiptInv, ReceiptTypeOK, RequestsHaveOrders, CountersCovered,
              CountsCovered, Counted, StatusRead, Alone, ReadsHold, CountersMatchNotes,
              ReceivedIsComplete
<1>2. ASSUME NEW p \in Orders, create_po(p)
      PROVE  ReceiptInv'
  BY <1>2, create_poKept
<1>3. ASSUME NEW u \in Users, NEW p \in Orders, Handle(u, p)
      PROVE  ReceiptInv'
  <2>1. CASE BeginApproval(u, p)
    BY <2>1, BeginApprovalKept
  <2>2. CASE BeginCancel(u, p)
    BY <2>2, BeginCancelKept
  <2>3. CASE WriteStatus(u, p)
    BY <2>3, WriteStatusKept
  <2>4. CASE BeginReceipt(u, p)
    BY <2>4, BeginReceiptKept
  <2>5. CASE ReadItems(u, p)
    BY <2>5, ReadItemsKept
  <2>6. ASSUME NEW q \in Deliveries, CommitNote(u, p, q)
        PROVE  ReceiptInv'
    BY <2>6, CommitNoteKept
  <2>7. ASSUME NEW q \in Deliveries, RejectReceipt(u, p, q)
        PROVE  ReceiptInv'
    BY <2>7, EndedKept DEF RejectReceipt
  <2>8. CASE recompute_receipt_status(u, p)
    BY <2>8, recomputeKept
  <2>. QED  BY <1>3, <2>1, <2>2, <2>3, <2>4, <2>5, <2>6, <2>7, <2>8 DEF Handle
<1>4. ASSUME NEW u \in Users, Fail(u)
      PROVE  ReceiptInv'
  BY <1>4, EndedKept DEF Fail
<1>. QED  BY <1>1, <1>2, <1>3, <1>4 DEF ReceiptNext

\* The inductive invariant of goods receipts.
THEOREM ReceiptInvariant == ReceiptSpec => []ReceiptInv
<1>. QED  BY InitReceiptInv, StepReceiptInv, PTL DEF ReceiptSpec

\* The variables of GoodsReceipt keep their types: in particular a status is one
\* that some handler of po_service.py or grn_service.py writes.
THEOREM ReceiptsTyped == ReceiptSpec => []ReceiptTypeOK
<1>1. ReceiptInv => ReceiptTypeOK
  BY DEF ReceiptInv
<1>. QED  BY <1>1, ReceiptInvariant, PTL

\* Whatever overlaps or fails, create_grn's counters never claim goods that no
\* note records, nor more than po_service.create_po ordered.
THEOREM CountersAlwaysCovered == ReceiptSpec => []CountersCovered
<1>1. ReceiptInv => CountersCovered
  BY DEF ReceiptInv
<1>. QED  BY <1>1, ReceiptInvariant, PTL

\* The lines of an order whose requests never overlapped carry exactly what its
\* goods receipt notes say.
THEOREM NotesOnTheLines == ReceiptSpec => []CountersMatchNotes
<1>1. ReceiptInv => CountersMatchNotes
  BY DEF ReceiptInv
<1>. QED  BY <1>1, ReceiptInvariant, PTL

\* recompute_receipt_status makes such an order RECEIVED only when every line is.
THEOREM ReceivedWhenComplete == ReceiptSpec => []ReceivedIsComplete
<1>1. ReceiptInv => ReceivedIsComplete
  BY DEF ReceiptInv
<1>. QED  BY <1>1, ReceiptInvariant, PTL

LEMMA ClosedStays ==
  ASSUME ReceiptInv, [ReceiptNext]_receiptVars, NEW p \in Orders, p \notin overlapped'
  PROVE  /\ po_status[p] \in {"rejected", "cancelled", "received"} => noted'[p] = noted[p]
         /\ po_status[p] \in {"cancelled", "received"} => po_status'[p] = po_status[p]
<1>. USE DEF ReceiptInv, ReceiptTypeOK, RequestsHaveOrders, Request, Statuses, StatusRead, ReadsHold, Receivable
<1>1. CASE UNCHANGED receiptVars
  BY <1>1 DEF receiptVars
<1>2. ASSUME NEW x \in Orders, create_po(x)
      PROVE  noted' = noted /\ (po_status[p] # "absent" => po_status'[p] = po_status[p])
  BY <1>2 DEF create_po
<1>3. ASSUME NEW u \in Users, NEW x \in Orders, WriteStatus(u, x)
      PROVE  noted' = noted /\ (po_status[p] \in {"cancelled", "received"} => po_status'[p] = po_status[p])
  BY <1>3 DEF WriteStatus
<1>4. ASSUME NEW u \in Users, NEW x \in Orders, NEW q \in Deliveries, CommitNote(u, x, q)
      PROVE  po_status' = po_status
             /\ (po_status[p] \in {"rejected", "cancelled", "received"} => noted'[p] = noted[p])
  BY <1>4 DEF CommitNote
<1>5. ASSUME NEW u \in Users, NEW x \in Orders, recompute_receipt_status(u, x)
      PROVE  noted' = noted /\ (po_status[p] \in {"cancelled", "received"} => po_status'[p] = po_status[p])
  BY <1>5 DEF recompute_receipt_status
<1>6. ASSUME \/ \E u \in Users, x \in Orders :
                  \/ BeginApproval(u, x) \/ BeginCancel(u, x)
                  \/ BeginReceipt(u, x) \/ ReadItems(u, x)
                  \/ \E q \in Deliveries : RejectReceipt(u, x, q)
             \/ \E u \in Users : Fail(u)
      PROVE  UNCHANGED <<po_status, noted>>
  BY <1>6 DEF BeginApproval, BeginCancel, BeginReceipt, ReadItems, RejectReceipt, Fail
<1>. QED  BY <1>1, <1>2, <1>3, <1>4, <1>5, <1>6 DEF ReceiptNext, Handle

\* Such an order takes no goods once it is rejected, cancelled or received, and
\* stays cancelled or received.
THEOREM OrdersCloseForGood == ReceiptSpec => ClosedForGood
<1>1. ReceiptInv /\ [ReceiptNext]_receiptVars =>
        [\A p \in Orders \ overlapped' :
           /\ po_status[p] \in {"rejected", "cancelled", "received"} => noted'[p] = noted[p]
           /\ po_status[p] \in {"cancelled", "received"} => po_status'[p] = po_status[p]]_receiptVars
  BY ClosedStays
<1>. QED  BY <1>1, ReceiptInvariant, PTL DEF ReceiptSpec, ClosedForGood

-----------------------------------------------------------------------------
(* The ledger of a vendor and its mirror.                                  *)

\* The types that the counts of postings need.
Shapes ==
  /\ DOMAIN entry = Jobs
  /\ \A j \in Jobs : /\ DOMAIN entry[j] = {"created_at", "balance_after", "synced"}
                     /\ entry[j].synced \in BOOLEAN
  /\ journal \in [Jobs -> Nat]
  /\ DOMAIN job = Jobs
  /\ \A j \in Jobs : DOMAIN job[j] = {"step", "created_at", "balance"} /\ job[j].step \in JobSteps
  /\ retry \in [RetryTasks -> [step : {"idle", "retry"}, todo : SUBSET Jobs,
                               marked : SUBSET Jobs]]
  /\ faults \in Nat

Early(j) == job[j].step \in {"new", "booked", "read_balance", "insert"}

\* What retry tasks have in hand are rows, and what they or a request are about
\* to mark was posted.
Marks ==
  /\ \A j \in Jobs : Early(j) => ~Exists(j) /\ ~entry[j].synced
  /\ \A j \in Jobs : job[j].step = "mark" \/ entry[j].synced => journal[j] > 0
  /\ \A t \in RetryTasks, j \in Jobs :
       /\ j \in retry[t].todo \/ j \in retry[t].marked => Exists(j)
       /\ j \in retry[t].marked => journal[j] > 0 /\ j \notin retry[t].todo

\* The tasks that are about to post an entry, and to mark it.
Posting(j) == {t \in RetryTasks : j \in retry[t].todo}
Marking(j) == {t \in RetryTasks : j \in retry[t].marked}

\* The request itself may still post.
Due(j) == IF Early(j) \/ job[j].step = "post" THEN 1 ELSE 0

\* While an entry is unsynced each posting beyond the request's own is a task's
\* that is about to mark it, or a fault; once it is synced the tasks that have
\* read it before may post it too, and no other.
Budget(j) ==
  /\ ~entry[j].synced => journal[j] + Due(j) <= 1 + Cardinality(Marking(j)) + faults
  /\ entry[j].synced =>
       journal[j] + Due(j) + Cardinality(Posting(j)) <= 1 + Cardinality(RetryTasks) + faults

Budgets == \A j \in Jobs : Budget(j)

LedgerInv == Shapes /\ Marks /\ Budgets

LEMMA TaskSets ==
  ASSUME LedgerAssumption, NEW j \in Jobs
  PROVE  /\ IsFiniteSet(Posting(j)) /\ Cardinality(Posting(j)) \in Nat
         /\ IsFiniteSet(Marking(j)) /\ Cardinality(Marking(j)) \in Nat
         /\ Cardinality(Marking(j)) <= Cardinality(RetryTasks)
         /\ Cardinality(RetryTasks) \in Nat
  <1>1. Posting(j) \in SUBSET RetryTasks /\ Marking(j) \in SUBSET RetryTasks
    BY DEF Posting, Marking
  <1>2. IsFiniteSet(RetryTasks)
    BY DEF LedgerAssumption
  <1> QED
    BY <1>1, <1>2, FS_Subset, FS_CardinalityType

\* A task is not both about to post an entry and about to mark it.
LEMMA TasksApart ==
  ASSUME LedgerAssumption, Shapes, Marks, NEW j \in Jobs
  PROVE  Cardinality(Posting(j)) + Cardinality(Marking(j)) <= Cardinality(RetryTasks)
  <1>1. IsFiniteSet(RetryTasks) /\ Posting(j) \in SUBSET RetryTasks
        /\ Marking(j) \in SUBSET (RetryTasks \ Posting(j))
    BY DEF LedgerAssumption, Posting, Marking, Marks
  <1>2. /\ IsFiniteSet(RetryTasks \ Posting(j))
        /\ Cardinality(RetryTasks \ Posting(j)) =
             Cardinality(RetryTasks) - Cardinality(RetryTasks \cap Posting(j))
    BY <1>1, FS_Difference
  <1>3. RetryTasks \cap Posting(j) = Posting(j)
    BY <1>1
  <1>4. Cardinality(RetryTasks \ Posting(j)) = Cardinality(RetryTasks) - Cardinality(Posting(j))
    BY <1>2, <1>3
  <1>5. Cardinality(Marking(j)) <= Cardinality(RetryTasks \ Posting(j))
    BY <1>1, <1>2, FS_Subset
  <1> HIDE DEF Posting, Marking
  <1> QED
    BY <1>4, <1>5, TaskSets

LEMMA LedgerInitial ==
  ASSUME LedgerAssumption, LedgerInit
  PROVE  LedgerInv
  <1>1. Shapes
    BY DEF LedgerInit, Shapes, NoEntry, NewJob, NoRetry, JobSteps
  <1>2. Marks
    BY DEF LedgerInit, Marks, Exists, Early, NoEntry, NewJob, NoRetry
  <1>3. ASSUME NEW j \in Jobs PROVE Budget(j)
    <2>1. ~entry[j].synced /\ journal[j] = 0 /\ Due(j) \in {0, 1} /\ faults = 0
      BY DEF LedgerInit, NoEntry, Due
    <2> QED
      BY <2>1, TaskSets DEF Budget
  <1> QED
    BY <1>1, <1>2, <1>3 DEF LedgerInv, Budgets

\* The budget of an entry whose tasks and mark stay as they are.
LEMMA BudgetKept ==
  ASSUME LedgerAssumption, Shapes, Shapes', NEW j \in Jobs, Budget(j),
         UNCHANGED retry, entry'[j].synced = entry[j].synced, faults <= faults',
         journal'[j] + Due(j)' <= journal[j] + Due(j) + (faults' - faults)
  PROVE  Budget(j)'
  <1>1. Posting(j)' = Posting(j) /\ Marking(j)' = Marking(j)
    BY DEF Posting, Marking
  <1>2. /\ journal[j] \in Nat /\ journal'[j] \in Nat /\ faults \in Nat /\ faults' \in Nat
        /\ Due(j) \in Nat /\ Due(j)' \in Nat
    BY DEF Shapes, Due
  <1> QED
    BY <1>1, <1>2, TaskSets DEF Budget
-----------------------------------------------------------------------------
(* The requests.                                                           *)

Moved(j, step) ==
  /\ DOMAIN job' = Jobs
  /\ \A k \in Jobs : DOMAIN job'[k] = {"step", "created_at", "balance"}
  /\ \A k \in Jobs : job'[k].step = IF k = j THEN step ELSE job[k].step

LEMMA JobMoves ==
  ASSUME Shapes, NEW j \in Jobs, NEW step, NEW a, NEW b,
         \/ job' = [job EXCEPT ![j].step = step]
         \/ job' = [job EXCEPT ![j].step = step, ![j].created_at = a]
         \/ job' = [job EXCEPT ![j].step = step, ![j].balance = b]
  PROVE  Moved(j, step)
  <1>1. CASE job' = [job EXCEPT ![j].step = step]
    BY <1>1 DEF Moved, Shapes
  <1>2. CASE job' = [job EXCEPT ![j].step = step, ![j].created_at = a]
    BY <1>2 DEF Moved, Shapes
  <1>3. CASE job' = [job EXCEPT ![j].step = step, ![j].balance = b]
    BY <1>3 DEF Moved, Shapes
  <1> QED
    BY <1>1, <1>2, <1>3

\* A request goes on and writes nothing.
LEMMA MoveKeeps ==
  ASSUME LedgerAssumption, LedgerInv, NEW j \in Jobs, NEW step \in JobSteps, Moved(j, step),
         UNCHANGED <<entry, journal, retry>>, faults' \in Nat, faults <= faults',
         step # "mark",
         step \in {"new", "booked", "read_balance", "insert"} => Early(j),
         step = "post" => job[j].step = "post"
  PROVE  LedgerInv'
  <1> USE DEF LedgerInv
  <1>1. Shapes'
    BY DEF Shapes, Moved
  <1>2. Marks'
    BY DEF Marks, Moved, Early, Exists
  <1>3. ASSUME NEW k \in Jobs PROVE Budget(k)'
    <2>1. Due(k)' <= Due(k)
      BY DEF Due, Early, Moved
    <2>2. journal[k] \in Nat /\ Due(k) \in {0, 1} /\ Due(k)' \in {0, 1} /\ faults \in Nat
      BY DEF Shapes, Due
    <2> QED
      BY <1>1, <2>1, <2>2, BudgetKept DEF Budgets
  <1> QED
    BY <1>1, <1>2, <1>3 DEF Budgets

\* Nothing that the ledger keeps changes.
LEMMA StillKeeps ==
  ASSUME LedgerAssumption, LedgerInv, UNCHANGED <<entry, journal, job, retry>>,
         faults' \in Nat, faults <= faults'
  PROVE  LedgerInv'
  <1> USE DEF LedgerInv
  <1>1. Shapes'
    BY DEF Shapes
  <1>2. Marks'
    BY DEF Marks, Early, Exists
  <1>3. ASSUME NEW k \in Jobs PROVE Budget(k)'
    <2>1. Due(k)' = Due(k)
      BY DEF Due, Early
    <2>2. journal[k] \in Nat /\ Due(k) \in {0, 1} /\ faults \in Nat
      BY DEF Shapes, Due
    <2> QED
      BY <1>1, <2>1, <2>2, BudgetKept DEF Budgets
  <1> QED
    BY <1>1, <1>2, <1>3 DEF Budgets

LEMMA AddKeeps ==
  ASSUME LedgerAssumption, LedgerInv, NEW j \in Jobs, add_ledger_entry(j)
  PROVE  LedgerInv'
  <1> USE DEF LedgerInv
  <1> DEFINE step == IF j \in Invoices THEN "post" ELSE "done"
  <1>1. /\ job[j].step = "insert" /\ UNCHANGED <<journal, retry, faults>>
        /\ Moved(j, step)
    BY JobMoves DEF add_ledger_entry, Goto
  <1>2. /\ DOMAIN entry' = Jobs
        /\ \A k \in Jobs : DOMAIN entry'[k] = {"created_at", "balance_after", "synced"}
        /\ \A k \in Jobs : k # j => entry'[k] = entry[k]
        /\ entry'[j].synced = FALSE
    BY DEF add_ledger_entry, Shapes
  <1>3. step \in {"post", "done"}
    OBVIOUS
  <1> HIDE DEF step
  <1>4. Shapes'
    <2>1. \A k \in Jobs : entry'[k].synced \in BOOLEAN
      BY <1>2 DEF Shapes
    <2>2. \A k \in Jobs : job'[k].step \in JobSteps
      BY <1>1, <1>3 DEF Shapes, Moved, JobSteps
    <2> QED
      BY <1>1, <1>2, <2>1, <2>2 DEF Shapes, Moved
  <1>5. /\ ~Exists(j) /\ ~entry[j].synced
    BY <1>1 DEF Marks, Early
  <1>6. Marks'
    BY <1>1, <1>2, <1>3, <1>5 DEF Marks, Moved, Early, Exists
  <1>7. ASSUME NEW k \in Jobs PROVE Budget(k)'
    <2>1. Due(k)' <= Due(k)
      BY <1>1, <1>3 DEF Due, Early, Moved
    <2>2. entry'[k].synced = entry[k].synced
      <3>1. entry'[k].synced \in BOOLEAN /\ entry[k].synced \in BOOLEAN
        BY <1>4 DEF Shapes
      <3> QED
        BY <1>2, <1>5, <3>1
    <2>3. journal[k] \in Nat /\ Due(k) \in {0, 1} /\ Due(k)' \in {0, 1} /\ faults \in Nat
      BY DEF Shapes, Due
    <2> QED
      BY <1>1, <1>4, <2>1, <2>2, <2>3, BudgetKept DEF Budgets
  <1> QED
    BY <1>4, <1>6, <1>7 DEF Budgets

\* The request posts: its own posting, or one whose answer was lost.
LEMMA PostKeeps ==
  ASSUME LedgerAssumption, LedgerInv, NEW j \in Jobs, PostEntry(j) \/ ReplyLost(j)
  PROVE  LedgerInv'
  <1> USE DEF LedgerInv
  <1>1. PICK step \in {"mark", "schedule"} :
          /\ job[j].step = "post" /\ UNCHANGED <<entry, retry>> /\ Moved(j, step)
          /\ journal' = [journal EXCEPT ![j] = @ + 1]
          /\ faults' \in {faults, faults + 1}
    <2>1. CASE PostEntry(j)
      BY <2>1, JobMoves DEF PostEntry, Post, Goto
    <2>2. CASE ReplyLost(j)
      BY <2>2, JobMoves DEF ReplyLost, Post, Goto, Fault
    <2> QED
      BY <2>1, <2>2
  <1>2. /\ journal' \in [Jobs -> Nat] /\ journal'[j] = journal[j] + 1
        /\ \A k \in Jobs : k # j => journal'[k] = journal[k]
        /\ \A k \in Jobs : journal[k] \in Nat
        /\ faults \in Nat /\ faults' \in Nat /\ faults <= faults'
    BY <1>1 DEF Shapes
  <1>3. Shapes'
    BY <1>1, <1>2 DEF Shapes, Moved, JobSteps
  <1>4. Marks'
    BY <1>1, <1>2 DEF Marks, Moved, Early, Exists
  <1>5. ASSUME NEW k \in Jobs PROVE Budget(k)'
    <2>1. Due(k) \in {0, 1} /\ Due(k)' \in {0, 1}
      BY DEF Due
    <2>2. IF k = j THEN Due(k) = 1 /\ Due(k)' = 0 ELSE Due(k)' = Due(k)
      BY <1>1 DEF Due, Early, Moved
    <2>3. journal'[k] + Due(k)' <= journal[k] + Due(k) + (faults' - faults)
      BY <1>2, <2>1, <2>2
    <2> QED
      BY <1>1, <1>2, <1>3, <2>3, BudgetKept DEF Budgets
  <1> QED
    BY <1>3, <1>4, <1>5 DEF Budgets

LEMMA MarkKeeps ==
  ASSUME LedgerAssumption, LedgerInv, NEW j \in Jobs, MarkSynced(j)
  PROVE  LedgerInv'
  <1> USE DEF LedgerInv
  <1>1. /\ job[j].step = "mark" /\ UNCHANGED <<journal, retry, faults>> /\ Moved(j, "schedule")
    BY JobMoves DEF MarkSynced, Goto
  <1>2. /\ DOMAIN entry' = Jobs
        /\ \A k \in Jobs : DOMAIN entry'[k] = {"created_at", "balance_after", "synced"}
        /\ \A k \in Jobs : k # j => entry'[k] = entry[k]
        /\ entry'[j].synced = TRUE /\ entry'[j].created_at = entry[j].created_at
    BY DEF MarkSynced, Shapes
  <1>3. Shapes'
    <2>1. \A k \in Jobs : entry'[k].synced \in BOOLEAN
      BY <1>2 DEF Shapes
    <2> QED
      BY <1>1, <1>2, <2>1 DEF Shapes, Moved, JobSteps
  <1>4. Marks'
    BY <1>1, <1>2 DEF Marks, Moved, Early, Exists
  <1>5. ASSUME NEW k \in Jobs PROVE Budget(k)'
    <2>1. Due(k)' = Due(k) /\ Due(k) \in {0, 1}
      BY <1>1 DEF Due, Early, Moved
    <2>2. journal[k] \in Nat /\ faults \in Nat
      BY DEF Shapes
    <2>3. CASE k # j
      BY <1>1, <1>2, <1>3, <2>1, <2>2, <2>3, BudgetKept DEF Budgets
    <2>4. CASE k = j
      <3>1. Budget(k)' <=>
              journal[k] + Due(k) + Cardinality(Posting(k)) <= 1 + Cardinality(RetryTasks) + faults
        BY <1>1, <1>2, <2>1, <2>4 DEF Budget, Posting
      <3>2. Budget(k)
        BY DEF Budgets
      <3> QED
        BY <2>1, <2>2, <3>1, <3>2, TaskSets, TasksApart DEF Budget
    <2> QED
      BY <2>3, <2>4
  <1> QED
    BY <1>3, <1>4, <1>5 DEF Budgets
-----------------------------------------------------------------------------
(* The retry tasks.                                                        *)

Replaced(t, todo, marked) ==
  /\ retry' \in [RetryTasks -> [step : {"idle", "retry"}, todo : SUBSET Jobs,
                                marked : SUBSET Jobs]]
  /\ retry'[t].todo = todo /\ retry'[t].marked = marked
  /\ \A u \in RetryTasks : u # t => retry'[u] = retry[u]

LEMMA Update ==
  ASSUME NEW S, NEW T, NEW M, NEW r \in [RetryTasks -> [step : S, todo : T, marked : M]],
         NEW t \in RetryTasks, NEW a \in T, NEW b \in M, NEW c \in S
  PROVE  /\ LET q == [r EXCEPT ![t].todo = a, ![t].marked = b]
            IN  /\ q \in [RetryTasks -> [step : S, todo : T, marked : M]]
                /\ q[t].todo = a /\ q[t].marked = b
                /\ \A u \in RetryTasks : u # t => q[u] = r[u]
         /\ LET q == [r EXCEPT ![t].todo = a]
            IN  /\ q \in [RetryTasks -> [step : S, todo : T, marked : M]]
                /\ q[t].todo = a /\ q[t].marked = r[t].marked
                /\ \A u \in RetryTasks : u # t => q[u] = r[u]
         /\ LET q == [r EXCEPT ![t] = [step |-> c, todo |-> a, marked |-> b]]
            IN  /\ q \in [RetryTasks -> [step : S, todo : T, marked : M]]
                /\ q[t].todo = a /\ q[t].marked = b
                /\ \A u \in RetryTasks : u # t => q[u] = r[u]
  <1>1. LET q == [r EXCEPT ![t].todo = a, ![t].marked = b]
        IN  /\ q \in [RetryTasks -> [step : S, todo : T, marked : M]]
            /\ q[t].todo = a /\ q[t].marked = b
            /\ \A u \in RetryTasks : u # t => q[u] = r[u]
    OBVIOUS
  <1>2. LET q == [r EXCEPT ![t].todo = a]
        IN  /\ q \in [RetryTasks -> [step : S, todo : T, marked : M]]
            /\ q[t].todo = a /\ q[t].marked = r[t].marked
            /\ \A u \in RetryTasks : u # t => q[u] = r[u]
    OBVIOUS
  <1>3. LET q == [r EXCEPT ![t] = [step |-> c, todo |-> a, marked |-> b]]
        IN  /\ q \in [RetryTasks -> [step : S, todo : T, marked : M]]
            /\ q[t].todo = a /\ q[t].marked = b
            /\ \A u \in RetryTasks : u # t => q[u] = r[u]
    OBVIOUS
  <1> QED
    BY <1>1, <1>2, <1>3

\* Which tasks are about to post an entry, and to mark it, then.
LEMMA TaskReplaced ==
  ASSUME NEW t \in RetryTasks, NEW todo, NEW marked, Replaced(t, todo, marked), NEW j \in Jobs
  PROVE  /\ Posting(j)' = IF j \in todo THEN Posting(j) \cup {t} ELSE Posting(j) \ {t}
         /\ Marking(j)' = IF j \in marked THEN Marking(j) \cup {t} ELSE Marking(j) \ {t}
  BY DEF Posting, Marking, Replaced

\* How many they are then.
LEMMA TaskCounts ==
  ASSUME LedgerAssumption, NEW t \in RetryTasks, NEW j \in Jobs
  PROVE  /\ Posting(j)' = Posting(j) \cup {t} => Cardinality(Posting(j)') =
               IF j \in retry[t].todo THEN Cardinality(Posting(j)) ELSE Cardinality(Posting(j)) + 1
         /\ Posting(j)' = Posting(j) \ {t} => Cardinality(Posting(j)') =
               IF j \in retry[t].todo THEN Cardinality(Posting(j)) - 1 ELSE Cardinality(Posting(j))
         /\ Marking(j)' = Marking(j) \cup {t} => Cardinality(Marking(j)') =
               IF j \in retry[t].marked THEN Cardinality(Marking(j)) ELSE Cardinality(Marking(j)) + 1
         /\ Marking(j)' = Marking(j) \ {t} => Cardinality(Marking(j)') =
               IF j \in retry[t].marked THEN Cardinality(Marking(j)) - 1 ELSE Cardinality(Marking(j))
  <1>1. /\ t \in Posting(j) <=> j \in retry[t].todo
        /\ t \in Marking(j) <=> j \in retry[t].marked
    BY DEF Posting, Marking
  <1>2. IsFiniteSet(Posting(j)) /\ IsFiniteSet(Marking(j))
    BY TaskSets
  <1> HIDE DEF Posting, Marking
  <1>3. /\ Cardinality(Posting(j) \cup {t}) =
             IF t \in Posting(j) THEN Cardinality(Posting(j)) ELSE Cardinality(Posting(j)) + 1
        /\ Cardinality(Marking(j) \cup {t}) =
             IF t \in Marking(j) THEN Cardinality(Marking(j)) ELSE Cardinality(Marking(j)) + 1
    BY <1>2, FS_AddElement
  <1>4. /\ Cardinality(Posting(j) \ {t}) =
             IF t \in Posting(j) THEN Cardinality(Posting(j)) - 1 ELSE Cardinality(Posting(j))
        /\ Cardinality(Marking(j) \ {t}) =
             IF t \in Marking(j) THEN Cardinality(Marking(j)) - 1 ELSE Cardinality(Marking(j))
    BY <1>2, FS_RemoveElement
  <1> QED
    BY <1>1, <1>3, <1>4

\* So, from what the task had and has in hand.
LEMMA Recount ==
  ASSUME LedgerAssumption, LedgerInv, NEW t \in RetryTasks, NEW todo, NEW marked,
         Replaced(t, todo, marked), NEW j \in Jobs
  PROVE  /\ Cardinality(Posting(j)') = Cardinality(Posting(j))
              + (IF j \in todo THEN 1 ELSE 0) - (IF j \in retry[t].todo THEN 1 ELSE 0)
         /\ Cardinality(Marking(j)') = Cardinality(Marking(j))
              + (IF j \in marked THEN 1 ELSE 0) - (IF j \in retry[t].marked THEN 1 ELSE 0)
         /\ Cardinality(Posting(j)) \in Nat /\ Cardinality(Marking(j)) \in Nat
         /\ Cardinality(RetryTasks) \in Nat
         /\ journal[j] \in Nat /\ faults \in Nat /\ Due(j) \in {0, 1}
         /\ Budget(j)
  <1>1. /\ Posting(j)' = Posting(j) \cup {t} \/ Posting(j)' = Posting(j) \ {t}
        /\ j \in todo => Posting(j)' = Posting(j) \cup {t}
        /\ j \notin todo => Posting(j)' = Posting(j) \ {t}
        /\ j \in marked => Marking(j)' = Marking(j) \cup {t}
        /\ j \notin marked => Marking(j)' = Marking(j) \ {t}
    BY TaskReplaced
  <1>2. Cardinality(Posting(j)) \in Nat /\ Cardinality(Marking(j)) \in Nat
        /\ Cardinality(RetryTasks) \in Nat
    BY TaskSets
  <1>3. Cardinality(Posting(j)') = Cardinality(Posting(j))
              + (IF j \in todo THEN 1 ELSE 0) - (IF j \in retry[t].todo THEN 1 ELSE 0)
    <2>1. CASE j \in todo
      BY <1>1, <1>2, <2>1, TaskCounts
    <2>2. CASE j \notin todo
      BY <1>1, <1>2, <2>2, TaskCounts
    <2> QED
      BY <2>1, <2>2
  <1>4. Cardinality(Marking(j)') = Cardinality(Marking(j))
              + (IF j \in marked THEN 1 ELSE 0) - (IF j \in retry[t].marked THEN 1 ELSE 0)
    <2>1. CASE j \in marked
      BY <1>1, <1>2, <2>1, TaskCounts
    <2>2. CASE j \notin marked
      BY <1>1, <1>2, <2>2, TaskCounts
    <2> QED
      BY <2>1, <2>2
  <1>5. journal[j] \in Nat /\ faults \in Nat /\ Due(j) \in {0, 1} /\ Budget(j)
    BY DEF LedgerInv, Shapes, Due, Budgets
  <1> QED
    BY <1>2, <1>3, <1>4, <1>5

In(j, S) == IF j \in S THEN 1 ELSE 0

\* A task takes something else in hand, and may post.
LEMMA TaskKeeps ==
  ASSUME LedgerAssumption, LedgerInv, NEW t \in RetryTasks, NEW todo, NEW marked,
         Replaced(t, todo, marked), UNCHANGED <<entry, job>>,
         journal' \in [Jobs -> Nat], faults' \in Nat,
         \A j \in Jobs : /\ j \in todo \/ j \in marked => Exists(j)
                         /\ j \in marked => journal'[j] > 0 /\ j \notin todo
                         /\ journal[j] <= journal'[j],
         \A j \in Jobs :
           /\ ~entry[j].synced =>
                journal'[j] - journal[j] <= In(j, marked) - In(j, retry[t].marked) + faults' - faults
           /\ entry[j].synced =>
                journal'[j] - journal[j] <= In(j, retry[t].todo) - In(j, todo) + faults' - faults
  PROVE  LedgerInv'
  <1>1. Shapes'
    BY DEF LedgerInv, Shapes, Replaced
  <1>2. Marks'
    <2>1. \A j \in Jobs : journal[j] \in Nat /\ journal'[j] \in Nat /\ journal[j] <= journal'[j]
      BY DEF LedgerInv, Shapes
    <2>2. \A j \in Jobs : Early(j)' = Early(j) /\ Exists(j)' = Exists(j)
      BY DEF Early, Exists
    <2>3. \A u \in RetryTasks, j \in Jobs :
            /\ j \in retry'[u].todo \/ j \in retry'[u].marked => Exists(j)
            /\ j \in retry'[u].marked => journal'[j] > 0 /\ j \notin retry'[u].todo
      BY <2>1 DEF LedgerInv, Marks, Replaced
    <2> QED
      BY <2>1, <2>2, <2>3 DEF LedgerInv, Marks
  <1>3. ASSUME NEW j \in Jobs PROVE Budget(j)'
    <2>1. /\ Cardinality(Posting(j)') =
                Cardinality(Posting(j)) + In(j, todo) - In(j, retry[t].todo)
          /\ Cardinality(Marking(j)') =
                Cardinality(Marking(j)) + In(j, marked) - In(j, retry[t].marked)
      BY Recount DEF In
    <2>2. /\ Cardinality(Posting(j)) \in Nat /\ Cardinality(Marking(j)) \in Nat
          /\ Cardinality(RetryTasks) \in Nat
          /\ journal[j] \in Nat /\ faults \in Nat /\ Due(j) \in {0, 1}
          /\ Budget(j)
      BY Recount
    <2>3. Due(j)' = Due(j) /\ journal'[j] \in Nat
      BY DEF Due, Early
    <2>4. /\ In(j, todo) \in {0, 1} /\ In(j, marked) \in {0, 1}
          /\ In(j, retry[t].todo) \in {0, 1} /\ In(j, retry[t].marked) \in {0, 1}
      BY DEF In
    <2> HIDE DEF In, Due
    <2>5. ~entry[j].synced =>
            journal'[j] + Due(j)' <= 1 + Cardinality(Marking(j)') + faults'
      BY <2>1, <2>2, <2>3, <2>4 DEF Budget
    <2>6. entry[j].synced =>
            journal'[j] + Due(j)' + Cardinality(Posting(j)') <= 1 + Cardinality(RetryTasks) + faults'
      BY <2>1, <2>2, <2>3, <2>4 DEF Budget
    <2> QED
      BY <2>5, <2>6 DEF Budget
  <1> QED
    BY <1>1, <1>2, <1>3 DEF LedgerInv, Budgets

LEMMA RetryShape ==
  ASSUME Shapes, NEW t \in RetryTasks
  PROVE  /\ retry \in [RetryTasks -> [step : {"idle", "retry"}, todo : SUBSET Jobs,
                                      marked : SUBSET Jobs]]
         /\ retry[t].todo \in SUBSET Jobs /\ retry[t].marked \in SUBSET Jobs
  BY DEF Shapes

\* A task ends: what it has not committed is dropped.
LEMMA Dropped ==
  ASSUME Shapes, NEW t \in RetryTasks, retry' = [retry EXCEPT ![t] = NoRetry]
  PROVE  Replaced(t, {}, {})
  <1> DEFINE N == SUBSET Jobs
             S == {"idle", "retry"}
  <1>1. /\ retry \in [RetryTasks -> [step : S, todo : N, marked : N]] /\ {} \in N
        /\ "idle" \in S
        /\ retry' = [retry EXCEPT ![t] = [step |-> "idle", todo |-> {}, marked |-> {}]]
    BY DEF Shapes, NoRetry
  <1> HIDE DEF N, S
  <1>2. [step |-> "idle", todo |-> {}, marked |-> {}] \in [step : S, todo : N, marked : N]
    BY <1>1
  <1>3. /\ retry' \in [RetryTasks -> [step : S, todo : N, marked : N]]
        /\ retry'[t] = [step |-> "idle", todo |-> {}, marked |-> {}]
        /\ \A u \in RetryTasks : u # t => retry'[u] = retry[u]
    BY <1>1, <1>2
  <1> QED
    BY <1>3 DEF Replaced, N, S

\* The task reads the unsynced entries.
LEMMA BeginKeeps ==
  ASSUME LedgerAssumption, LedgerInv, NEW t \in RetryTasks, BeginRetryTask(t)
  PROVE  LedgerInv'
  <1> DEFINE unsynced == {j \in Entries : ~entry[j].synced}
             N == SUBSET Jobs
             S == {"idle", "retry"}
  <1>1. /\ unsynced \in N /\ {} \in N /\ "retry" \in S
        /\ \A j \in Jobs : j \in unsynced <=> Exists(j) /\ ~entry[j].synced
    BY DEF Entries
  <1>2. /\ retry[t] = NoRetry /\ UNCHANGED <<entry, job, journal, faults>>
        /\ retry' = [retry EXCEPT ![t] = [step |-> "retry", todo |-> unsynced, marked |-> {}]]
    BY DEF BeginRetryTask
  <1>3. /\ retry \in [RetryTasks -> [step : S, todo : N, marked : N]]
        /\ journal \in [Jobs -> Nat] /\ faults \in Nat
    BY DEF LedgerInv, Shapes
  <1> HIDE DEF unsynced, N, S
  <1>4. /\ retry' \in [RetryTasks -> [step : S, todo : N, marked : N]]
        /\ retry'[t].todo = unsynced /\ retry'[t].marked = {}
        /\ \A u \in RetryTasks : u # t => retry'[u] = retry[u]
    BY <1>1, <1>2, <1>3
  <1>5. Replaced(t, unsynced, {})
    BY <1>4 DEF Replaced, N, S
  <1>6. /\ retry[t].todo = {} /\ retry[t].marked = {}
        /\ \A j \in Jobs : journal[j] \in Nat
    BY <1>2, <1>3 DEF NoRetry
  <1>7. \A j \in Jobs :
          /\ j \in unsynced \/ j \in {} => Exists(j)
          /\ j \in {} => journal'[j] > 0 /\ j \notin unsynced
          /\ journal[j] <= journal'[j]
    BY <1>1, <1>2, <1>6
  <1>8. \A j \in Jobs :
          /\ ~entry[j].synced =>
               journal'[j] - journal[j] <= In(j, {}) - In(j, retry[t].marked) + faults' - faults
          /\ entry[j].synced =>
               journal'[j] - journal[j] <= In(j, retry[t].todo) - In(j, unsynced) + faults' - faults
    BY <1>1, <1>2, <1>3, <1>6 DEF In
  <1> QED
    BY <1>2, <1>3, <1>5, <1>7, <1>8, TaskKeeps

\* The task offers one entry: Finance takes it, refuses it, or takes it and
\* its answer is lost.
LEMMA OfferKeeps ==
  ASSUME LedgerAssumption, LedgerInv, NEW t \in RetryTasks, NEW j \in Jobs,
         RetryPost(t, j) \/ RetryRefused(t, j) \/ RetryReplyLost(t, j)
  PROVE  LedgerInv'
  <1> DEFINE todo == retry[t].todo \ {j}
             N == SUBSET Jobs
             S == {"idle", "retry"}
  <1>1. PICK kept \in {retry[t].marked, retry[t].marked \cup {j}}, more \in {0, 1}, lost \in {0, 1} :
          /\ j \in retry[t].todo /\ UNCHANGED <<entry, job>>
          /\ \/ retry' = [retry EXCEPT ![t].todo = todo, ![t].marked = kept]
             \/ retry' = [retry EXCEPT ![t].todo = todo] /\ kept = retry[t].marked
          /\ journal' = [journal EXCEPT ![j] = @ + more]
          /\ faults' = faults + lost
          /\ \/ more = 1 /\ lost = 0 /\ kept = retry[t].marked \cup {j}
             \/ more = lost /\ kept = retry[t].marked
    <2>1. /\ journal = [journal EXCEPT ![j] = @ + 0] /\ faults = faults + 0
          /\ retry \in [RetryTasks -> [step : S, todo : N, marked : N]]
      BY DEF LedgerInv, Shapes
    <2> HIDE DEF N, S
    <2>2. CASE RetryPost(t, j)
      <3>1. /\ j \in retry[t].todo /\ UNCHANGED <<entry, job>>
            /\ retry' = [retry EXCEPT ![t].todo = todo, ![t].marked = retry[t].marked \cup {j}]
            /\ journal' = [journal EXCEPT ![j] = @ + 1] /\ faults' = faults + 0
        BY <2>1, <2>2 DEF RetryPost, Post
      <3> HIDE DEF todo
      <3> QED
        BY <3>1
    <2>3. CASE RetryRefused(t, j)
      <3>1. /\ j \in retry[t].todo /\ UNCHANGED <<entry, job>>
            /\ retry' = [retry EXCEPT ![t].todo = todo]
            /\ journal' = [journal EXCEPT ![j] = @ + 0] /\ faults' = faults + 0
        BY <2>1, <2>3 DEF RetryRefused
      <3> HIDE DEF todo
      <3> QED
        BY <3>1
    <2>4. CASE RetryReplyLost(t, j)
      <3>1. /\ j \in retry[t].todo /\ UNCHANGED <<entry, job>>
            /\ retry' = [retry EXCEPT ![t].todo = todo]
            /\ journal' = [journal EXCEPT ![j] = @ + 1] /\ faults' = faults + 1
        BY <2>4 DEF RetryReplyLost, Post, Fault
      <3> HIDE DEF todo
      <3> QED
        BY <3>1
    <2> QED
      BY <2>2, <2>3, <2>4
  <1>2. /\ retry \in [RetryTasks -> [step : S, todo : N, marked : N]]
        /\ journal \in [Jobs -> Nat] /\ faults \in Nat
        /\ todo \in N /\ kept \in N
    BY RetryShape DEF LedgerInv, Shapes
  <1>3. \A k \in Jobs :
          /\ k \in retry[t].todo \/ k \in retry[t].marked => Exists(k)
          /\ k \in retry[t].marked => journal[k] > 0 /\ k \notin retry[t].todo
    BY DEF LedgerInv, Marks
  <1>4. \A k \in Jobs : k \in todo <=> k \in retry[t].todo /\ k # j
    OBVIOUS
  <1> HIDE DEF todo, N, S
  <1>5. /\ retry' \in [RetryTasks -> [step : S, todo : N, marked : N]]
        /\ retry'[t].todo = todo /\ retry'[t].marked = kept
        /\ \A u \in RetryTasks : u # t => retry'[u] = retry[u]
    <2>1. CASE retry' = [retry EXCEPT ![t].todo = todo, ![t].marked = kept]
      BY <1>2, <2>1
    <2>2. CASE retry' = [retry EXCEPT ![t].todo = todo] /\ kept = retry[t].marked
      BY <1>2, <2>2
    <2> QED
      BY <1>1, <2>1, <2>2
  <1>6. Replaced(t, todo, kept)
    BY <1>5 DEF Replaced, N, S
  <1>7. /\ journal' \in [Jobs -> Nat] /\ journal'[j] = journal[j] + more /\ faults' \in Nat
        /\ \A k \in Jobs : k # j => journal'[k] = journal[k]
        /\ \A k \in Jobs : journal[k] \in Nat
    BY <1>1, <1>2
  <1>8. \A k \in Jobs :
          /\ k \in todo \/ k \in kept => Exists(k)
          /\ k \in kept => journal'[k] > 0 /\ k \notin todo
          /\ journal[k] <= journal'[k]
    BY <1>1, <1>3, <1>4, <1>7
  <1>9. ASSUME NEW k \in Jobs
        PROVE  /\ journal'[k] - journal[k] <= In(k, kept) - In(k, retry[t].marked) + faults' - faults
               /\ journal'[k] - journal[k] <= In(k, retry[t].todo) - In(k, todo) + faults' - faults
    <2>1. CASE k = j
      <3>1. In(k, todo) = 0 /\ In(k, retry[t].todo) = 1 /\ In(k, retry[t].marked) = 0
        BY <1>1, <1>3, <1>4, <2>1 DEF In
      <3>2. \/ more = 1 /\ lost = 0 /\ In(k, kept) = 1
            \/ more = lost /\ In(k, kept) = 0
        BY <1>1, <1>3, <2>1 DEF In
      <3> QED
        BY <1>1, <1>2, <1>7, <2>1, <3>1, <3>2
    <2>2. CASE k # j
      <3>1. /\ In(k, todo) = In(k, retry[t].todo) /\ In(k, kept) = In(k, retry[t].marked)
            /\ In(k, todo) \in {0, 1} /\ In(k, kept) \in {0, 1}
        BY <1>1, <1>4, <2>2 DEF In
      <3> QED
        BY <1>1, <1>2, <1>7, <2>2, <3>1
    <2> QED
      BY <2>1, <2>2
  <1> QED
    BY <1>1, <1>6, <1>7, <1>8, <1>9, TaskKeeps

\* The task fails: what it had posted and not marked counts as a fault.
LEMMA FailRetryKeeps ==
  ASSUME LedgerAssumption, LedgerInv, NEW t \in RetryTasks, FailRetry(t)
  PROVE  LedgerInv'
  <1>1. /\ UNCHANGED <<entry, job, journal>> /\ faults' = faults + 1
        /\ Replaced(t, {}, {})
    BY Dropped DEF FailRetry, Fault, LedgerInv
  <1>2. journal \in [Jobs -> Nat] /\ faults \in Nat /\ faults' \in Nat
    BY <1>1 DEF LedgerInv, Shapes
  <1>3. \A k \in Jobs : journal[k] <= journal'[k]
    BY <1>1, <1>2
  <1>4. ASSUME NEW k \in Jobs
        PROVE  /\ journal'[k] - journal[k] <= In(k, {}) - In(k, retry[t].marked) + faults' - faults
               /\ journal'[k] - journal[k] <= In(k, retry[t].todo) - In(k, {}) + faults' - faults
    <2>1. In(k, {}) = 0 /\ In(k, retry[t].marked) \in {0, 1} /\ In(k, retry[t].todo) \in {0, 1}
      BY DEF In
    <2> QED
      BY <1>1, <1>2, <2>1
  <1> QED
    BY <1>1, <1>2, <1>3, <1>4, TaskKeeps

\* The task commits its marks: an entry is counted against the tasks at hand
\* from then on.
LEMMA CommitKeeps ==
  ASSUME LedgerAssumption, LedgerInv, NEW t \in RetryTasks, CommitRetry(t)
  PROVE  LedgerInv'
  <1>1. /\ UNCHANGED <<job, journal, faults>> /\ Replaced(t, {}, {}) /\ retry[t].todo = {}
    BY Dropped DEF CommitRetry, LedgerInv
  <1>2. /\ DOMAIN entry' = Jobs
        /\ \A k \in Jobs :
             /\ DOMAIN entry'[k] = {"created_at", "balance_after", "synced"}
             /\ entry'[k].created_at = entry[k].created_at
             /\ k \in retry[t].marked => entry'[k].synced = TRUE
             /\ k \notin retry[t].marked => entry'[k] = entry[k]
    BY DEF CommitRetry, LedgerInv, Shapes
  <1>3. Shapes'
    <2>1. \A k \in Jobs : entry'[k].synced \in BOOLEAN
      BY <1>2 DEF LedgerInv, Shapes
    <2> QED
      BY <1>1, <1>2, <2>1 DEF LedgerInv, Shapes, Replaced
  <1>4. Marks'
    <2>1. \A k \in Jobs : Early(k)' = Early(k) /\ Exists(k)' = Exists(k)
      BY <1>1, <1>2 DEF Early, Exists
    <2>2. \A k \in Jobs : /\ k \in retry[t].marked => Exists(k) /\ journal[k] > 0
                          /\ Early(k) => ~Exists(k) /\ ~entry[k].synced
                          /\ job[k].step = "mark" \/ entry[k].synced => journal[k] > 0
      BY DEF LedgerInv, Marks
    <2>3. \A k \in Jobs : Early(k) => ~Exists(k) /\ ~entry'[k].synced
      BY <1>2, <2>2
    <2>4. \A k \in Jobs : job[k].step = "mark" \/ entry'[k].synced => journal[k] > 0
      BY <1>2, <2>2
    <2>5. \A u \in RetryTasks, k \in Jobs :
            /\ k \in retry'[u].todo \/ k \in retry'[u].marked => Exists(k)
            /\ k \in retry'[u].marked => journal[k] > 0 /\ k \notin retry'[u].todo
      BY <1>1 DEF LedgerInv, Marks, Replaced
    <2> QED
      BY <1>1, <2>1, <2>3, <2>4, <2>5 DEF Marks
  <1>5. ASSUME NEW k \in Jobs PROVE Budget(k)'
    <2>1. /\ Cardinality(Posting(k)') = Cardinality(Posting(k))
          /\ k \notin retry[t].marked => Cardinality(Marking(k)') = Cardinality(Marking(k))
          /\ Cardinality(Posting(k)) \in Nat /\ Cardinality(Marking(k)) \in Nat
          /\ Cardinality(RetryTasks) \in Nat
          /\ journal[k] \in Nat /\ faults \in Nat /\ Due(k) \in {0, 1}
          /\ Budget(k)
      BY <1>1, Recount
    <2>2. Due(k)' = Due(k)
      BY <1>1 DEF Due, Early
    <2>3. Cardinality(Posting(k)) + Cardinality(Marking(k)) <= Cardinality(RetryTasks)
      BY TasksApart DEF LedgerInv
    <2>4. entry[k].synced \in BOOLEAN
      BY DEF LedgerInv, Shapes
    <2> HIDE DEF Due
    <2>5. CASE k \in retry[t].marked
      <3>1. entry'[k].synced
        BY <1>2, <2>5
      <3>2. journal[k] + Due(k) + Cardinality(Posting(k)) <= 1 + Cardinality(RetryTasks) + faults
        BY <2>1, <2>3, <2>4 DEF Budget
      <3> QED
        BY <1>1, <2>1, <2>2, <3>1, <3>2 DEF Budget
    <2>6. CASE k \notin retry[t].marked
      BY <1>1, <1>2, <2>1, <2>2, <2>6 DEF Budget
    <2> QED
      BY <2>5, <2>6
  <1> QED
    BY <1>3, <1>4, <1>5 DEF LedgerInv, Budgets

-----------------------------------------------------------------------------
LEMMA RequestKeeps ==
  ASSUME LedgerAssumption, LedgerInv, NEW j \in Jobs,
         RequestStep(j) \/ ReplyLost(j) \/ FailJob(j)
  PROVE  LedgerInv'
  <1>0. Shapes /\ faults \in Nat
    BY DEF LedgerInv, Shapes
  <1>1. CASE BeginEntry(j)
    <2>1. /\ Moved(j, "read_balance") /\ UNCHANGED <<entry, journal, retry>> /\ faults' = faults
          /\ Early(j)
      BY <1>0, <1>1, JobMoves DEF BeginEntry, ReadyToAdd, Early
    <2> QED
      BY <1>0, <2>1, MoveKeeps DEF JobSteps
  <1>2. CASE VendorNotFound(j)
    <2>1. Moved(j, "done") /\ UNCHANGED <<entry, journal, retry>> /\ faults' = faults
      BY <1>0, <1>2, JobMoves DEF VendorNotFound, Goto
    <2> QED
      BY <1>0, <2>1, MoveKeeps DEF JobSteps
  <1>3. CASE get_current_balance(j)
    <2>1. /\ Moved(j, "insert") /\ UNCHANGED <<entry, journal, retry>> /\ faults' = faults
          /\ Early(j)
      BY <1>0, <1>3, JobMoves DEF get_current_balance, Early
    <2> QED
      BY <1>0, <2>1, MoveKeeps DEF JobSteps
  <1>4. CASE FinanceDown(j)
    <2>1. Moved(j, "schedule") /\ UNCHANGED <<entry, journal, retry>> /\ faults' = faults
      BY <1>0, <1>4, JobMoves DEF FinanceDown, Goto
    <2> QED
      BY <1>0, <2>1, MoveKeeps DEF JobSteps
  <1>5. CASE FailJob(j)
    <2>1. Moved(j, "done") /\ UNCHANGED <<entry, journal, retry>> /\ faults' = faults + 1
      BY <1>0, <1>5, JobMoves DEF FailJob, Goto, Fault
    <2> QED
      BY <1>0, <2>1, MoveKeeps DEF JobSteps
  <1> QED
    BY <1>1, <1>2, <1>3, <1>4, <1>5, AddKeeps, PostKeeps, MarkKeeps DEF RequestStep

LEMMA LedgerStep ==
  ASSUME LedgerAssumption, LedgerInv, LedgerNext
  PROVE  LedgerInv'
  <1>1. CASE delete_vendor
    BY <1>1, StillKeeps DEF delete_vendor, LedgerInv, Shapes
  <1>2. ASSUME NEW j \in Jobs, RequestStep(j) \/ ReplyLost(j) \/ FailJob(j)
        PROVE  LedgerInv'
    BY <1>2, RequestKeeps
  <1>3. ASSUME NEW t \in RetryTasks,
               \/ BeginRetryTask(t) \/ RetryStep(t) \/ FailRetry(t)
               \/ \E j \in Jobs : RetryReplyLost(t, j)
        PROVE  LedgerInv'
    BY <1>3, BeginKeeps, OfferKeeps, CommitKeeps, FailRetryKeeps DEF RetryStep
  <1> QED
    BY <1>1, <1>2, <1>3 DEF LedgerNext

LEMMA InvoiceStep ==
  ASSUME LedgerAssumption, LedgerInv, [InvoiceNext]_allVars
  PROVE  LedgerInv'
  <1>0. Shapes /\ faults \in Nat
    BY DEF LedgerInv, Shapes
  <1>1. ASSUME NEW i \in Invoices, create_invoice(i) PROVE LedgerInv'
    <2>1. /\ i \in Jobs /\ Moved(i, "booked") /\ UNCHANGED <<entry, journal, retry>>
          /\ faults' = faults /\ Early(i)
      BY <1>0, <1>1, JobMoves DEF create_invoice, Goto, Early, Jobs
    <2> QED
      BY <1>0, <2>1, MoveKeeps DEF JobSteps
  <1>2. ASSUME NEW i \in Invoices, ScheduleMatch(i) PROVE LedgerInv'
    <2>1. /\ i \in Jobs /\ Moved(i, "done") /\ UNCHANGED <<entry, journal, retry>>
          /\ faults' = faults
      BY <1>0, <1>2, JobMoves DEF ScheduleMatch, Goto, Jobs
    <2> QED
      BY <1>0, <2>1, MoveKeeps DEF JobSteps
  <1>3. ASSUME NEW s \in Sessions, FailSession(s) PROVE LedgerInv'
    <2>1. UNCHANGED <<entry, journal, job, retry>> /\ faults' = faults + 1
      BY <1>3 DEF FailSession, Fault
    <2> QED
      BY <1>0, <2>1, StillKeeps
  <1>4. ASSUME NEW s \in Sessions, NEW i \in Invoices, Work(s, i) PROVE LedgerInv'
    <2>1. UNCHANGED <<entry, journal, job, retry, faults>>
      BY <1>4 DEF Work, BeginTask, BeginMatch, BeginSweep, ReadListed, BeginUpdate,
                  WriteInvoice, ledgerVars
    <2> QED
      BY <1>0, <2>1, StillKeeps
  <1>5. CASE UNCHANGED allVars
    <2>1. UNCHANGED <<entry, journal, job, retry, faults>>
      BY <1>5 DEF allVars, ledgerVars
    <2> QED
      BY <1>0, <2>1, StillKeeps
  <1> QED
    BY <1>1, <1>2, <1>3, <1>4, <1>5, LedgerStep DEF InvoiceNext

\* The tasks and the counts of postings hold together throughout: requests,
\* retry tasks and their failures (ledger_service.py, invoice_tasks.py).
THEOREM LedgerInvariant == InvoiceSafety => []LedgerInv
  <1>1. InvoicesInit => LedgerInv
    BY LedgerAssumption, LedgerInitial DEF InvoicesInit
  <1>2. LedgerInv /\ [InvoiceNext]_allVars => LedgerInv'
    BY LedgerAssumption, InvoiceStep
  <1> QED
    BY <1>1, <1>2, PTL DEF InvoiceSafety

\* An entry that is marked as mirrored is in Finance's journal (the flag
\* finance_synced of ledger_service.py).
THEOREM SyncedWasPosted == InvoiceSafety => []SyncedIsPosted
  <1>1. LedgerInv => SyncedIsPosted
    BY DEF LedgerInv, Marks, SyncedIsPosted
  <1> QED
    BY <1>1, LedgerInvariant, PTL

\* Finance has an entry once, and once more for each retry task that had read
\* it as unsynced and for each failure at most (retry_unsynced_ledger_entries
\* of invoice_tasks.py).
THEOREM PostingsBounded == InvoiceSafety => []DuplicatesBounded
  <1>1. ASSUME LedgerInv, NEW j \in Jobs
        PROVE  journal[j] <= 1 + Cardinality(RetryTasks) + faults
    <2>1. /\ Cardinality(Posting(j)) \in Nat /\ Cardinality(Marking(j)) \in Nat
          /\ Cardinality(Marking(j)) <= Cardinality(RetryTasks) /\ Cardinality(RetryTasks) \in Nat
      BY LedgerAssumption, TaskSets
    <2>2. /\ journal[j] \in Nat /\ faults \in Nat /\ Due(j) \in {0, 1}
          /\ entry[j].synced \in BOOLEAN /\ Budget(j)
      BY <1>1 DEF LedgerInv, Shapes, Budgets, Due
    <2> HIDE DEF Due
    <2> QED
      BY <2>1, <2>2 DEF Budget
  <1>2. LedgerInv => DuplicatesBounded
    BY <1>1 DEF DuplicatesBounded
  <1> QED
    BY <1>2, LedgerInvariant, PTL

-----------------------------------------------------------------------------
(* The running balance.                                                    *)

Times ==
  /\ begun \in Nat /\ interleaved \in BOOLEAN
  /\ \A j \in Jobs : /\ entry[j].created_at \in Nat /\ entry[j].balance_after \in Int
                     /\ job[j].created_at \in Nat /\ job[j].balance \in Int

\* Requests that add entries one after the other: one at most is at it, it began
\* after every entry there is, and the balance it has read is the sum of them.
Serial ==
  /\ \A j, k \in Jobs : Adding(j) /\ Adding(k) => j = k
  /\ \A j \in Entries : entry[j].created_at <= begun
  /\ \A j \in Jobs : Adding(j) =>
       /\ job[j].created_at \in 1..begun
       /\ \A k \in Entries : entry[k].created_at < job[j].created_at
  /\ \A j \in Jobs : job[j].step = "insert" => job[j].balance = SumOver(Amount, Entries)

BalanceInv ==
  /\ Times
  /\ ~interleaved => Serial
  /\ RunningBalance

LEMMA Amounts ==
  ASSUME LedgerAssumption, NEW S \in SUBSET Jobs
  PROVE  IsFiniteSet(S) /\ \A j \in S : Amount[j] \in Int
  BY FS_Subset DEF LedgerAssumption

\* One of the entries there are is the latest.
LEMMA LatestEntry ==
  ASSUME LedgerAssumption, Times, Entries # {}
  PROVE  \E j \in Entries : \A k \in Entries : entry[k].created_at <= entry[j].created_at
  <1> DEFINE Later(j) == {k \in Entries : entry[j].created_at < entry[k].created_at}
             F == {Later(j) : j \in Entries}
  <1>1. IsFiniteSet(Entries) /\ F \in SUBSET SUBSET Entries /\ F # {}
    <2>1. Entries \in SUBSET Jobs
      BY DEF Entries
    <2>2. \A j \in Entries : Later(j) \in F
      OBVIOUS
    <2> QED
      BY <2>1, <2>2, Amounts
  <1>2. PICK L \in F : \A M \in F : M \subseteq L => M = L
    <2> HIDE DEF F
    <2> QED
      BY <1>1, LeastSet
  <1>3. PICK j \in Entries : L = Later(j)
    BY <1>2
  <1>4. \A k \in Entries : entry[k].created_at \in Nat
    BY DEF Times, Entries
  <1>5. ASSUME NEW k \in Later(j)
        PROVE  FALSE
    <2>1. Later(k) \subseteq Later(j)
      BY <1>4
    <2>2. k \notin Later(k)
      BY <1>4
    <2>3. Later(k) = Later(j)
      <3>1. Later(k) \in F
        OBVIOUS
      <3> QED
        BY <1>2, <1>3, <2>1, <3>1
    <2> QED
      BY <2>2, <2>3
  <1> QED
    BY <1>4, <1>5

\* The balance of the latest entry is the sum of all.
LEMMA LatestBalance ==
  ASSUME LedgerAssumption, Times
  PROVE  /\ Latest \in Int
         /\ ~interleaved /\ RunningBalance => Latest = SumOver(Amount, Entries)
  <1>1. CASE Entries = {}
    <2>1. SumOver(Amount, Entries) = 0
      BY <1>1, SumEmpty
    <2> QED
      BY <1>1, <2>1 DEF Latest
  <1>2. CASE Entries # {}
    <2> DEFINE T == {entry[j].created_at : j \in Entries}
               last == Max(T)
               j == CHOOSE k \in Entries : entry[k].created_at = last
    <2>1. PICK m \in Entries : \A k \in Entries : entry[k].created_at <= entry[m].created_at
      BY <1>2, LatestEntry
    <2>2. last \in T /\ \A t \in T : t <= last
      <3>1. \E t \in T : \A u \in T : t >= u
        <4>1. entry[m].created_at \in T /\ entry[m].created_at \in Nat
          BY DEF Times, Entries
        <4>2. \A k \in Entries : entry[m].created_at >= entry[k].created_at
          <5>1. \A k \in Entries : entry[k].created_at \in Nat
            BY DEF Times, Entries
          <5> QED
            BY <2>1, <4>1, <5>1
        <4>3. \A u \in T : entry[m].created_at >= u
          BY <4>2
        <4> HIDE DEF T
        <4> QED
          BY <4>1, <4>3
      <3>2. last = CHOOSE t \in T : \A u \in T : t >= u
        BY DEF Max
      <3>3. \A t \in T : t \in Nat
        BY DEF Times, Entries
      <3> HIDE DEF last, T
      <3> QED
        BY <3>1, <3>2, <3>3
    <2>3. j \in Entries /\ entry[j].created_at = last
      BY <2>2
    <2>4. Latest = entry[j].balance_after
      BY <1>2 DEF Latest
    <2>5. {k \in Entries : entry[k].created_at <= entry[j].created_at} = Entries
      BY <2>2, <2>3
    <2> HIDE DEF j, last
    <2>6. Latest \in Int
      BY <2>3, <2>4 DEF Times, Entries
    <2>7. ASSUME ~interleaved, RunningBalance
          PROVE  entry[j].balance_after = SumOver(Amount, Entries)
      BY <2>3, <2>5, <2>7 DEF RunningBalance
    <2> QED
      BY <2>4, <2>6, <2>7
  <1> QED
    BY <1>1, <1>2

LEMMA BalanceInitial ==
  ASSUME LedgerInit
  PROVE  BalanceInv
  <1>1. Times /\ Entries = {}
    <2>1. \A j \in Jobs : entry[j] = NoEntry /\ job[j] = NewJob
      BY DEF LedgerInit
    <2>2. begun \in Nat /\ interleaved \in BOOLEAN
      BY DEF LedgerInit
    <2> QED
      BY <2>1, <2>2 DEF Times, NoEntry, NewJob, Entries, Exists
  <1>2. \A j \in Jobs : job[j].step = "new"
    BY DEF LedgerInit, NewJob
  <1> QED
    BY <1>1, <1>2 DEF BalanceInv, Serial, Adding, RunningBalance

\* A step that adds no entry and begins none.
Quiet ==
  /\ \A j \in Jobs : /\ entry'[j].created_at = entry[j].created_at
                     /\ entry'[j].balance_after = entry[j].balance_after
                     /\ job'[j].created_at = job[j].created_at
                     /\ job'[j].balance = job[j].balance
                     /\ Adding(j)' => job'[j].step = job[j].step
  /\ UNCHANGED <<begun, interleaved>>

LEMMA QuietKeeps ==
  ASSUME BalanceInv, Quiet
  PROVE  BalanceInv'
  <1>1. Entries' = Entries
    BY DEF Quiet, Entries, Exists
  <1>2. Times'
    BY DEF BalanceInv, Quiet, Times
  <1>3. ASSUME ~interleaved, Serial
        PROVE  Serial'
    <2>1. \A j \in Jobs : Adding(j)' => Adding(j)
      BY DEF Quiet, Adding
    <2>2. \A j \in Jobs : job'[j].step = "insert" => job[j].step = "insert"
      BY DEF Quiet, Adding
    <2>3. SumOver(Amount, Entries)' = SumOver(Amount, Entries)
      BY <1>1
    <2>4. \A j \in Entries : j \in Jobs
      BY DEF Entries
    <2> QED
      BY <1>1, <1>3, <2>1, <2>2, <2>3, <2>4 DEF Quiet, Serial
  <1>4. RunningBalance'
    <2> SUFFICES ASSUME ~interleaved', NEW j \in Entries'
                 PROVE  (entry[j].balance_after =
                           SumOver(Amount, {k \in Entries : entry[k].created_at <= entry[j].created_at}))'
      BY DEF RunningBalance
    <2>1. j \in Jobs /\ j \in Entries
      BY <1>1 DEF Entries
    <2>2. {k \in Entries' : entry'[k].created_at <= entry'[j].created_at}
            = {k \in Entries : entry[k].created_at <= entry[j].created_at}
      BY <1>1, <2>1 DEF Quiet, Entries
    <2>3. entry'[j].balance_after =
            SumOver(Amount, {k \in Entries : entry[k].created_at <= entry[j].created_at})
      BY <2>1 DEF BalanceInv, RunningBalance, Quiet
    <2> QED
      BY <2>2, <2>3
  <1> QED
    BY <1>2, <1>3, <1>4 DEF BalanceInv, Quiet

\* The entries and their balances stay.
LEMMA BooksKept ==
  ASSUME RunningBalance, Times, UNCHANGED entry, interleaved => interleaved'
  PROVE  Entries' = Entries /\ SumOver(Amount, Entries)' = SumOver(Amount, Entries)
         /\ RunningBalance'
  <1>1. Entries' = Entries
    BY DEF Entries, Exists
  <1>2. ASSUME ~interleaved', NEW j \in Entries
        PROVE  (entry[j].balance_after =
                  SumOver(Amount, {k \in Entries : entry[k].created_at <= entry[j].created_at}))'
    <2>1. {k \in Entries' : entry'[k].created_at <= entry'[j].created_at}
            = {k \in Entries : entry[k].created_at <= entry[j].created_at}
      BY <1>1
    <2>2. entry[j].balance_after =
            SumOver(Amount, {k \in Entries : entry[k].created_at <= entry[j].created_at})
      BY <1>2 DEF RunningBalance
    <2> QED
      BY <2>1, <2>2
  <1>3. RunningBalance'
    BY <1>1, <1>2 DEF RunningBalance
  <1> QED
    BY <1>1, <1>3

LEMMA BeginBalanced ==
  ASSUME Shapes, BalanceInv, NEW j \in Jobs, BeginEntry(j)
  PROVE  BalanceInv'
  <1>1. /\ begun' = begun + 1 /\ begun \in Nat /\ UNCHANGED entry
        /\ job'[j].step = "read_balance" /\ job'[j].created_at = begun + 1
        /\ job'[j].balance = job[j].balance
        /\ \A k \in Jobs : k # j => job'[k] = job[k]
        /\ interleaved' = (interleaved \/ \E k \in Jobs : Adding(k))
    BY DEF BeginEntry, Shapes, BalanceInv, Times
  <1>2. interleaved \in BOOLEAN /\ interleaved' \in BOOLEAN
    BY <1>1 DEF BalanceInv, Times
  <1>3. Times'
    BY <1>1, <1>2 DEF BalanceInv, Times
  <1>4. /\ Entries' = Entries /\ SumOver(Amount, Entries)' = SumOver(Amount, Entries)
        /\ RunningBalance'
    BY <1>1, <1>2, BooksKept DEF BalanceInv
  <1>5. ASSUME ~interleaved'
        PROVE  Serial'
    <2>1. Serial /\ \A k \in Jobs : ~Adding(k)
      BY <1>1, <1>5 DEF BalanceInv
    <2>2. \A k \in Jobs : Adding(k)' => k = j
      BY <1>1, <2>1 DEF Adding
    <2>3. \A k \in Entries : k \in Jobs /\ entry[k].created_at \in Nat
      BY DEF BalanceInv, Times, Entries
    <2>4. \A k \in Entries : entry[k].created_at <= begun
      BY <2>1 DEF Serial
    <2>5. \A k \in Jobs : job'[k].step # "insert"
      BY <1>1, <2>2 DEF Adding
    <2>6. job'[j].created_at \in 1..begun'
      BY <1>1
    <2>7. \A k \in Entries' : /\ entry'[k].created_at <= begun'
                              /\ entry'[k].created_at < job'[j].created_at
      BY <1>1, <1>4, <2>3, <2>4
    <2> QED
      BY <2>2, <2>5, <2>6, <2>7 DEF Serial
  <1> QED
    BY <1>3, <1>4, <1>5 DEF BalanceInv

LEMMA ReadBalanced ==
  ASSUME LedgerAssumption, Shapes, BalanceInv, NEW j \in Jobs, get_current_balance(j)
  PROVE  BalanceInv'
  <1>1. /\ UNCHANGED <<entry, begun, interleaved>>
        /\ job[j].step = "read_balance" /\ job'[j].step = "insert"
        /\ job'[j].balance = Latest /\ job'[j].created_at = job[j].created_at
        /\ \A k \in Jobs : k # j => job'[k] = job[k]
    BY DEF get_current_balance, Shapes
  <1>2. Latest \in Int /\ (~interleaved => Latest = SumOver(Amount, Entries))
    BY LatestBalance DEF BalanceInv
  <1>3. Times'
    BY <1>1, <1>2 DEF BalanceInv, Times
  <1>4. /\ Entries' = Entries /\ SumOver(Amount, Entries)' = SumOver(Amount, Entries)
        /\ RunningBalance'
    BY <1>1, BooksKept DEF BalanceInv
  <1>5. ASSUME ~interleaved'
        PROVE  Serial'
    <2>1. Serial /\ Latest = SumOver(Amount, Entries)
      BY <1>1, <1>2, <1>5 DEF BalanceInv
    <2>2. \A k \in Jobs : Adding(k)' => Adding(k) /\ job'[k].created_at = job[k].created_at
      BY <1>1 DEF Adding
    <2>3. \A k \in Jobs : job'[k].step = "insert" => job'[k].balance = SumOver(Amount, Entries)
      BY <1>1, <2>1 DEF Serial
    <2> QED
      BY <1>1, <1>4, <2>1, <2>2, <2>3 DEF Serial
  <1> QED
    BY <1>1, <1>3, <1>4, <1>5 DEF BalanceInv

\* The entry that is committed is later than those there are, and takes the sum
\* that its request has read on.
LEMMA AddBalanced ==
  ASSUME LedgerAssumption, Shapes, Marks, BalanceInv, NEW j \in Jobs, add_ledger_entry(j)
  PROVE  BalanceInv'
  <1>1. /\ UNCHANGED <<begun, interleaved>>
        /\ job[j].step = "insert" /\ job'[j].step \in {"post", "done"}
        /\ job'[j].created_at = job[j].created_at /\ job'[j].balance = job[j].balance
        /\ \A k \in Jobs : k # j => job'[k] = job[k]
    BY DEF add_ledger_entry, Goto, Shapes
  <1>2. /\ entry'[j].created_at = job[j].created_at
        /\ entry'[j].balance_after = job[j].balance + Amount[j]
        /\ \A k \in Jobs : k # j => entry'[k] = entry[k]
    BY DEF add_ledger_entry, Shapes
  <1>3. ~Exists(j) /\ Adding(j) /\ Amount[j] \in Int
    BY <1>1, Amounts DEF Marks, Early, Adding
  <1>4. Times'
    BY <1>1, <1>2, <1>3 DEF BalanceInv, Times
  <1>5. ASSUME ~interleaved'
        PROVE  Serial' /\ RunningBalance'
    <2>1. Serial
      BY <1>1, <1>5 DEF BalanceInv
    <2>2. /\ job[j].created_at \in 1..begun
          /\ \A k \in Entries : entry[k].created_at < job[j].created_at
          /\ job[j].balance = SumOver(Amount, Entries)
      BY <1>1, <1>3, <2>1 DEF Serial
    <2>3. Entries' = Entries \cup {j} /\ j \notin Entries /\ Entries \in SUBSET Jobs
      <3>1. Exists(j)'
        BY <1>2, <2>2 DEF Exists
      <3>2. \A k \in Jobs : k # j => (Exists(k)' <=> Exists(k))
        BY <1>2 DEF Exists
      <3>3. Exists(j)' /\ \A k \in Jobs : Exists(k)' <=> Exists(k) \/ k = j
        BY <3>1, <3>2
      <3> HIDE DEF Exists
      <3> QED
        BY <1>3, <3>3 DEF Entries
    <2>4. \A k \in Jobs : ~Adding(k)'
      BY <1>1, <1>3, <2>1 DEF Serial, Adding
    <2>5. begun \in Nat /\ \A k \in Entries : k # j /\ entry[k].created_at \in Nat
                                              /\ entry'[k] = entry[k]
      BY <1>2, <2>3 DEF BalanceInv, Times, Entries
    <2>6. Serial'
      <3>1. \A k \in Entries' : entry'[k].created_at <= begun
        BY <1>2, <2>1, <2>2, <2>3, <2>5 DEF Serial
      <3> QED
        BY <1>1, <2>4, <3>1 DEF Serial, Adding
    <2>7. ASSUME NEW k \in Entries'
          PROVE  (entry[k].balance_after =
                    SumOver(Amount, {m \in Entries : entry[m].created_at <= entry[k].created_at}))'
      <3> DEFINE UpTo == {m \in Entries' : entry'[m].created_at <= entry'[k].created_at}
      <3>1. CASE k = j
        <4>1. UpTo = Entries \cup {j}
          BY <1>2, <2>2, <2>3, <2>5, <3>1
        <4>2. SumOver(Amount, Entries \cup {j}) = SumOver(Amount, Entries) + Amount[j]
          BY <1>3, <2>3, Amounts, SumAdd
        <4> QED
          BY <1>2, <2>2, <3>1, <4>1, <4>2
      <3>2. CASE k # j
        <4>1. k \in Entries
          BY <2>3, <3>2
        <4>2. UpTo = {m \in Entries : entry[m].created_at <= entry[k].created_at}
          BY <1>2, <2>2, <2>3, <2>5, <4>1
        <4>3. entry[k].balance_after =
                SumOver(Amount, {m \in Entries : entry[m].created_at <= entry[k].created_at})
          BY <1>1, <1>5, <4>1 DEF BalanceInv, RunningBalance
        <4> QED
          BY <2>5, <4>1, <4>2, <4>3
      <3> QED
        BY <3>1, <3>2
    <2> QED
      BY <2>6, <2>7 DEF RunningBalance
  <1> QED
    BY <1>4, <1>5 DEF BalanceInv, RunningBalance

\* A step of one request that neither begins, reads nor adds.
LEMMA MovedQuiet ==
  ASSUME Shapes, NEW j \in Jobs, NEW step, Goto(j, step),
         step \notin {"read_balance", "insert"},
         UNCHANGED <<entry, begun, interleaved>>
  PROVE  Quiet
  <1>1. /\ \A k \in Jobs : /\ job'[k].created_at = job[k].created_at
                           /\ job'[k].balance = job[k].balance
        /\ \A k \in Jobs : job'[k].step = IF k = j THEN step ELSE job[k].step
    BY DEF Goto, Shapes
  <1> QED
    BY <1>1 DEF Quiet, Adding

LEMMA StillQuiet ==
  ASSUME UNCHANGED <<entry, job, begun, interleaved>>
  PROVE  Quiet
  BY DEF Quiet, Adding

LEMMA RequestBalanced ==
  ASSUME LedgerAssumption, Shapes, Marks, BalanceInv, NEW j \in Jobs,
         RequestStep(j) \/ ReplyLost(j) \/ FailJob(j)
  PROVE  BalanceInv'
  <1>1. CASE VendorNotFound(j) \/ FinanceDown(j) \/ ReplyLost(j) \/ FailJob(j) \/ PostEntry(j)
    <2>1. \E step \in {"done", "schedule", "mark"} : Goto(j, step)
      BY <1>1 DEF VendorNotFound, FinanceDown, ReplyLost, FailJob, PostEntry
    <2>2. UNCHANGED <<entry, begun, interleaved>>
      BY <1>1 DEF VendorNotFound, FinanceDown, ReplyLost, FailJob, PostEntry
    <2> QED
      BY <2>1, <2>2, MovedQuiet, QuietKeeps
  <1>2. CASE MarkSynced(j)
    <2>1. /\ \A k \in Jobs : /\ job'[k].created_at = job[k].created_at
                             /\ job'[k].balance = job[k].balance
          /\ \A k \in Jobs : job'[k].step = IF k = j THEN "schedule" ELSE job[k].step
      BY <1>2 DEF MarkSynced, Goto, Shapes
    <2>2. \A k \in Jobs : /\ entry'[k].created_at = entry[k].created_at
                         /\ entry'[k].balance_after = entry[k].balance_after
      BY <1>2 DEF MarkSynced, Shapes
    <2>3. Quiet
      BY <1>2, <2>1, <2>2 DEF Quiet, Adding, MarkSynced
    <2> QED
      BY <2>3, QuietKeeps
  <1> QED
    BY <1>1, <1>2, BeginBalanced, ReadBalanced, AddBalanced DEF RequestStep

LEMMA RetryBalanced ==
  ASSUME Shapes, BalanceInv, NEW t \in RetryTasks,
         \/ BeginRetryTask(t) \/ RetryStep(t) \/ FailRetry(t)
         \/ \E j \in Jobs : RetryReplyLost(t, j)
  PROVE  BalanceInv'
  <1>1. CASE CommitRetry(t)
    <2>1. \A k \in Jobs : /\ entry'[k].created_at = entry[k].created_at
                         /\ entry'[k].balance_after = entry[k].balance_after
      BY <1>1 DEF CommitRetry, Shapes
    <2>2. Quiet
      BY <1>1, <2>1 DEF Quiet, Adding, CommitRetry
    <2> QED
      BY <2>2, QuietKeeps
  <1>2. CASE ~CommitRetry(t)
    BY <1>2, StillQuiet, QuietKeeps
    DEF BeginRetryTask, RetryStep, FailRetry, RetryReplyLost, RetryPost, RetryRefused
  <1> QED
    BY <1>1, <1>2

LEMMA BalanceStep ==
  ASSUME LedgerAssumption, Shapes, Marks, BalanceInv, [InvoiceNext]_allVars
  PROVE  BalanceInv'
  <1>1. ASSUME NEW i \in Invoices, create_invoice(i) \/ ScheduleMatch(i)
        PROVE  BalanceInv'
    <2>1. i \in Jobs /\ \E step \in {"booked", "done"} : Goto(i, step)
      BY <1>1 DEF create_invoice, ScheduleMatch, Jobs
    <2>2. UNCHANGED <<entry, begun, interleaved>>
      BY <1>1 DEF create_invoice, ScheduleMatch
    <2> QED
      BY <2>1, <2>2, MovedQuiet, QuietKeeps
  <1>2. ASSUME NEW s \in Sessions, FailSession(s) \/ \E i \in Invoices : Work(s, i)
        PROVE  BalanceInv'
    BY <1>2, StillQuiet, QuietKeeps
    DEF FailSession, Work, BeginTask, BeginMatch, BeginSweep, ReadListed, BeginUpdate,
        WriteInvoice, ledgerVars
  <1>3. CASE delete_vendor
    BY <1>3, StillQuiet, QuietKeeps DEF delete_vendor
  <1>4. CASE UNCHANGED allVars
    BY <1>4, StillQuiet, QuietKeeps DEF allVars, ledgerVars
  <1> QED
    BY <1>1, <1>2, <1>3, <1>4, RequestBalanced, RetryBalanced DEF InvoiceNext, LedgerNext

LEMMA BalanceInvariant == InvoiceSafety => []BalanceInv
  <1>1. InvoicesInit => BalanceInv
    BY BalanceInitial DEF InvoicesInit
  <1>2. LedgerInv /\ BalanceInv /\ [InvoiceNext]_allVars => BalanceInv'
    BY LedgerAssumption, BalanceStep DEF LedgerInv
  <1> QED
    BY <1>1, <1>2, LedgerInvariant, PTL DEF InvoiceSafety

\* While requests add entries one after the other, the balance of each entry is
\* the sum of the entries up to it, however retries, matches and failures
\* interleave with them (add_ledger_entry of vendor_service.py).
THEOREM BalancesAddUp == InvoiceSafety => []RunningBalance
  <1>1. BalanceInv => RunningBalance
    BY DEF BalanceInv
  <1> QED
    BY <1>1, BalanceInvariant, PTL
-----------------------------------------------------------------------------
(* Invoices and their entries.                                             *)

\* Invoices whose request is over with no entry.
Lost == {i \in Invoices : job[i].step = "done" /\ ~Exists(i)}

BookInv ==
  /\ \A j \in Jobs : Adding(j) => job[j].created_at > 0
  /\ \A i \in Invoices : job[i].step \in {"post", "mark", "schedule"} => Exists(i)
  /\ is_deleted \/ Cardinality(Lost) <= faults

\* A step that loses one invoice at most, and none without a failure.
LEMMA BookKept ==
  ASSUME LedgerAssumption, BookInv, faults \in Nat, faults' \in Nat, is_deleted => is_deleted',
         \A j \in Jobs : Adding(j)' => job'[j].created_at > 0,
         \A i \in Invoices : job'[i].step \in {"post", "mark", "schedule"} => Exists(i)',
         \/ is_deleted
         \/ Lost' \subseteq Lost /\ faults <= faults'
         \/ faults' = faults + 1 /\ \E i \in Invoices : Lost' \subseteq Lost \cup {i}
  PROVE  BookInv'
  <1>1. IsFiniteSet(Lost) /\ Cardinality(Lost) \in Nat
    <2>1. Lost \in SUBSET Jobs /\ IsFiniteSet(Jobs)
      BY DEF Lost, Jobs, LedgerAssumption
    <2> QED
      BY <2>1, FS_Subset, FS_CardinalityType
  <1>2. CASE Lost' \subseteq Lost /\ faults <= faults'
    <2>1. Cardinality(Lost') <= Cardinality(Lost) /\ Cardinality(Lost') \in Nat
      BY <1>1, <1>2, FS_Subset, FS_CardinalityType
    <2> QED
      BY <1>1, <1>2, <2>1 DEF BookInv
  <1>3. ASSUME faults' = faults + 1, NEW i \in Invoices, Lost' \subseteq Lost \cup {i}
        PROVE  BookInv'
    <2>1. /\ IsFiniteSet(Lost \cup {i})
          /\ Cardinality(Lost \cup {i}) \in {Cardinality(Lost), Cardinality(Lost) + 1}
      BY <1>1, FS_AddElement
    <2>2. Cardinality(Lost') <= Cardinality(Lost \cup {i}) /\ Cardinality(Lost') \in Nat
      BY <1>3, <2>1, FS_Subset, FS_CardinalityType
    <2> QED
      BY <1>1, <1>3, <2>1, <2>2 DEF BookInv
  <1>4. CASE is_deleted
    BY <1>4 DEF BookInv
  <1> QED
    BY <1>2, <1>3, <1>4

\* A step after which the requests stand where they stood.
LEMMA BookStill ==
  ASSUME LedgerAssumption, BookInv, UNCHANGED job, is_deleted => is_deleted',
         faults \in Nat, faults' \in Nat, faults <= faults',
         \A j \in Jobs : Exists(j)' = Exists(j)
  PROVE  BookInv'
  <1>1. Lost' \subseteq Lost
    BY DEF Lost, Jobs
  <1>2. \A j \in Jobs : Adding(j)' => job'[j].created_at > 0
    BY DEF BookInv, Adding
  <1>3. \A i \in Invoices : job'[i].step \in {"post", "mark", "schedule"} => Exists(i)'
    BY DEF BookInv, Jobs
  <1> QED
    BY <1>1, <1>2, <1>3, BookKept

\* A request that goes on to a step, its entry being there when it must be.
LEMMA BookMoved ==
  ASSUME LedgerAssumption, Shapes, BookInv, NEW j \in Jobs, NEW step, Goto(j, step),
         UNCHANGED is_deleted, faults' \in Nat, faults <= faults',
         step \notin {"read_balance", "insert"},
         \A k \in Jobs : Exists(k) => Exists(k)',
         step \in {"post", "mark", "schedule"} /\ j \in Invoices => Exists(j)',
         \/ is_deleted
         \/ step = "done" /\ j \in Invoices => Exists(j)'
         \/ faults' = faults + 1
  PROVE  BookInv'
  <1>1. /\ Moved(j, step) /\ faults \in Nat
        /\ \A k \in Jobs : job'[k].created_at = job[k].created_at
    BY JobMoves DEF Goto, Shapes
  <1>2. \A k \in Jobs : Adding(k)' => job'[k].created_at > 0
    BY <1>1 DEF BookInv, Adding, Moved
  <1>3. \A i \in Invoices : job'[i].step \in {"post", "mark", "schedule"} => Exists(i)'
    BY <1>1 DEF BookInv, Moved, Jobs
  <1>4. j \in Invoices => Lost' \subseteq Lost \cup {j}
    BY <1>1 DEF Lost, Moved, Jobs
  <1>5. (step = "done" /\ j \in Invoices => Exists(j)') => Lost' \subseteq Lost
    BY <1>1 DEF Lost, Moved, Jobs
  <1> QED
    BY <1>1, <1>2, <1>3, <1>4, <1>5, BookKept

LEMMA RequestBooked ==
  ASSUME LedgerAssumption, Shapes, Marks, Times, BookInv, NEW j \in Jobs,
         RequestStep(j) \/ ReplyLost(j) \/ FailJob(j)
  PROVE  BookInv'
  <1>0. faults \in Nat /\ begun \in Nat /\ \A k \in Jobs : Exists(k) <=> entry[k].created_at > 0
    BY DEF Shapes, Times, Exists
  <1>1. ASSUME NEW step, \/ BeginEntry(j) /\ step = "read_balance"
                         \/ get_current_balance(j) /\ step = "insert"
        PROVE  BookInv'
    <2>1. /\ Moved(j, step) /\ UNCHANGED <<entry, is_deleted, faults>>
          /\ job'[j].created_at > 0
          /\ \A k \in Jobs : k # j => job'[k] = job[k]
      <3>1. CASE BeginEntry(j) /\ step = "read_balance"
        <4>1. Moved(j, step)
          BY <3>1, JobMoves DEF BeginEntry
        <4>2. job' = [job EXCEPT ![j].step = step, ![j].created_at = begun + 1]
          BY <3>1 DEF BeginEntry
        <4>3. job'[j].created_at = begun + 1 /\ \A k \in Jobs : k # j => job'[k] = job[k]
          BY <4>2 DEF Shapes
        <4>4. UNCHANGED <<entry, is_deleted, faults>> /\ begun + 1 > 0
          BY <1>0, <3>1 DEF BeginEntry
        <4> QED
          BY <4>1, <4>3, <4>4
      <3>2. CASE get_current_balance(j) /\ step = "insert"
        <4>1. Moved(j, step)
          BY <3>2, JobMoves DEF get_current_balance
        <4>2. job' = [job EXCEPT ![j].step = step, ![j].balance = Latest]
          BY <3>2 DEF get_current_balance
        <4>3. /\ job'[j].created_at = job[j].created_at
              /\ \A k \in Jobs : k # j => job'[k] = job[k]
          BY <4>2 DEF Shapes
        <4> QED
          BY <3>2, <4>1, <4>3 DEF get_current_balance, BookInv, Adding
      <3> QED
        BY <1>1, <3>1, <3>2
    <2>2. Lost' \subseteq Lost
      BY <1>1, <2>1 DEF Lost, Moved, Exists, Jobs
    <2>3. \A k \in Jobs : Adding(k)' => job'[k].created_at > 0
      BY <2>1 DEF BookInv, Adding
    <2>4. \A i \in Invoices : job'[i].step \in {"post", "mark", "schedule"} => Exists(i)'
      BY <1>1, <2>1 DEF BookInv, Moved, Exists, Jobs
    <2> QED
      BY <1>0, <2>1, <2>2, <2>3, <2>4, BookKept
  <1>2. CASE add_ledger_entry(j)
    <2> DEFINE step == IF j \in Invoices THEN "post" ELSE "done"
    <2>1. job[j].created_at > 0 /\ Goto(j, step) /\ UNCHANGED <<is_deleted, faults>>
      BY <1>2 DEF add_ledger_entry, BookInv, Adding
    <2>2. Exists(j)' /\ \A k \in Jobs : Exists(k) => Exists(k)'
      BY <1>2, <2>1 DEF add_ledger_entry, Exists, Shapes
    <2> QED
      BY <1>0, <2>1, <2>2, BookMoved
  <1>3. CASE VendorNotFound(j)
    BY <1>0, <1>3, BookMoved DEF VendorNotFound, Exists
  <1>4. CASE FinanceDown(j) \/ PostEntry(j) \/ ReplyLost(j)
    <2>1. PICK step \in {"mark", "schedule"} : Goto(j, step)
      BY <1>4 DEF FinanceDown, PostEntry, ReplyLost
    <2>2. /\ UNCHANGED <<entry, is_deleted>> /\ faults' \in {faults, faults + 1}
          /\ job[j].step = "post"
      BY <1>4 DEF FinanceDown, PostEntry, ReplyLost, Fault
    <2> QED
      BY <1>0, <2>1, <2>2, BookMoved DEF Exists, BookInv
  <1>5. CASE MarkSynced(j)
    <2>1. \A k \in Jobs : entry'[k].created_at = entry[k].created_at
      BY <1>5 DEF MarkSynced, Shapes
    <2>2. /\ Goto(j, "schedule") /\ UNCHANGED <<is_deleted, faults>> /\ job[j].step = "mark"
      BY <1>5 DEF MarkSynced
    <2> QED
      BY <1>0, <2>1, <2>2, BookMoved DEF Exists, BookInv
  <1>6. CASE FailJob(j)
    <2>1. /\ Goto(j, "done") /\ UNCHANGED <<entry, is_deleted>> /\ faults' = faults + 1
      BY <1>6 DEF FailJob, Fault
    <2> QED
      BY <1>0, <2>1, BookMoved DEF Exists
  <1> QED
    BY <1>1, <1>2, <1>3, <1>4, <1>5, <1>6 DEF RequestStep

LEMMA BookStep ==
  ASSUME LedgerAssumption, Shapes, Marks, Times, BookInv, [InvoiceNext]_allVars
  PROVE  BookInv'
  <1>0. faults \in Nat
    BY DEF Shapes
  <1>1. ASSUME NEW i \in Invoices, create_invoice(i) PROVE BookInv'
    BY <1>0, <1>1, BookMoved DEF create_invoice, Jobs, Exists
  <1>2. ASSUME NEW i \in Invoices, ScheduleMatch(i) PROVE BookInv'
    BY <1>0, <1>2, BookMoved DEF ScheduleMatch, Jobs, Exists, BookInv
  <1>3. ASSUME NEW s \in Sessions, FailSession(s) \/ \E i \in Invoices : Work(s, i)
        PROVE  BookInv'
    <2>1. UNCHANGED <<job, entry, is_deleted>> /\ faults' \in {faults, faults + 1}
      BY <1>3 DEF FailSession, Fault, Work, BeginTask, BeginMatch, BeginSweep, ReadListed,
                  BeginUpdate, WriteInvoice, ledgerVars
    <2> QED
      BY <1>0, <2>1, BookStill DEF Exists
  <1>4. CASE delete_vendor \/ UNCHANGED allVars
    <2>1. UNCHANGED <<job, entry, faults>> /\ (is_deleted => is_deleted')
      BY <1>4 DEF delete_vendor, allVars, ledgerVars
    <2> QED
      BY <1>0, <2>1, BookStill DEF Exists
  <1>5. ASSUME NEW t \in RetryTasks,
               \/ BeginRetryTask(t) \/ RetryStep(t) \/ FailRetry(t)
               \/ \E j \in Jobs : RetryReplyLost(t, j)
        PROVE  BookInv'
    <2>1. CASE CommitRetry(t)
      <3>1. \A j \in Jobs : entry'[j].created_at = entry[j].created_at
        BY <2>1 DEF CommitRetry, Shapes
      <3>2. UNCHANGED <<job, is_deleted, faults>>
        BY <2>1 DEF CommitRetry
      <3> QED
        BY <1>0, <3>1, <3>2, BookStill DEF Exists
    <2>2. CASE ~CommitRetry(t)
      <3>1. UNCHANGED <<job, entry, is_deleted>> /\ faults' \in {faults, faults + 1}
        BY <1>5, <2>2 DEF BeginRetryTask, RetryStep, FailRetry, RetryReplyLost, RetryPost,
                          RetryRefused, Fault
      <3> QED
        BY <1>0, <3>1, BookStill DEF Exists
    <2> QED
      BY <2>1, <2>2
  <1> QED
    BY <1>1, <1>2, <1>3, <1>4, <1>5, RequestBooked DEF InvoiceNext, LedgerNext

\* An invoice whose request is over is booked on its vendor's ledger, but for
\* one invoice at most for each failure, and those of a vendor deleted between
\* the commit of the invoice and that of its entry (invoice_service.py:72).
THEOREM InvoicesBooked == InvoiceSafety => []UnbookedExplained
  <1>1. InvoicesInit => BookInv
    <2> SUFFICES ASSUME InvoicesInit PROVE BookInv
      OBVIOUS
    <2>1. \A j \in Jobs : job[j].step = "new"
      BY DEF InvoicesInit, LedgerInit, NewJob
    <2>2. Lost = {}
      BY <2>1 DEF Lost, Jobs
    <2>3. Cardinality(Lost) = 0 /\ faults = 0
      BY <2>2, FS_EmptySet DEF InvoicesInit, LedgerInit
    <2> QED
      BY <2>1, <2>3 DEF BookInv, Adding, Jobs
  <1>2. LedgerInv /\ BalanceInv /\ BookInv /\ [InvoiceNext]_allVars => BookInv'
    BY LedgerAssumption, BookStep DEF LedgerInv, BalanceInv
  <1>3. LedgerInv /\ BookInv => UnbookedExplained
    <2> SUFFICES ASSUME LedgerInv, BookInv, ~is_deleted PROVE Cardinality(Unbooked) <= faults
      BY DEF UnbookedExplained
    <2>1. Unbooked \subseteq Lost /\ Lost \in SUBSET Jobs /\ IsFiniteSet(Jobs)
      BY LedgerAssumption DEF Unbooked, Lost, Jobs, LedgerAssumption
    <2>2. /\ Cardinality(Unbooked) <= Cardinality(Lost)
          /\ Cardinality(Unbooked) \in Nat /\ Cardinality(Lost) \in Nat
      BY <2>1, FS_Subset, FS_CardinalityType
    <2> QED
      BY <2>2 DEF LedgerInv, Shapes, BookInv
  <1> QED
    BY <1>1, <1>2, <1>3, LedgerInvariant, BalanceInvariant, PTL DEF InvoiceSafety

-----------------------------------------------------------------------------
(* The types of the invoices and of the ledger they are booked on.         *)

LEMMA LedgerInitiallyTyped == ASSUME LedgerAssumption, LedgerInit PROVE LedgerTypeOK
  <1> USE DEF LedgerInit
  <1>1. entry \in [Jobs -> [created_at : Nat, balance_after : Int, synced : BOOLEAN]]
    BY DEF NoEntry
  <1>2. job \in [Jobs -> [step : JobSteps, created_at : Nat, balance : Int]]
    BY DEF NewJob, JobSteps
  <1>3. retry \in [RetryTasks -> [step : {"idle", "retry"}, todo : SUBSET Jobs,
                                 marked : SUBSET Jobs]]
    BY DEF NoRetry
  <1>4. faults \in 0..MaxFaults /\ begun \in Nat /\ journal \in [Jobs -> Nat]
    BY DEF LedgerAssumption
  <1> QED
    BY <1>1, <1>2, <1>3, <1>4 DEF LedgerTypeOK

\* One field of a row is set.
LEMMA JobSet ==
  ASSUME NEW f \in [Jobs -> [step : JobSteps, created_at : Nat, balance : Int]], NEW j \in Jobs,
         NEW step \in JobSteps, NEW time \in Nat, NEW amount \in Int
  PROVE  /\ [f EXCEPT ![j].step = step, ![j].created_at = time]
              \in [Jobs -> [step : JobSteps, created_at : Nat, balance : Int]]
         /\ [f EXCEPT ![j].step = step, ![j].balance = amount]
              \in [Jobs -> [step : JobSteps, created_at : Nat, balance : Int]]
  <1> DEFINE Row == [step : JobSteps, created_at : Nat, balance : Int]
             g == [f EXCEPT ![j].step = step]
  <1>1. g \in [Jobs -> Row]
    OBVIOUS
  <1>2. [g EXCEPT ![j].created_at = time] = [f EXCEPT ![j].step = step, ![j].created_at = time]
    OBVIOUS
  <1>3. [g EXCEPT ![j].balance = amount] = [f EXCEPT ![j].step = step, ![j].balance = amount]
    OBVIOUS
  <1> HIDE DEF g
  <1>4. /\ [g EXCEPT ![j].created_at = time] \in [Jobs -> Row]
        /\ [g EXCEPT ![j].balance = amount] \in [Jobs -> Row]
    BY <1>1
  <1> QED
    BY <1>2, <1>3, <1>4

LEMMA EntrySynced ==
  ASSUME NEW row \in [created_at : Nat, balance_after : Int, synced : BOOLEAN]
  PROVE  [row EXCEPT !.synced = TRUE] \in [created_at : Nat, balance_after : Int, synced : BOOLEAN]
  OBVIOUS

\* What a fault and a step of a request leave.
LEMMA FaultTyped == ASSUME LedgerAssumption, LedgerTypeOK, Fault PROVE faults' \in 0..MaxFaults
  BY DEF LedgerAssumption, LedgerTypeOK, Fault

LEMMA GotoTyped ==
  ASSUME LedgerTypeOK, NEW j \in Jobs, NEW step \in JobSteps, Goto(j, step)
  PROVE  job' \in [Jobs -> [step : JobSteps, created_at : Nat, balance : Int]]
  BY DEF LedgerTypeOK, Goto

LEMMA PostTyped ==
  ASSUME LedgerTypeOK, NEW j \in Jobs, Post(j)
  PROVE  journal' \in [Jobs -> Nat]
  BY DEF LedgerTypeOK, Post

LEMMA RequestTyped ==
  ASSUME LedgerAssumption, LedgerTypeOK, NEW j \in Jobs,
         RequestStep(j) \/ ReplyLost(j) \/ FailJob(j)
  PROVE  LedgerTypeOK'
  <1>1. CASE BeginEntry(j)
    <2>1. begun \in Nat /\ interleaved \in BOOLEAN
      BY DEF LedgerTypeOK
    <2>2. job' = [job EXCEPT ![j].step = "read_balance", ![j].created_at = begun + 1]
      BY <1>1 DEF BeginEntry
    <2>3. begun + 1 \in Nat /\ "read_balance" \in JobSteps
      BY <2>1 DEF JobSteps
    <2>4. job' \in [Jobs -> [step : JobSteps, created_at : Nat, balance : Int]]
      BY <2>2, <2>3, JobSet DEF LedgerTypeOK
    <2>5. begun' \in Nat /\ interleaved' \in BOOLEAN
      BY <1>1, <2>1 DEF BeginEntry
    <2> QED
      BY <1>1, <2>4, <2>5 DEF BeginEntry, LedgerTypeOK
  <1>2. CASE VendorNotFound(j) \/ FinanceDown(j)
    <2>1. job' \in [Jobs -> [step : JobSteps, created_at : Nat, balance : Int]]
      BY <1>2, GotoTyped DEF VendorNotFound, FinanceDown, JobSteps
    <2> QED
      BY <1>2, <2>1 DEF VendorNotFound, FinanceDown, LedgerTypeOK
  <1>3. CASE get_current_balance(j)
    <2>1. Times
      BY DEF LedgerTypeOK, Times
    <2>2. Latest \in Int
      BY <2>1, LatestBalance
    <2>3. job' = [job EXCEPT ![j].step = "insert", ![j].balance = Latest]
      BY <1>3 DEF get_current_balance
    <2>4. "insert" \in JobSteps
      BY DEF JobSteps
    <2>5. job' \in [Jobs -> [step : JobSteps, created_at : Nat, balance : Int]]
      BY <2>2, <2>3, <2>4, JobSet DEF LedgerTypeOK
    <2> QED
      BY <1>3, <2>5 DEF get_current_balance, LedgerTypeOK
  <1>4. CASE add_ledger_entry(j)
    <2>1. Amount[j] \in Int
      BY DEF LedgerAssumption
    <2>2. entry' \in [Jobs -> [created_at : Nat, balance_after : Int, synced : BOOLEAN]]
      BY <1>4, <2>1 DEF add_ledger_entry, LedgerTypeOK
    <2>3. job' \in [Jobs -> [step : JobSteps, created_at : Nat, balance : Int]]
      BY <1>4, GotoTyped DEF add_ledger_entry, JobSteps
    <2> QED
      BY <1>4, <2>2, <2>3 DEF add_ledger_entry, LedgerTypeOK
  <1>5. CASE PostEntry(j)
    <2>1. job' \in [Jobs -> [step : JobSteps, created_at : Nat, balance : Int]]
      BY <1>5, GotoTyped DEF PostEntry, JobSteps
    <2> QED
      BY <1>5, <2>1, PostTyped DEF PostEntry, LedgerTypeOK
  <1>6. CASE MarkSynced(j)
    <2>1. job' \in [Jobs -> [step : JobSteps, created_at : Nat, balance : Int]]
      BY <1>6, GotoTyped DEF MarkSynced, JobSteps
    <2>2. entry' \in [Jobs -> [created_at : Nat, balance_after : Int, synced : BOOLEAN]]
      BY <1>6, EntrySynced DEF MarkSynced, LedgerTypeOK
    <2> QED
      BY <1>6, <2>1, <2>2 DEF MarkSynced, LedgerTypeOK
  <1>7. CASE ReplyLost(j)
    <2>1. job' \in [Jobs -> [step : JobSteps, created_at : Nat, balance : Int]]
      BY <1>7, GotoTyped DEF ReplyLost, JobSteps
    <2> QED
      BY <1>7, <2>1, PostTyped, FaultTyped DEF ReplyLost, LedgerTypeOK
  <1>8. CASE FailJob(j)
    <2>1. job' \in [Jobs -> [step : JobSteps, created_at : Nat, balance : Int]]
      BY <1>8, GotoTyped DEF FailJob, JobSteps
    <2> QED
      BY <1>8, <2>1, FaultTyped DEF FailJob, LedgerTypeOK
  <1> QED
    BY <1>1, <1>2, <1>3, <1>4, <1>5, <1>6, <1>7, <1>8 DEF RequestStep

\* A retry task is done with one entry.
LEMMA TodoTyped ==
  ASSUME LedgerTypeOK, NEW t \in RetryTasks, NEW j \in Jobs,
         \/ retry' = [retry EXCEPT ![t].todo = @ \ {j}, ![t].marked = @ \cup {j}]
         \/ retry' = [retry EXCEPT ![t].todo = @ \ {j}]
  PROVE  retry' \in [RetryTasks -> [step : {"idle", "retry"}, todo : SUBSET Jobs,
                                   marked : SUBSET Jobs]]
  <1> DEFINE Task == [step : {"idle", "retry"}, todo : SUBSET Jobs, marked : SUBSET Jobs]
             kept(m) == [step |-> retry[t].step, todo |-> retry[t].todo \ {j}, marked |-> m]
  <1>1. retry \in [RetryTasks -> Task] /\ retry[t] \in Task
    BY DEF LedgerTypeOK
  <1>2. \/ retry' = [retry EXCEPT ![t] = kept(retry[t].marked \cup {j})]
        \/ retry' = [retry EXCEPT ![t] = kept(retry[t].marked)]
    BY <1>1
  <1>3. kept(retry[t].marked \cup {j}) \in Task /\ kept(retry[t].marked) \in Task
    BY <1>1
  <1> HIDE DEF Task, kept
  <1>4. retry' \in [RetryTasks -> Task]
    BY <1>1, <1>2, <1>3
  <1> QED
    BY <1>4 DEF Task

LEMMA RetryTyped ==
  ASSUME LedgerAssumption, LedgerTypeOK, NEW t \in RetryTasks,
         \/ BeginRetryTask(t) \/ RetryStep(t) \/ FailRetry(t)
         \/ \E j \in Jobs : RetryReplyLost(t, j)
  PROVE  LedgerTypeOK'
  <1>1. CASE BeginRetryTask(t)
    <2>1. {j \in Entries : ~entry[j].synced} \in SUBSET Jobs
      BY DEF Entries
    <2> QED
      BY <1>1, <2>1 DEF BeginRetryTask, LedgerTypeOK
  <1>2. CASE CommitRetry(t)
    <2>1. entry' \in [Jobs -> [created_at : Nat, balance_after : Int, synced : BOOLEAN]]
      <3>1. \A j \in Jobs :
              entry'[j] \in [created_at : Nat, balance_after : Int, synced : BOOLEAN]
        BY <1>2, EntrySynced DEF CommitRetry, LedgerTypeOK
      <3>2. entry' = [j \in Jobs |-> entry'[j]]
        BY <1>2 DEF CommitRetry
      <3> QED
        BY <3>1, <3>2
    <2>2. retry' \in [RetryTasks -> [step : {"idle", "retry"}, todo : SUBSET Jobs,
                                    marked : SUBSET Jobs]]
      BY <1>2 DEF CommitRetry, LedgerTypeOK, NoRetry
    <2> QED
      BY <1>2, <2>1, <2>2 DEF CommitRetry, LedgerTypeOK
  <1>3. CASE FailRetry(t)
    BY <1>3, FaultTyped DEF FailRetry, LedgerTypeOK, NoRetry
  <1>4. ASSUME NEW j \in Jobs, RetryPost(t, j) PROVE LedgerTypeOK'
    <2>1. retry' \in [RetryTasks -> [step : {"idle", "retry"}, todo : SUBSET Jobs,
                                    marked : SUBSET Jobs]]
      BY <1>4, TodoTyped DEF RetryPost
    <2> QED
      BY <1>4, <2>1, PostTyped DEF RetryPost, LedgerTypeOK
  <1>5. ASSUME NEW j \in Jobs, RetryRefused(t, j) PROVE LedgerTypeOK'
    BY <1>5, TodoTyped DEF RetryRefused, LedgerTypeOK
  <1>6. ASSUME NEW j \in Jobs, RetryReplyLost(t, j) PROVE LedgerTypeOK'
    <2>1. retry' \in [RetryTasks -> [step : {"idle", "retry"}, todo : SUBSET Jobs,
                                    marked : SUBSET Jobs]]
      BY <1>6, TodoTyped DEF RetryReplyLost
    <2> QED
      BY <1>6, <2>1, PostTyped, FaultTyped DEF RetryReplyLost, LedgerTypeOK
  <1> QED
    BY <1>1, <1>2, <1>3, <1>4, <1>5, <1>6 DEF RetryStep

LEMMA LedgerNextTyped ==
  ASSUME LedgerAssumption, LedgerTypeOK, LedgerNext
  PROVE  LedgerTypeOK'
  <1>1. CASE delete_vendor
    BY <1>1 DEF delete_vendor, LedgerTypeOK
  <1> QED
    BY <1>1, RequestTyped, RetryTyped DEF LedgerNext

\* The sessions that match an invoice or set its status.
LEMMA WorkTyped ==
  ASSUME InvoiceAssumption, InvoiceTypeOK, NEW s \in Sessions, NEW i \in Invoices, Work(s, i)
  PROVE  InvoiceTypeOK'
  <1>1. inv_status[i] \in InvoiceStatuses /\ Verdict(i) \in InvoiceStatuses
    BY DEF InvoiceTypeOK, Verdict, InvoiceStatuses
  <1>2. ASSUME NEW work \in {"task", "request"}, NEW update \in InvoiceStatuses,
               Open(s, work, i, update), UNCHANGED <<inv_status, reconcile, ledgerVars>>
        PROVE  InvoiceTypeOK'
    BY <1>1, <1>2 DEF Open, InvoiceTypeOK, LedgerTypeOK, ledgerVars
  <1>3. CASE BeginTask(s, i) \/ BeginMatch(s, i)
    BY <1>1, <1>2, <1>3 DEF BeginTask, BeginMatch
  <1>4. ASSUME NEW status \in ByHand, BeginUpdate(s, i, status) PROVE InvoiceTypeOK'
    BY <1>2, <1>4 DEF BeginUpdate, InvoiceAssumption
  <1>5. CASE BeginSweep(s, i)
    <2> DEFINE Session == [work : {"idle", "task", "request", "listed", "sweep"},
                           invoice : Invoices \cup {NoInvoice},
                           read : InvoiceStatuses, update : InvoiceStatuses]
    <2>1. session \in [Sessions -> Session]
      BY DEF InvoiceTypeOK
    <2>2. [[session EXCEPT ![s].work = "listed"] EXCEPT ![s].invoice = i] \in [Sessions -> Session]
      <3> DEFINE listed == [session EXCEPT ![s].work = "listed"]
      <3>1. listed \in [Sessions -> Session]
        BY <2>1
      <3> HIDE DEF listed
      <3>2. [listed EXCEPT ![s].invoice = i] \in [Sessions -> Session]
        BY <3>1
      <3> QED
        BY <3>2 DEF listed
    <2>3. session' \in [Sessions -> Session]
      BY <1>5, <2>2 DEF BeginSweep
    <2> QED
      BY <1>5, <2>3 DEF BeginSweep, InvoiceTypeOK, LedgerTypeOK, ledgerVars, Session
  <1>6. CASE ReadListed(s, i)
    BY <1>1, <1>6 DEF ReadListed, InvoiceTypeOK, LedgerTypeOK, ledgerVars
  <1>7. CASE WriteInvoice(s, i)
    <2>1. LedgerTypeOK'
      BY <1>7 DEF WriteInvoice, InvoiceTypeOK, LedgerTypeOK, ledgerVars
    <2> QED
      BY <1>7, <2>1 DEF WriteInvoice, InvoiceTypeOK, NoSession, InvoiceStatuses
  <1> QED
    BY <1>3, <1>4, <1>5, <1>6, <1>7 DEF Work

LEMMA InvoiceNextTyped ==
  ASSUME LedgerAssumption, InvoiceAssumption, InvoiceTypeOK, [InvoiceNext]_allVars
  PROVE  InvoiceTypeOK'
  <1>0. LedgerTypeOK
    BY DEF InvoiceTypeOK
  <1>1. ASSUME NEW i \in Invoices, create_invoice(i) PROVE InvoiceTypeOK'
    <2>1. job' \in [Jobs -> [step : JobSteps, created_at : Nat, balance : Int]]
      BY <1>0, <1>1, GotoTyped DEF create_invoice, JobSteps, Jobs
    <2>2. LedgerTypeOK'
      BY <1>0, <1>1, <2>1 DEF create_invoice, LedgerTypeOK
    <2> QED
      BY <1>1, <2>2 DEF create_invoice, InvoiceTypeOK, InvoiceStatuses
  <1>2. ASSUME NEW i \in Invoices, ScheduleMatch(i) PROVE InvoiceTypeOK'
    <2>1. job' \in [Jobs -> [step : JobSteps, created_at : Nat, balance : Int]]
      BY <1>0, <1>2, GotoTyped DEF ScheduleMatch, JobSteps, Jobs
    <2>2. LedgerTypeOK'
      BY <1>0, <1>2, <2>1 DEF ScheduleMatch, LedgerTypeOK
    <2> QED
      BY <1>2, <2>2 DEF ScheduleMatch, InvoiceTypeOK
  <1>3. ASSUME NEW s \in Sessions, FailSession(s) PROVE InvoiceTypeOK'
    <2>1. LedgerTypeOK'
      BY <1>0, <1>3, FaultTyped DEF FailSession, LedgerTypeOK
    <2> QED
      BY <1>3, <2>1 DEF FailSession, InvoiceTypeOK, NoSession, InvoiceStatuses
  <1>4. CASE LedgerNext /\ UNCHANGED invoiceVars
    BY <1>0, <1>4, LedgerNextTyped DEF invoiceVars, InvoiceTypeOK
  <1>5. CASE UNCHANGED allVars
    BY <1>5 DEF allVars, ledgerVars, invoiceVars, InvoiceTypeOK, LedgerTypeOK
  <1> QED
    BY <1>1, <1>2, <1>3, <1>4, <1>5, WorkTyped DEF InvoiceNext

\* The invoices, their tasks and sessions, and the ledger with its requests keep
\* their types, and no status is outside the enumeration of the invoices
\* (invoice_service.py, vendor_service.py).
THEOREM InvoicesTyped == InvoiceSafety => []InvoiceTypeOK
  <1>1. InvoicesInit => InvoiceTypeOK
    BY LedgerInitiallyTyped, LedgerAssumption
    DEF InvoicesInit, InvoiceInit, InvoiceTypeOK, NoSession, InvoiceStatuses
  <1>2. InvoiceTypeOK /\ [InvoiceNext]_allVars => InvoiceTypeOK'
    BY InvoiceNextTyped, LedgerAssumption, InvoiceAssumption
  <1> QED
    BY <1>1, <1>2, PTL DEF InvoiceSafety
-----------------------------------------------------------------------------
(* Invoices that nothing matches any more.                                 *)

\* No match is started for the invoice, and its status is not written.
LEMMA StaysConcluded ==
  ASSUME NEW i \in Invoices, Concluded(i),
         job'[i].step = job[i].step, inv_status'[i] = inv_status[i], i \notin reconcile',
         \A s \in Sessions : \/ session'[s] = session[s]
                             \/ session'[s].invoice # i \/ session'[s].work = "request"
  PROVE  inv_status'[i] = inv_status[i] /\ Concluded(i)'
  BY DEF Concluded, MatchComing

\* What a session does to an invoice, this one or another.
LEMMA WorkConcluded ==
  ASSUME InvoiceAssumption, InvoiceTypeOK, NEW i \in Invoices, Concluded(i),
         NEW s \in Sessions, NEW k \in Invoices, Work(s, k)
  PROVE  (inv_status'[i] = inv_status[i] /\ Concluded(i)') \/ SetByRequest(i)
  <1> DEFINE Session == [work : {"idle", "task", "request", "listed", "sweep"},
                         invoice : Invoices \cup {NoInvoice},
                         read : InvoiceStatuses, update : InvoiceStatuses]
  <1>0. /\ session \in [Sessions -> Session] /\ inv_status \in [Invoices -> InvoiceStatuses]
        /\ NoInvoice \notin Invoices
    BY DEF InvoiceTypeOK, InvoiceAssumption
  <1>1. /\ job[i].step = "done" /\ i \notin reconcile /\ inv_status[i] # "received"
        /\ session[s].invoice = i => session[s].work = "request"
    BY DEF Concluded, MatchComing
  <1>2. ASSUME NEW x, session' = [session EXCEPT ![s] = x], x.invoice # i \/ x.work = "request",
               UNCHANGED job, inv_status'[i] = inv_status[i], reconcile' \subseteq reconcile
        PROVE  inv_status'[i] = inv_status[i] /\ Concluded(i)'
    <2>1. \A u \in Sessions : session'[u] = session[u] \/ session'[u] = x
      BY <1>0, <1>2
    <2> QED
      BY <1>1, <1>2, <2>1, StaysConcluded
  <1>3. ASSUME NEW work, NEW update, Open(s, work, k, update), work = "request" \/ k # i,
               UNCHANGED <<inv_status, reconcile, ledgerVars>>
        PROVE  inv_status'[i] = inv_status[i] /\ Concluded(i)'
    BY <1>2, <1>3 DEF Open, ledgerVars
  <1>4. CASE BeginTask(s, k)
    BY <1>1, <1>3, <1>4 DEF BeginTask
  <1>5. CASE BeginMatch(s, k)
    BY <1>3, <1>5 DEF BeginMatch
  <1>6. ASSUME NEW status \in ByHand, BeginUpdate(s, k, status)
        PROVE  inv_status'[i] = inv_status[i] /\ Concluded(i)'
    BY <1>3, <1>6 DEF BeginUpdate
  <1>7. CASE BeginSweep(s, k)
    <2>1. k # i
      BY <1>1, <1>7 DEF BeginSweep
    <2> DEFINE x == [[session[s] EXCEPT !.work = "listed"] EXCEPT !.invoice = k]
    <2>2. session' = [session EXCEPT ![s] = x] /\ x.invoice = k
      BY <1>0, <1>7 DEF BeginSweep
    <2> HIDE DEF x
    <2> QED
      BY <1>2, <1>7, <2>1, <2>2 DEF BeginSweep, ledgerVars
  <1>8. CASE ReadListed(s, k)
    BY <1>1, <1>2, <1>8 DEF ReadListed, ledgerVars
  <1>9. CASE WriteInvoice(s, k)
    <2>1. CASE k = i
      BY <1>0, <1>1, <1>9, <2>1 DEF WriteInvoice, SetByRequest
    <2>2. CASE k # i
      BY <1>0, <1>2, <1>9, <2>2 DEF WriteInvoice, NoSession, ledgerVars
    <2> QED
      BY <2>1, <2>2
  <1> QED
    BY <1>4, <1>5, <1>6, <1>7, <1>8, <1>9 DEF Work

LEMMA ConcludedStep ==
  ASSUME InvoiceAssumption, InvoiceTypeOK, [InvoiceNext]_allVars, NEW i \in Invoices, Concluded(i)
  PROVE  (inv_status'[i] = inv_status[i] /\ Concluded(i)') \/ SetByRequest(i)
  <1>0. /\ session \in [Sessions -> [work : {"idle", "task", "request", "listed", "sweep"},
                                     invoice : Invoices \cup {NoInvoice},
                                     read : InvoiceStatuses, update : InvoiceStatuses]]
        /\ inv_status \in [Invoices -> InvoiceStatuses]
        /\ job \in [Jobs -> [step : JobSteps, created_at : Nat, balance : Int]]
        /\ NoInvoice \notin Invoices /\ i \in Jobs
    BY DEF InvoiceTypeOK, LedgerTypeOK, InvoiceAssumption, Jobs
  <1>1. job[i].step = "done" /\ i \notin reconcile
    BY DEF Concluded, MatchComing
  <1>2. ASSUME NEW k \in Invoices, create_invoice(k) \/ ScheduleMatch(k)
        PROVE  inv_status'[i] = inv_status[i] /\ Concluded(i)'
    <2>1. k # i /\ UNCHANGED session
      BY <1>1, <1>2 DEF create_invoice, ScheduleMatch
    <2>2. job'[i] = job[i] /\ inv_status'[i] = inv_status[i] /\ i \notin reconcile'
      BY <1>0, <1>1, <1>2, <2>1 DEF create_invoice, ScheduleMatch, Goto
    <2> QED
      BY <2>1, <2>2, StaysConcluded
  <1>3. ASSUME NEW s \in Sessions, FailSession(s)
        PROVE  inv_status'[i] = inv_status[i] /\ Concluded(i)'
    <2>1. \A u \in Sessions : session'[u] = session[u] \/ session'[u].invoice = NoInvoice
      BY <1>0, <1>3 DEF FailSession, NoSession
    <2>2. UNCHANGED <<job, inv_status>> /\ i \notin reconcile'
      BY <1>1, <1>3 DEF FailSession
    <2> QED
      BY <1>0, <2>1, <2>2, StaysConcluded
  <1>4. CASE LedgerNext /\ UNCHANGED invoiceVars
    <2>1. job'[i].step = job[i].step
      <3>1. ASSUME NEW j \in Jobs, RequestStep(j) \/ ReplyLost(j) \/ FailJob(j)
            PROVE  job'[i].step = job[i].step
        <4>1. job[j].step # "done"
          BY <3>1 DEF RequestStep, BeginEntry, VendorNotFound, ReadyToAdd, get_current_balance,
                      add_ledger_entry, PostEntry, MarkSynced, FinanceDown, ReplyLost, FailJob
        <4>2. \A m \in Jobs : m # j => job'[m] = job[m]
          BY <1>0, <3>1 DEF RequestStep, BeginEntry, VendorNotFound, get_current_balance,
                      add_ledger_entry, PostEntry, MarkSynced, FinanceDown, ReplyLost, FailJob, Goto
        <4> QED
          BY <1>0, <1>1, <4>1, <4>2
      <3>2. ASSUME NEW t \in RetryTasks, \/ BeginRetryTask(t) \/ RetryStep(t) \/ FailRetry(t)
                                         \/ \E j \in Jobs : RetryReplyLost(t, j)
            PROVE  UNCHANGED job
        BY <3>2 DEF BeginRetryTask, RetryStep, FailRetry, RetryReplyLost, CommitRetry, RetryPost,
                    RetryRefused
      <3>3. ASSUME delete_vendor PROVE UNCHANGED job
        BY <3>3 DEF delete_vendor
      <3> QED
        BY <1>4, <3>1, <3>2, <3>3 DEF LedgerNext
    <2> QED
      BY <1>1, <1>4, <2>1, StaysConcluded DEF invoiceVars
  <1>5. CASE UNCHANGED allVars
    BY <1>1, <1>5, StaysConcluded DEF allVars, ledgerVars, invoiceVars
  <1> QED
    BY <1>2, <1>3, <1>4, <1>5, WorkConcluded DEF InvoiceNext

\* A match writes MATCHED or DISPUTED over whatever status an invoice has, but
\* one that has left RECEIVED keeps its status unless a request changes it or a
\* match that was on its way comes late (invoice_service.py:177).
THEOREM InvoicesKeptUnlessAsked == InvoiceSafety => KeptUnlessAsked
  <1>1. InvoiceTypeOK /\ [InvoiceNext]_allVars =>
          [\A i \in Invoices : Concluded(i) =>
             \/ inv_status'[i] = inv_status[i] /\ Concluded(i)'
             \/ SetByRequest(i)]_allVars
    BY ConcludedStep, InvoiceAssumption
  <1> QED
    BY <1>1, InvoicesTyped, PTL DEF InvoiceSafety, KeptUnlessAsked
=============================================================================
