--------------------------- MODULE CommerceProofs ---------------------------
(***************************************************************************)
(* Proofs about what a customer deals with: payments and refunds, returns, *)
(* addresses, invoices as documents, and the rating of a product; for any  *)
(* orders, refunds, requests, workers, addresses and reviews.              *)
(*                                                                         *)
(* Each part has an inductive invariant of its own.  It says what a        *)
(* request or a task that is under way has read and is about to write, of  *)
(* the rows that no other has touched meanwhile: the history variables of  *)
(* the models name the rows for which nothing can be said.  The parts      *)
(* share no variable.                                                      *)
(***************************************************************************)
EXTENDS Payments, Returns, Addresses, InvoicePdfs, ProductReviews,
  SumTheorems, FiniteSetTheorems, TLAPS

-----------------------------------------------------------------------------
(* Payments and refunds.                                                   *)

\* The types the proof needs.  What a refund has counted, a sum over a set, is
\* left untyped.
Shapes ==
  /\ payment \in [Orders -> [status : PaymentStatuses,
                             reference : {"none", "session", "transaction"}]]
  /\ charge \in [Orders -> {"none", "open", "declined", "charged"}]
  /\ hooks \in [Orders -> SUBSET {"success", "failed", "pending"}]
  /\ delivery \in [Deliveries -> [order : Orders \cup {NoOrder}, read : PaymentStatuses,
                                  update : PaymentStatuses]]
  /\ DOMAIN refund = Refunds
  /\ \A f \in Refunds : /\ DOMAIN refund[f] = {"step", "order", "before"}
                        /\ refund[f].step \in {"call", "insert"} => refund[f].order \in Orders
  /\ paid_back \in [Orders -> Nat]

Charged(o) == charge[o] = "charged"

\* Everything that can make a payment count as paid goes back to a charge: the
\* webhooks that are sent, those that are being handled, the statuses, and the
\* refunds that are under way.
TracedToCharge ==
  /\ \A o \in Orders : "success" \in hooks[o] => Charged(o)
  /\ \A d \in Deliveries : delivery[d] # NoDelivery =>
       /\ delivery[d].order \in Orders
       /\ delivery[d].update # "refunded"
       /\ delivery[d].update = "success" => Charged(delivery[d].order)
  /\ \A f \in Refunds : refund[f].step \in {"call", "insert"} => Charged(refund[f].order)
  /\ PaidIsCharged

TraceInv == Shapes /\ TracedToCharge

LEMMA TraceInit ==
  ASSUME PaymentAssumption, PaymentsInit
  PROVE  TraceInv
  <1> USE DEF PaymentsInit, NoPayment, NoDelivery, NewRefund, PaymentStatuses
  <1>1. Shapes
    BY DEF Shapes
  <1>2. TracedToCharge
    BY DEF TracedToCharge, PaidIsCharged, Charged
  <1> QED
    BY <1>1, <1>2 DEF TraceInv

\* A charge is never taken back.
LEMMA ChargeIsFinal ==
  ASSUME Shapes, [PaymentsNext]_paymentVars, NEW o \in Orders, Charged(o)
  PROVE  Charged(o)'
  <1> USE DEF Shapes, Charged
  <1>1. CASE UNCHANGED charge
    BY <1>1
  <1>2. ASSUME NEW c \in Checkouts, OpenSession(c) PROVE Charged(o)'
    BY <1>2 DEF OpenSession
  <1>3. ASSUME NEW x \in Orders, Gateway(x) PROVE Charged(o)'
    BY <1>3 DEF Gateway, Charge, Decline, ReportPending
  <1> QED
    BY <1>1, <1>2, <1>3 DEF PaymentsNext, paymentVars, CreatePayment, BeginPayment,
       AllGatewaysFail, InsertPayment, providerVars, reconcile, Webhook, ReceiveHook,
       CommitHook, FailHook, Refund, BeginRefund, ReturnMoney, RefuseRefund,
       CommitRefund, LoseRefund, import_settlements

\* The requests that create payments, and the gateway.
LEMMA CheckoutStep ==
  ASSUME PaymentAssumption, TraceInv, [PaymentsNext]_paymentVars,
         \/ \E c \in Checkouts : CreatePayment(c)
         \/ \E o \in Orders : Gateway(o) \/ reconcile(o)
         \/ \E report \in SUBSET Orders : import_settlements(report)
  PROVE  TraceInv'
  <1> USE DEF TraceInv, Shapes
  <1>0. \A o \in Orders : Charged(o) => Charged(o)'
    BY ChargeIsFinal
  <1>1. CASE UNCHANGED <<payment, hooks, delivery, refund, paid_back>> /\ UNCHANGED charge
    BY <1>0, <1>1 DEF TracedToCharge, PaidIsCharged, Charged
  <1>2. ASSUME NEW c \in Checkouts, OpenSession(c) PROVE TraceInv'
    <2>1. /\ UNCHANGED <<payment, hooks, delivery, refund, paid_back>>
          /\ charge' \in [Orders -> {"none", "open", "declined", "charged"}]
      BY <1>2 DEF OpenSession, refundVars
    <2> QED
      BY <1>0, <2>1 DEF TracedToCharge, PaidIsCharged, Charged
  <1>3. ASSUME NEW c \in Checkouts, InsertPayment(c) PROVE TraceInv'
    <2>1. /\ UNCHANGED <<charge, hooks, delivery, refund, paid_back>>
          /\ payment' \in [Orders -> [status : PaymentStatuses,
                                      reference : {"none", "session", "transaction"}]]
          /\ \A o \in Orders : payment'[o].status = payment[o].status \/ payment'[o].status = "pending"
      BY <1>3 DEF InsertPayment, refundVars, providerVars, PaymentStatuses
    <2> QED
      BY <2>1 DEF TracedToCharge, PaidIsCharged, Charged
  <1>4. ASSUME NEW o \in Orders, Gateway(o) PROVE TraceInv'
    <2> DEFINE Charges == [Orders -> {"none", "open", "declined", "charged"}]
    <2> DEFINE Reports == [Orders -> SUBSET {"success", "failed", "pending"}]
    <2>1. UNCHANGED <<payment, delivery, refund, paid_back>>
      BY <1>4 DEF Gateway, refundVars
    <2>2. ASSUME Charge(o) PROVE /\ charge' \in Charges /\ hooks' \in Reports
                                 /\ charge'[o] = "charged"
                                 /\ \A x \in Orders : x # o => hooks'[x] = hooks[x]
      BY <2>2 DEF Charge
    <2>3. ASSUME Decline(o)
          PROVE  /\ charge' \in Charges /\ hooks' \in Reports
                 /\ \A x \in Orders : "success" \in hooks'[x] => "success" \in hooks[x]
      BY <2>3 DEF Decline
    <2>4. ASSUME ReportPending(o)
          PROVE  /\ charge' \in Charges /\ hooks' \in Reports
                 /\ \A x \in Orders : "success" \in hooks'[x] => "success" \in hooks[x]
      BY <2>4 DEF ReportPending
    <2>5. /\ charge' \in Charges /\ hooks' \in Reports
          /\ \A x \in Orders : "success" \in hooks'[x] => "success" \in hooks[x] \/ Charged(x)'
      <3> HIDE DEF Charges, Reports
      <3> QED
        BY <1>4, <2>2, <2>3, <2>4 DEF Gateway, Charged
    <2> QED
      BY <1>0, <2>1, <2>5 DEF TracedToCharge, PaidIsCharged, Charged
  <1> QED
    BY <1>1, <1>2, <1>3, <1>4 DEF CreatePayment, BeginPayment, AllGatewaysFail, reconcile,
       import_settlements, providerVars, refundVars

\* The webhooks: a status is written that the gateway has sent.
LEMMA WebhookStep ==
  ASSUME PaymentAssumption, TraceInv, NEW d \in Deliveries, Webhook(d)
  PROVE  TraceInv'
  <1> USE DEF TraceInv, Shapes
  <1>1. ASSUME NEW o \in Orders, NEW status \in {"success", "failed", "pending"},
               ReceiveHook(d, o, status)
        PROVE  TraceInv'
    <2>1. /\ UNCHANGED <<payment, charge, hooks, refund, paid_back>>
          /\ delivery' \in [Deliveries -> [order : Orders \cup {NoOrder}, read : PaymentStatuses,
                                           update : PaymentStatuses]]
          /\ \A x \in Deliveries : x # d => delivery'[x] = delivery[x]
          /\ delivery'[d] = [order |-> o, read |-> payment[o].status, update |-> status]
          /\ status \in hooks[o]
      BY <1>1 DEF ReceiveHook, providerVars, refundVars, PaymentStatuses
    <2> QED
      BY <2>1 DEF TracedToCharge, PaidIsCharged, Charged
  <1>2. ASSUME CommitHook(d) PROVE TraceInv'
    <2> DEFINE o == delivery[d].order
    <2>1. /\ delivery[d] # NoDelivery /\ o \in Orders
          /\ delivery[d].update # "refunded" /\ (delivery[d].update = "success" => Charged(o))
      BY <1>2 DEF CommitHook, NoDelivery, TracedToCharge
    <2>2. /\ UNCHANGED <<charge, hooks, refund, paid_back>>
          /\ payment' \in [Orders -> [status : PaymentStatuses,
                                      reference : {"none", "session", "transaction"}]]
          /\ \A x \in Orders : x # o => payment'[x] = payment[x]
          /\ payment'[o].status \in {payment[o].status, delivery[d].update}
      BY <1>2, <2>1 DEF CommitHook, providerVars, refundVars
    <2>3. /\ delivery' \in [Deliveries -> [order : Orders \cup {NoOrder}, read : PaymentStatuses,
                                           update : PaymentStatuses]]
          /\ \A x \in Deliveries : delivery'[x] \in {delivery[x], NoDelivery}
      BY <1>2 DEF CommitHook, NoDelivery, PaymentStatuses
    <2>4. PaidIsCharged'
      <3> HIDE DEF o
      <3> QED
        BY <2>1, <2>2 DEF TracedToCharge, PaidIsCharged, Charged
    <2> QED
      BY <2>2, <2>3, <2>4 DEF TracedToCharge, Charged
  <1>3. ASSUME FailHook(d) PROVE TraceInv'
    <2>1. /\ UNCHANGED <<payment, charge, hooks, refund, paid_back>>
          /\ delivery' \in [Deliveries -> [order : Orders \cup {NoOrder}, read : PaymentStatuses,
                                           update : PaymentStatuses]]
          /\ \A x \in Deliveries : delivery'[x] \in {delivery[x], NoDelivery}
      BY <1>3 DEF FailHook, NoDelivery, PaymentStatuses, providerVars, refundVars
    <2> QED
      BY <2>1 DEF TracedToCharge, PaidIsCharged, Charged
  <1> QED
    BY <1>1, <1>2, <1>3 DEF Webhook

\* The refunds: they begin on what was paid, and money goes back while they run.
LEMMA RefundStep ==
  ASSUME PaymentAssumption, TraceInv, NEW f \in Refunds, Refund(f)
  PROVE  TraceInv'
  <1> USE DEF TraceInv, Shapes
  <1>0. UNCHANGED <<charge, hooks, delivery>>
    BY DEF Refund, BeginRefund, ReturnMoney, RefuseRefund, CommitRefund, LoseRefund, providerVars
  <1>1. ASSUME NEW o \in Orders, BeginRefund(f, o) PROVE TraceInv'
    <2>1. /\ UNCHANGED <<payment, paid_back>> /\ Charged(o)
          /\ refund' = [refund EXCEPT ![f] = [step |-> "call", order |-> o, before |-> Refunded(o)]]
      BY <1>1 DEF BeginRefund, TracedToCharge, PaidIsCharged, Charged
    <2>2. /\ DOMAIN refund' = Refunds
          /\ \A g \in Refunds : g # f => refund'[g] = refund[g]
          /\ refund'[f] = [step |-> "call", order |-> o, before |-> Refunded(o)]
      BY <2>1
    <2>3. DOMAIN refund'[f] = {"step", "order", "before"} /\ refund'[f].order = o
      BY <2>2
    <2> QED
      BY <1>0, <2>1, <2>2, <2>3 DEF TracedToCharge, PaidIsCharged, Charged
  <1>2. ASSUME ReturnMoney(f) \/ CommitRefund(f),
               NEW st \in {"insert", "committed"}, refund' = [refund EXCEPT ![f].step = st]
        PROVE  /\ DOMAIN refund' = Refunds
               /\ \A g \in Refunds : g # f => refund'[g] = refund[g]
               /\ DOMAIN refund'[f] = {"step", "order", "before"}
               /\ refund'[f].order = refund[f].order
               /\ refund[f].order \in Orders /\ Charged(refund[f].order)
    BY <1>2 DEF ReturnMoney, CommitRefund, TracedToCharge
  <1>3. CASE ReturnMoney(f)
    <2>1. /\ DOMAIN refund' = Refunds
          /\ \A g \in Refunds : g # f => refund'[g] = refund[g]
          /\ DOMAIN refund'[f] = {"step", "order", "before"}
          /\ refund'[f].order = refund[f].order
          /\ refund[f].order \in Orders /\ Charged(refund[f].order)
      BY <1>2, <1>3 DEF ReturnMoney
    <2>2. Share[f] \in Nat
      BY DEF PaymentAssumption
    <2>3. /\ paid_back' \in [Orders -> Nat] /\ UNCHANGED payment
          /\ \A o \in Orders : o # refund[f].order => paid_back'[o] = paid_back[o]
      BY <1>3, <2>1, <2>2 DEF ReturnMoney
    <2>4. UNCHANGED <<charge, hooks, delivery>>
      BY <1>0
    <2>5. PaidIsCharged'
      BY <2>1, <2>3, <2>4 DEF TracedToCharge, PaidIsCharged, Charged
    <2>6. \A g \in Refunds : refund'[g].step \in {"call", "insert"} => Charged(refund[g].order)'
      BY <2>1, <2>4 DEF TracedToCharge, Charged
    <2> QED
      BY <1>0, <2>1, <2>3, <2>4, <2>5, <2>6 DEF TracedToCharge, Charged
  <1>4. CASE CommitRefund(f)
    <2>1. /\ DOMAIN refund' = Refunds
          /\ \A g \in Refunds : g # f => refund'[g] = refund[g]
          /\ DOMAIN refund'[f] = {"step", "order", "before"}
          /\ refund'[f].order = refund[f].order
          /\ refund[f].order \in Orders /\ Charged(refund[f].order)
      BY <1>2, <1>4 DEF CommitRefund
    <2>2. UNCHANGED paid_back
      BY <1>4 DEF CommitRefund
    <2>3. \/ UNCHANGED payment
          \/ payment' = [payment EXCEPT ![refund[f].order].status = "refunded"]
      BY <1>4 DEF CommitRefund
    <2>4. /\ payment' \in [Orders -> [status : PaymentStatuses,
                                      reference : {"none", "session", "transaction"}]]
          /\ \A o \in Orders : o # refund[f].order => payment'[o] = payment[o]
      BY <2>1, <2>3 DEF PaymentStatuses
    <2>5. UNCHANGED <<charge, hooks, delivery>>
      BY <1>0
    <2>6. PaidIsCharged'
      BY <2>1, <2>2, <2>4, <2>5 DEF TracedToCharge, PaidIsCharged, Charged
    <2>7. \A g \in Refunds : refund'[g].step \in {"call", "insert"} => Charged(refund[g].order)'
      BY <2>1, <2>5 DEF TracedToCharge, Charged
    <2>8. Shapes'
      BY <2>1, <2>2, <2>4, <2>5
    <2> QED
      BY <2>5, <2>6, <2>7, <2>8 DEF TracedToCharge, Charged
  <1>5. CASE RefuseRefund(f) \/ LoseRefund(f)
    <2>1. /\ UNCHANGED <<payment, paid_back>>
          /\ refund' = [refund EXCEPT ![f] = [NewRefund EXCEPT !.step = "refused"]]
      BY <1>5 DEF RefuseRefund, LoseRefund
    <2>2. /\ DOMAIN refund' = Refunds
          /\ \A g \in Refunds : g # f => refund'[g] = refund[g]
          /\ refund'[f] = [NewRefund EXCEPT !.step = "refused"]
      BY <2>1
    <2>3. refund'[f].step = "refused" /\ DOMAIN refund'[f] = {"step", "order", "before"}
      BY <2>2 DEF NewRefund
    <2> QED
      BY <1>0, <2>1, <2>2, <2>3 DEF TracedToCharge, PaidIsCharged, Charged
  <1> QED
    BY <1>1, <1>3, <1>4, <1>5 DEF Refund

\* An order counts as paid, and money of it goes back, only if the gateway has
\* charged it, whatever webhooks come twice, late or out of order
\* (payment_service.py:206-290, refund_service.py:33-113).
THEOREM OnlyChargedCountsAsPaid == PaymentsSpec => []PaidIsCharged
  <1>1. PaymentsInit => TraceInv
    BY TraceInit, PaymentAssumption
  <1>2. TraceInv /\ [PaymentsNext]_paymentVars => TraceInv'
    <2>1. CASE UNCHANGED paymentVars
      BY <2>1 DEF paymentVars, TraceInv, Shapes, TracedToCharge, PaidIsCharged, Charged
    <2> QED
      BY <2>1, CheckoutStep, WebhookStep, RefundStep, PaymentAssumption DEF PaymentsNext
  <1>3. TraceInv => PaidIsCharged
    BY DEF TraceInv, TracedToCharge
  <1> QED
    BY <1>1, <1>2, <1>3, PTL DEF PaymentsSpec
-----------------------------------------------------------------------------
\* The refunds of an order whose money the gateway has returned, with and
\* without a row.
BackOf(o) == {f \in Refunds : refund[f].step \in {"insert", "committed"} /\ refund[f].order = o}

\* While an order's refunds come one after the other, what went back is the sum
\* of their shares, the one that is under way has counted those before it, and
\* has found room for its own.
OneByOne(o) ==
  /\ SumOver(Share, BackOf(o)) = paid_back[o]
  /\ \A f, g \in Refunds : Refunding(f, o) /\ Refunding(g, o) => f = g
  /\ \A f \in Refunds : Refunding(f, o) =>
       refund[f].before = Refunded(o) /\ Refunded(o) + Share[f] <= Price[o]
  /\ Refunded(o) <= Price[o]
  /\ payment[o].status = "refunded" => Refunded(o) = Price[o]

Balanced(o) ==
  /\ SumOver(Share, BackOf(o)) <= paid_back[o]
  /\ o \notin concurrent => OneByOne(o)

RefundInv == TraceInv /\ \A o \in Orders : Balanced(o)

LEMMA RefundsFinite ==
  ASSUME PaymentAssumption, NEW o
  PROVE  /\ IsFiniteSet(RowsOf(o)) /\ IsFiniteSet(BackOf(o))
         /\ \A f \in RowsOf(o) \cup BackOf(o) : Share[f] \in Nat
         /\ RowsOf(o) \subseteq BackOf(o)
         /\ Refunded(o) \in Nat /\ SumOver(Share, BackOf(o)) \in Nat
         /\ Refunded(o) <= SumOver(Share, BackOf(o))
  <1>1. RowsOf(o) \subseteq BackOf(o) /\ BackOf(o) \subseteq Refunds
    BY DEF RowsOf, BackOf
  <1>2. IsFiniteSet(RowsOf(o)) /\ IsFiniteSet(BackOf(o))
    BY <1>1, FS_Subset DEF PaymentAssumption
  <1>3. \A f \in BackOf(o) : Share[f] \in Nat
    BY <1>1 DEF PaymentAssumption
  <1>4. \A f \in RowsOf(o) : Share[f] \in Nat
    BY <1>1, <1>3
  <1>5. Refunded(o) \in Nat
    BY <1>2, <1>4, SumNat DEF Refunded
  <1>6. SumOver(Share, BackOf(o)) \in Nat
    BY <1>2, <1>3, SumNat
  <1>7. Refunded(o) <= SumOver(Share, BackOf(o))
    BY <1>1, <1>2, <1>3, SumPart DEF Refunded
  <1> QED
    BY <1>1, <1>2, <1>3, <1>4, <1>5, <1>6, <1>7

\* What the invariant says of the money that went back.
LEMMA BalancedCovers ==
  ASSUME PaymentAssumption, TraceInv, NEW o \in Orders, Balanced(o)
  PROVE  /\ Refunded(o) <= paid_back[o]
         /\ o \notin concurrent =>
              /\ paid_back[o] <= Price[o]
              /\ payment[o].status = "refunded" => Refunded(o) = Price[o]
  <1> DEFINE rows == RowsOf(o)
             back == BackOf(o)
             sum == SumOver(Share, back)
  <1>1. /\ IsFiniteSet(rows) /\ rows \subseteq back
        /\ Refunded(o) = SumOver(Share, rows)
        /\ Refunded(o) \in Nat /\ sum \in Nat /\ Refunded(o) <= sum
        /\ \A f \in rows : Share[f] \in Int
    BY RefundsFinite DEF Refunded
  <1>2. paid_back[o] \in Nat /\ Price[o] \in Nat
    BY DEF TraceInv, Shapes, PaymentAssumption
  <1>3. sum <= paid_back[o]
    BY DEF Balanced
  <1>4. ASSUME OneByOne(o), NEW f \in back, f \notin rows PROVE paid_back[o] <= Price[o]
    <2>1. f \in Refunds /\ Refunding(f, o)
      BY <1>4 DEF RowsOf, BackOf, Refunding
    <2>2. \A g \in back : g \notin rows => g = f
      <3>1. \A g \in back : g \notin rows => g \in Refunds /\ Refunding(g, o)
        BY DEF RowsOf, BackOf, Refunding
      <3> QED
        BY <3>1, <2>1, <1>4 DEF OneByOne
    <2>3. back = rows \cup {f}
      BY <1>1, <1>4, <2>2
    <2>4. Share[f] \in Int
      BY <2>1 DEF PaymentAssumption
    <2> HIDE DEF rows, back
    <2>5. SumOver(Share, back) = SumOver(Share, rows) + Share[f]
      BY <1>1, <1>4, <2>3, <2>4, SumAdd
    <2>6. SumOver(Share, back) = paid_back[o] /\ Refunded(o) + Share[f] <= Price[o]
      BY <1>4, <2>1 DEF OneByOne, back
    <2> QED
      BY <2>5, <2>6, <1>1
  <1>5. ASSUME OneByOne(o), \A f \in back : f \in rows PROVE paid_back[o] <= Price[o]
    <2>1. back = rows
      BY <1>1, <1>5
    <2> QED
      BY <2>1, <1>1, <1>5 DEF OneByOne
  <1>6. o \notin concurrent => OneByOne(o)
    BY DEF Balanced
  <1>7. OneByOne(o) => (payment[o].status = "refunded" => Refunded(o) = Price[o])
    BY DEF OneByOne
  <1> HIDE DEF rows, back, sum
  <1>8. Refunded(o) <= paid_back[o]
    BY <1>1, <1>2, <1>3
  <1> QED
    BY <1>4, <1>5, <1>6, <1>7, <1>8

\* An order whose refunds and money a step leaves alone stays balanced.
LEMMA BalanceKept ==
  ASSUME NEW o \in Orders, Balanced(o), paid_back'[o] = paid_back[o],
         o \in concurrent => o \in concurrent',
         payment'[o].status = "refunded" => payment[o].status = "refunded",
         \A f \in Refunds : refund[f].order = o \/ refund'[f].order = o =>
            \/ refund'[f] = refund[f]
            \/ refund[f].step = "new" /\ refund'[f].step = "new"
  PROVE  Balanced(o)'
  <1>1. \A f \in Refunds : Refunding(f, o)' <=> Refunding(f, o)
    BY DEF Refunding
  <1>2. RowsOf(o)' = RowsOf(o)
    BY DEF RowsOf
  <1>3. BackOf(o)' = BackOf(o)
    BY DEF BackOf
  <1>4. \A f \in Refunds : Refunding(f, o) => refund'[f].before = refund[f].before
    BY DEF Refunding
  <1>5. Refunded(o)' = Refunded(o)
    BY <1>2 DEF Refunded
  <1>6. OneByOne(o) => OneByOne(o)'
    BY <1>1, <1>3, <1>4, <1>5 DEF OneByOne
  <1> QED
    BY <1>3, <1>6 DEF Balanced

\* Only a refund that is committed gives an order the status REFUNDED.
LEMMA StatusStep ==
  ASSUME PaymentAssumption, TraceInv, PaymentsNext, ~ \E f \in Refunds : Refund(f)
  PROVE  /\ UNCHANGED <<refund, paid_back, concurrent>>
         /\ \A o \in Orders : payment'[o].status = "refunded" => payment[o].status = "refunded"
  <1> USE DEF TraceInv, Shapes
  <1>1. ASSUME NEW c \in Checkouts, InsertPayment(c)
        PROVE  \A o \in Orders : payment'[o].status \in {payment[o].status, "pending"}
    BY <1>1 DEF InsertPayment
  <1>2. ASSUME NEW c \in Checkouts, CreatePayment(c)
        PROVE  /\ UNCHANGED <<refund, paid_back, concurrent>>
               /\ \A o \in Orders : payment'[o].status \in {payment[o].status, "pending"}
    BY <1>1, <1>2 DEF CreatePayment, BeginPayment, OpenSession, AllGatewaysFail, InsertPayment,
       refundVars
  <1>3. ASSUME NEW d \in Deliveries, CommitHook(d), NEW o \in Orders,
               payment'[o].status = "refunded"
        PROVE  payment[o].status = "refunded"
    <2>1. delivery[d] # NoDelivery /\ delivery[d].order \in Orders
          /\ delivery[d].update # "refunded"
      BY <1>3 DEF CommitHook, NoDelivery, TracedToCharge
    <2>2. payment'[o].status \in {payment[o].status, delivery[d].update}
      BY <1>3, <2>1 DEF CommitHook
    <2> QED
      BY <2>1, <2>2, <1>3
  <1>4. ASSUME NEW d \in Deliveries, Webhook(d)
        PROVE  /\ UNCHANGED <<refund, paid_back, concurrent>>
               /\ \A o \in Orders : payment'[o].status = "refunded" => payment[o].status = "refunded"
    <2>1. CASE CommitHook(d)
      BY <1>3, <2>1 DEF CommitHook, refundVars
    <2>2. CASE ~CommitHook(d)
      BY <1>4, <2>2 DEF Webhook, ReceiveHook, FailHook, refundVars
    <2> QED
      BY <2>1, <2>2
  <1>5. ASSUME NEW o \in Orders, Gateway(o) \/ reconcile(o)
        PROVE  UNCHANGED <<payment, refund, paid_back, concurrent>>
    BY <1>5 DEF Gateway, reconcile, refundVars
  <1>6. ASSUME NEW report \in SUBSET Orders, import_settlements(report)
        PROVE  UNCHANGED <<payment, refund, paid_back, concurrent>>
    BY <1>6 DEF import_settlements, refundVars
  <1> HIDE DEF TraceInv, Shapes
  <1> QED
    BY <1>2, <1>4, <1>5, <1>6 DEF PaymentsNext

\* A refund begins: it counts the rows there are, and overlaps another or none.
LEMMA BeginBalance ==
  ASSUME PaymentAssumption, RefundInv, NEW f \in Refunds, NEW o \in Orders, BeginRefund(f, o),
         NEW x \in Orders
  PROVE  Balanced(x)'
  <1> USE DEF RefundInv, TraceInv, Shapes
  <1>1. /\ UNCHANGED <<payment, paid_back>> /\ refund[f].step = "new"
        /\ \A g \in Refunds : g # f => refund'[g] = refund[g]
        /\ refund'[f] = [step |-> "call", order |-> o, before |-> Refunded(o)]
        /\ Refunded(o) + Share[f] <= Price[o]
        /\ concurrent \subseteq concurrent'
        /\ (\E g \in Refunds : Refunding(g, o)) => o \in concurrent'
    BY DEF BeginRefund
  <1>2. RowsOf(x)' = RowsOf(x) /\ BackOf(x)' = BackOf(x)
    <2> HIDE DEF RefundInv, TraceInv, Shapes
    <2>1. \A g \in Refunds : refund'[g].step \in {"insert", "committed"} => g # f
      BY <1>1
    <2>2. refund[f].step \notin {"insert", "committed"}
      BY <1>1
    <2>3. \A g \in Refunds : (g \in RowsOf(x)' <=> g \in RowsOf(x))
                            /\ (g \in BackOf(x)' <=> g \in BackOf(x))
      BY <1>1, <2>1, <2>2 DEF RowsOf, BackOf
    <2> QED
      BY <2>3 DEF RowsOf, BackOf
  <1>3. Refunded(x)' = Refunded(x)
    BY <1>2 DEF Refunded
  <1>4. \A g \in Refunds : g # f => (Refunding(g, x)' <=> Refunding(g, x))
    BY <1>1 DEF Refunding
  <1>5. Refunding(f, x)' => x = o /\ refund'[f].before = Refunded(x) /\ Refunded(x) + Share[f] <= Price[x]
    BY <1>1 DEF Refunding
  <1>6. Balanced(x)
    OBVIOUS
  <1>7. ASSUME x \notin concurrent', OneByOne(x) PROVE OneByOne(x)'
    <2>1. \A g, h \in Refunds : Refunding(g, x)' /\ Refunding(h, x)' => g = h
      BY <1>1, <1>4, <1>5, <1>7 DEF OneByOne
    <2>2. ASSUME NEW g \in Refunds, Refunding(g, x)'
          PROVE  refund'[g].before = Refunded(x)' /\ Refunded(x)' + Share[g] <= Price[x]
      BY <2>2, <1>1, <1>3, <1>4, <1>5, <1>7 DEF OneByOne
    <2> QED
      BY <2>1, <2>2, <1>1, <1>2, <1>3, <1>7 DEF OneByOne
  <1> QED
    BY <1>1, <1>2, <1>6, <1>7 DEF Balanced

\* The gateway returns the money: it joins what went back.
LEMMA ReturnBalance ==
  ASSUME PaymentAssumption, RefundInv, NEW f \in Refunds, ReturnMoney(f),
         NEW o \in Orders, o = refund[f].order
  PROVE  Balanced(o)'
  <1>1. TraceInv /\ Balanced(o) /\ paid_back \in [Orders -> Nat]
    BY DEF RefundInv, TraceInv, Shapes
  <1>2. DOMAIN refund = Refunds /\ DOMAIN refund[f] = {"step", "order", "before"}
    BY <1>1 DEF TraceInv, Shapes
  <1>3. /\ refund[f].step = "call" /\ UNCHANGED <<payment, concurrent>>
        /\ \A g \in Refunds : g # f => refund'[g] = refund[g]
        /\ refund'[f].step = "insert" /\ refund'[f].order = o /\ refund'[f].before = refund[f].before
        /\ paid_back'[o] = paid_back[o] + Share[f]
    BY <1>1, <1>2 DEF ReturnMoney
  <1>4. Share[f] \in Nat /\ paid_back[o] \in Nat
    BY <1>1 DEF PaymentAssumption
  <1>5. RowsOf(o)' = RowsOf(o) /\ BackOf(o)' = BackOf(o) \cup {f} /\ f \notin BackOf(o)
    BY <1>3 DEF RowsOf, BackOf
  <1>6. IsFiniteSet(BackOf(o)) /\ (\A g \in BackOf(o) : Share[g] \in Int)
        /\ SumOver(Share, BackOf(o)) \in Nat
    BY RefundsFinite
  <1>7. SumOver(Share, BackOf(o))' = SumOver(Share, BackOf(o)) + Share[f]
    <2> DEFINE back == BackOf(o)
    <2>1. SumOver(Share, BackOf(o)') = SumOver(Share, back \cup {f})
      BY <1>5
    <2> HIDE DEF back
    <2>2. SumOver(Share, back \cup {f}) = SumOver(Share, back) + Share[f]
      BY <1>4, <1>5, <1>6, SumAdd DEF back
    <2> QED
      BY <2>1, <2>2 DEF back
  <1>8. Refunded(o)' = Refunded(o)
    BY <1>5 DEF Refunded
  <1>9. \A g \in Refunds : (Refunding(g, o)' <=> Refunding(g, o)) /\ refund'[g].before = refund[g].before
    BY <1>3 DEF Refunding
  <1>10. OneByOne(o) => OneByOne(o)'
    BY <1>3, <1>7, <1>8, <1>9 DEF OneByOne
  <1> QED
    BY <1>1, <1>3, <1>4, <1>6, <1>7, <1>10 DEF Balanced

\* The row is committed: it joins the rows, and the order is REFUNDED when the
\* rows make the whole amount.
LEMMA CommitBalance ==
  ASSUME PaymentAssumption, RefundInv, NEW f \in Refunds, CommitRefund(f),
         NEW o \in Orders, o = refund[f].order
  PROVE  Balanced(o)'
  <1>1. TraceInv /\ Balanced(o)
    BY DEF RefundInv
  <1>2. /\ DOMAIN refund = Refunds /\ DOMAIN refund[f] = {"step", "order", "before"}
        /\ payment \in [Orders -> [status : PaymentStatuses,
                                   reference : {"none", "session", "transaction"}]]
    BY <1>1 DEF TraceInv, Shapes
  <1>3. /\ refund[f].step = "insert" /\ UNCHANGED <<paid_back, concurrent>>
        /\ \A g \in Refunds : g # f => refund'[g] = refund[g]
        /\ refund'[f].step = "committed" /\ refund'[f].order = o
    BY <1>2 DEF CommitRefund
  <1>4. payment'[o].status = IF refund[f].before + Share[f] = Price[o] THEN "refunded"
                             ELSE payment[o].status
    BY <1>2 DEF CommitRefund
  <1>5. RowsOf(o)' = RowsOf(o) \cup {f} /\ f \notin RowsOf(o) /\ BackOf(o)' = BackOf(o)
    BY <1>3 DEF RowsOf, BackOf
  <1>6. IsFiniteSet(RowsOf(o)) /\ (\A g \in RowsOf(o) : Share[g] \in Int) /\ Refunded(o) \in Nat
    BY RefundsFinite
  <1>7. Share[f] \in Nat \ {0} /\ Price[o] \in Nat
    BY DEF PaymentAssumption
  <1>8. Refunded(o)' = Refunded(o) + Share[f]
    <2> DEFINE rows == RowsOf(o)
    <2>1. SumOver(Share, RowsOf(o)') = SumOver(Share, rows \cup {f})
      BY <1>5
    <2> HIDE DEF rows
    <2>2. SumOver(Share, rows \cup {f}) = SumOver(Share, rows) + Share[f]
      BY <1>5, <1>6, <1>7, SumAdd DEF rows
    <2> QED
      BY <2>1, <2>2 DEF Refunded, rows
  <1>9. Refunding(f, o) /\ ~Refunding(f, o)'
        /\ \A g \in Refunds : g # f => (Refunding(g, o)' <=> Refunding(g, o))
    BY <1>3 DEF Refunding
  <1>10. ASSUME OneByOne(o) PROVE OneByOne(o)'
    <2>1. /\ refund[f].before = Refunded(o) /\ Refunded(o) + Share[f] <= Price[o]
          /\ \A g \in Refunds : ~Refunding(g, o)'
      BY <1>9, <1>10 DEF OneByOne
    <2>2. payment'[o].status = "refunded" => Refunded(o)' = Price[o]
      <3>1. CASE refund[f].before + Share[f] = Price[o]
        BY <2>1, <3>1, <1>8
      <3>2. CASE refund[f].before + Share[f] # Price[o]
        <4>1. payment'[o].status = "refunded" => Refunded(o) = Price[o]
          BY <3>2, <1>4, <1>10 DEF OneByOne
        <4> QED
          BY <4>1, <2>1, <1>6, <1>7
      <3> QED
        BY <3>1, <3>2
    <2>3. SumOver(Share, BackOf(o))' = paid_back'[o]
      BY <1>3, <1>5, <1>10 DEF OneByOne
    <2> QED
      BY <1>8, <2>1, <2>2, <2>3 DEF OneByOne
  <1> QED
    BY <1>1, <1>3, <1>5, <1>10 DEF Balanced

\* A refund that is refused was not paid back; one that is lost was, and marks
\* its order.
LEMMA DropBalance ==
  ASSUME PaymentAssumption, RefundInv, NEW f \in Refunds, RefuseRefund(f) \/ LoseRefund(f),
         NEW o \in Orders, o = refund[f].order
  PROVE  Balanced(o)'
  <1>1. TraceInv /\ Balanced(o) /\ DOMAIN refund = Refunds /\ paid_back[o] \in Nat
    BY DEF RefundInv, TraceInv, Shapes
  <1>2. /\ UNCHANGED <<paid_back, payment>> /\ refund[f].step \in {"call", "insert"}
        /\ \A g \in Refunds : g # f => refund'[g] = refund[g]
        /\ refund'[f].step = "refused"
        /\ concurrent \subseteq concurrent'
        /\ refund[f].step = "call" \/ o \in concurrent'
    BY <1>1 DEF RefuseRefund, LoseRefund, NewRefund
  <1>3. RowsOf(o)' = RowsOf(o) /\ BackOf(o)' = BackOf(o) \ {f}
    BY <1>2 DEF RowsOf, BackOf
  <1>4. Refunded(o)' = Refunded(o)
    BY <1>3 DEF Refunded
  <1>5. ~Refunding(f, o)' /\ \A g \in Refunds : g # f => (Refunding(g, o)' <=> Refunding(g, o))
    BY <1>2 DEF Refunding
  <1>6. SumOver(Share, BackOf(o))' <= paid_back'[o]
    <2>1. /\ IsFiniteSet(BackOf(o)) /\ (\A g \in BackOf(o) : Share[g] \in Nat)
          /\ BackOf(o)' \in SUBSET BackOf(o)
      BY <1>3, RefundsFinite
    <2>2. SumOver(Share, BackOf(o)') <= SumOver(Share, BackOf(o))
      BY <2>1, SumPart
    <2>3. IsFiniteSet(BackOf(o)') /\ (\A g \in BackOf(o)' : Share[g] \in Nat)
      BY <2>1, FS_Subset
    <2>4. SumOver(Share, BackOf(o)') \in Nat /\ SumOver(Share, BackOf(o)) \in Nat
      BY <2>3, SumNat, RefundsFinite
    <2> QED
      BY <2>2, <2>4, <1>1, <1>2 DEF Balanced
  <1>7. ASSUME o \notin concurrent', OneByOne(o) PROVE OneByOne(o)'
    <2>1. BackOf(o)' = BackOf(o)
      BY <1>2, <1>3, <1>7 DEF BackOf
    <2>2. \A g \in Refunds : Refunding(g, o)' => Refunding(g, o) /\ refund'[g].before = refund[g].before
      BY <1>2, <1>5 DEF Refunding
    <2> QED
      BY <1>2, <1>4, <1>7, <2>1, <2>2 DEF OneByOne
  <1> QED
    BY <1>1, <1>2, <1>6, <1>7 DEF Balanced

LEMMA RefundBalance ==
  ASSUME PaymentAssumption, RefundInv, NEW f \in Refunds, Refund(f), NEW x \in Orders
  PROVE  Balanced(x)'
  <1>1. TraceInv /\ Balanced(x)
    BY DEF RefundInv
  <1>2. CASE \E o \in Orders : BeginRefund(f, o)
    BY <1>2, BeginBalance
  <1>3. CASE ReturnMoney(f) \/ CommitRefund(f) \/ RefuseRefund(f) \/ LoseRefund(f)
    <2>1. refund[f].order \in Orders
      BY <1>1, <1>3 DEF TraceInv, Shapes, ReturnMoney, CommitRefund, RefuseRefund, LoseRefund
    <2>2. CASE x = refund[f].order
      BY <1>3, <2>2, ReturnBalance, CommitBalance, DropBalance
    <2>3. CASE x # refund[f].order
      <3>1. DOMAIN refund = Refunds /\ DOMAIN refund[f] = {"step", "order", "before"}
            /\ payment \in [Orders -> [status : PaymentStatuses,
                                       reference : {"none", "session", "transaction"}]]
            /\ paid_back \in [Orders -> Nat]
        BY <1>1 DEF TraceInv, Shapes
      <3>2. /\ \A g \in Refunds : g # f => refund'[g] = refund[g]
            /\ refund'[f].order \in {refund[f].order, NoOrder}
        BY <3>1, <1>3 DEF ReturnMoney, CommitRefund, RefuseRefund, LoseRefund, NewRefund
      <3>3. /\ paid_back'[x] = paid_back[x] /\ payment'[x] = payment[x]
            /\ concurrent \subseteq concurrent'
        BY <3>1, <1>3, <2>1, <2>3 DEF ReturnMoney, CommitRefund, RefuseRefund, LoseRefund
      <3>4. x # NoOrder
        BY DEF PaymentAssumption
      <3> QED
        BY <1>1, <2>3, <3>2, <3>3, <3>4, BalanceKept
    <2> QED
      BY <2>2, <2>3
  <1> QED
    BY <1>2, <1>3 DEF Refund

LEMMA RefundInvInit ==
  ASSUME PaymentAssumption, PaymentsInit
  PROVE  RefundInv
  <1>1. TraceInv
    BY TraceInit
  <1>2. ASSUME NEW o \in Orders PROVE Balanced(o)
    <2>1. /\ \A f \in Refunds : refund[f].step = "new"
          /\ paid_back[o] = 0 /\ payment[o].status = "absent"
      BY DEF PaymentsInit, NewRefund, NoPayment
    <2>2. RowsOf(o) = {} /\ BackOf(o) = {} /\ \A f \in Refunds : ~Refunding(f, o)
      BY <2>1 DEF RowsOf, BackOf, Refunding
    <2>3. Refunded(o) = 0 /\ SumOver(Share, BackOf(o)) = 0 /\ Price[o] \in Nat
      BY <2>2, SumEmpty DEF Refunded, PaymentAssumption
    <2> QED
      BY <2>1, <2>2, <2>3 DEF Balanced, OneByOne
  <1> QED
    BY <1>1, <1>2 DEF RefundInv

\* Each refund on record was paid back; and an order whose refunds came one
\* after the other, none of them cut short, was never paid back more than its
\* price, and is REFUNDED only when its rows make the whole amount
\* (refund_service.py:33-113).
THEOREM RefundsAreCovered == PaymentsSpec => []RefundsCovered
  <1>1. PaymentsInit => RefundInv
    BY RefundInvInit, PaymentAssumption
  <1>2. TraceInv /\ [PaymentsNext]_paymentVars => TraceInv'
    <2>1. CASE UNCHANGED paymentVars
      BY <2>1 DEF paymentVars, TraceInv, Shapes, TracedToCharge, PaidIsCharged, Charged
    <2> QED
      BY <2>1, CheckoutStep, WebhookStep, RefundStep, PaymentAssumption DEF PaymentsNext
  <1>3. RefundInv /\ [PaymentsNext]_paymentVars => \A o \in Orders : Balanced(o)'
    <2> SUFFICES ASSUME RefundInv, [PaymentsNext]_paymentVars, NEW o \in Orders
                 PROVE  Balanced(o)'
      OBVIOUS
    <2>1. TraceInv /\ Balanced(o)
      BY DEF RefundInv
    <2>2. CASE UNCHANGED paymentVars
      BY <2>1, <2>2, BalanceKept DEF paymentVars
    <2>3. CASE \E f \in Refunds : Refund(f)
      BY <2>3, RefundBalance, PaymentAssumption
    <2>4. CASE PaymentsNext /\ ~ \E f \in Refunds : Refund(f)
      BY <2>1, <2>4, StatusStep, BalanceKept, PaymentAssumption
    <2> QED
      BY <2>2, <2>3, <2>4
  <1>4. RefundInv /\ [PaymentsNext]_paymentVars => RefundInv'
    BY <1>2, <1>3 DEF RefundInv
  <1>5. RefundInv => RefundsCovered
    BY BalancedCovers, PaymentAssumption DEF RefundInv, RefundsCovered
  <1> QED
    BY <1>1, <1>4, <1>5, PTL DEF PaymentsSpec

\* The rows of payments, refunds and settlements, and what the gateway and the
\* requests under way hold, keep their types (models.py of the payment service).
THEOREM PaymentsTyped == PaymentsSpec => []PaymentsTypeOK
  <1> USE PaymentAssumption DEF PaymentStatuses
  <1>1. PaymentsInit => PaymentsTypeOK
    BY DEF PaymentsInit, PaymentsTypeOK, NoPayment, NewCheckout, NoDelivery, NewRefund
  <1>2. TraceInv /\ PaymentsTypeOK /\ [PaymentsNext]_paymentVars => PaymentsTypeOK'
    <2> SUFFICES ASSUME TraceInv, PaymentsTypeOK, [PaymentsNext]_paymentVars PROVE PaymentsTypeOK'
      OBVIOUS
    <2> DEFINE Requests == [step : {"new", "open", "insert", "done"}, order : Orders \cup {NoOrder}]
               Rows == [step : {"new", "call", "insert", "committed", "refused"},
                        order : Orders \cup {NoOrder}, before : Nat]
               Charges == {"none", "open", "declined", "charged"}
               PaymentRows == [status : PaymentStatuses,
                               reference : {"none", "session", "transaction"}]
    <2>0. /\ checkout \in [Checkouts -> Requests]
          /\ refund \in [Refunds -> Rows]
          /\ sessions \in [Orders -> Nat]
          /\ paid_back \in [Orders -> Nat]
          /\ charge \in [Orders -> Charges]
          /\ hooks \in [Orders -> SUBSET {"success", "failed", "pending"}]
          /\ payment \in [Orders -> PaymentRows]
      BY DEF PaymentsTypeOK
    <2>1. CASE UNCHANGED paymentVars
      BY <2>1 DEF paymentVars, PaymentsTypeOK
    <2>2. ASSUME NEW c \in Checkouts, CreatePayment(c) PROVE PaymentsTypeOK'
      <3>1. CASE \E o \in Orders : BeginPayment(c, o)
        <4>1. checkout' \in [Checkouts -> Requests]
          BY <2>0, <3>1 DEF BeginPayment
        <4> QED
          BY <3>1, <4>1 DEF BeginPayment, providerVars, refundVars, PaymentsTypeOK
      <3>2. CASE OpenSession(c)
        <4>1. checkout' \in [Checkouts -> Requests]
          <5>1. [checkout[c] EXCEPT !.step = "insert"] \in Requests
            BY <2>0
          <5>2. checkout' \in {[checkout EXCEPT ![c] = [checkout[c] EXCEPT !.step = "insert"]],
                               checkout}
            BY <3>2 DEF OpenSession
          <5> QED
            BY <2>0, <5>1, <5>2
        <4>2. sessions' \in [Orders -> Nat]
          <5>1. sessions' = [sessions EXCEPT ![checkout[c].order] = @ + 1]
            BY <3>2 DEF OpenSession
          <5>2. \A o \in Orders : sessions[o] + 1 \in Nat
            BY <2>0
          <5>3. CASE checkout[c].order \in Orders
            BY <2>0, <5>1, <5>2, <5>3
          <5>4. CASE checkout[c].order \notin Orders
            BY <2>0, <5>1, <5>4
          <5> QED
            BY <5>3, <5>4
        <4>3. charge' \in [Orders -> Charges]
          <5>1. charge' = [charge EXCEPT ![checkout[c].order] = IF @ = "none" THEN "open" ELSE @]
            BY <3>2 DEF OpenSession
          <5> QED
            BY <2>0, <5>1
        <4> QED
          BY <3>2, <4>1, <4>2, <4>3 DEF OpenSession, refundVars, PaymentsTypeOK
      <3>3. CASE AllGatewaysFail(c)
        <4>1. checkout' \in [Checkouts -> Requests]
          BY <2>0, <3>3 DEF AllGatewaysFail
        <4> QED
          BY <3>3, <4>1 DEF AllGatewaysFail, providerVars, refundVars, PaymentsTypeOK
      <3>4. CASE InsertPayment(c)
        <4>1. checkout' \in [Checkouts -> Requests]
          <5>1. checkout' = [checkout EXCEPT ![c] = [checkout[c] EXCEPT !.step = "done"]]
            BY <3>4 DEF InsertPayment
          <5>2. checkout[c] \in Requests
            BY <2>0
          <5>3. [checkout[c] EXCEPT !.step = "done"] \in Requests
            BY <5>2
          <5> HIDE DEF Requests
          <5> QED
            BY <2>0, <5>1, <5>3
        <4>2. payment' \in [Orders -> PaymentRows]
          <5> DEFINE inserted == [status |-> "pending", reference |-> "session"]
          <5>1. inserted \in PaymentRows
            OBVIOUS
          <5> HIDE DEF inserted, PaymentRows
          <5>2. payment' = payment \/ payment' = [payment EXCEPT ![checkout[c].order] = inserted]
            BY <3>4 DEF InsertPayment, inserted
          <5> QED
            BY <2>0, <5>1, <5>2
        <4> QED
          BY <3>4, <4>1, <4>2 DEF InsertPayment, providerVars, refundVars, PaymentsTypeOK
      <3> QED
        <4>1. \/ \E o \in Orders : BeginPayment(c, o)
              \/ OpenSession(c) \/ AllGatewaysFail(c) \/ InsertPayment(c)
          BY <2>2 DEF CreatePayment
        <4> QED
          BY <3>1, <3>2, <3>3, <3>4, <4>1
    <2>3. ASSUME NEW o \in Orders, Gateway(o) PROVE PaymentsTypeOK'
      <3>1. charge' \in [Orders -> Charges]
        BY <2>0, <2>3 DEF Gateway, Charge, Decline, ReportPending
      <3>2. hooks' \in [Orders -> SUBSET {"success", "failed", "pending"}]
        <4>1. \/ hooks' = [hooks EXCEPT ![o] = @ \cup {"success"}]
              \/ hooks' = [hooks EXCEPT ![o] = @ \cup {"failed"}]
              \/ hooks' = [hooks EXCEPT ![o] = @ \cup {"pending"}]
          BY <2>3 DEF Gateway, Charge, Decline, ReportPending
        <4> QED
          BY <2>0, <4>1
      <3> QED
        BY <2>3, <3>1, <3>2 DEF Gateway, refundVars, PaymentsTypeOK
    <2>4. ASSUME NEW o \in Orders, reconcile(o) PROVE PaymentsTypeOK'
      BY <2>4 DEF reconcile, providerVars, refundVars, PaymentsTypeOK
    <2>5. ASSUME NEW d \in Deliveries, Webhook(d) PROVE PaymentsTypeOK'
      <3>1. CASE \E o \in Orders, status \in {"success", "failed", "pending"} :
                   ReceiveHook(d, o, status)
        BY <3>1 DEF ReceiveHook, providerVars, refundVars, PaymentsTypeOK
      <3>2. CASE CommitHook(d)
        BY <3>2 DEF CommitHook, NoDelivery, providerVars, refundVars, PaymentsTypeOK
      <3>3. CASE FailHook(d)
        BY <3>3 DEF FailHook, NoDelivery, providerVars, refundVars, PaymentsTypeOK
      <3> QED
        BY <2>5, <3>1, <3>2, <3>3 DEF Webhook
    <2>6. ASSUME NEW f \in Refunds, Refund(f) PROVE PaymentsTypeOK'
      <3>1. ASSUME NEW o \in Orders, BeginRefund(f, o) PROVE PaymentsTypeOK'
        <4>1. Refunded(o) \in Nat
          BY RefundsFinite
        <4>2. refund' \in [Refunds -> Rows]
          BY <2>0, <3>1, <4>1 DEF BeginRefund
        <4> QED
          BY <3>1, <4>2 DEF BeginRefund, providerVars, PaymentsTypeOK
      <3>2. CASE ReturnMoney(f)
        <4>1. refund' \in [Refunds -> Rows]
          <5>0. refund[f] \in Rows
            BY <2>0
          <5>1. [refund[f] EXCEPT !.step = "insert"] \in Rows
            BY <5>0
          <5>2. refund' = [refund EXCEPT ![f] = [refund[f] EXCEPT !.step = "insert"]]
            BY <3>2 DEF ReturnMoney
          <5> QED
            BY <2>0, <5>1, <5>2
        <4>2. paid_back' \in [Orders -> Nat]
          <5>1. paid_back' = [paid_back EXCEPT ![refund[f].order] = @ + Share[f]]
            BY <3>2 DEF ReturnMoney
          <5>2. Share[f] \in Nat /\ refund[f].order \in Orders
            BY <3>2 DEF ReturnMoney, PaymentAssumption, TraceInv, Shapes
          <5>3. paid_back[refund[f].order] + Share[f] \in Nat
            BY <2>0, <5>2
          <5> QED
            BY <2>0, <5>1, <5>2, <5>3
        <4> QED
          BY <3>2, <4>1, <4>2 DEF ReturnMoney, providerVars, PaymentsTypeOK
      <3>3. CASE RefuseRefund(f)
        <4>1. refund' \in [Refunds -> Rows]
          BY <2>0, <3>3 DEF RefuseRefund, NewRefund
        <4> QED
          BY <3>3, <4>1 DEF RefuseRefund, providerVars, PaymentsTypeOK
      <3>4. CASE CommitRefund(f)
        <4>1. refund' \in [Refunds -> Rows]
          <5>0. refund[f] \in Rows
            BY <2>0
          <5>1. [refund[f] EXCEPT !.step = "committed"] \in Rows
            BY <5>0
          <5>2. refund' = [refund EXCEPT ![f] = [refund[f] EXCEPT !.step = "committed"]]
            BY <3>4 DEF CommitRefund
          <5> QED
            BY <2>0, <5>1, <5>2
        <4>2. payment' \in [Orders -> PaymentRows]
          <5>1. \/ payment' = payment
                \/ payment' = [payment EXCEPT ![refund[f].order] =
                                [payment[refund[f].order] EXCEPT !.status = "refunded"]]
            BY <3>4 DEF CommitRefund
          <5>2. refund[f].order \in Orders =>
                  [payment[refund[f].order] EXCEPT !.status = "refunded"] \in PaymentRows
            BY <2>0
          <5> QED
            BY <2>0, <5>1, <5>2
        <4> QED
          BY <3>4, <4>1, <4>2 DEF CommitRefund, providerVars, PaymentsTypeOK
      <3>5. CASE LoseRefund(f)
        <4>1. refund' \in [Refunds -> Rows]
          BY <2>0, <3>5 DEF LoseRefund, NewRefund
        <4>2. concurrent' \subseteq Orders
          BY <2>0, <3>5 DEF LoseRefund, PaymentsTypeOK, TraceInv, Shapes
        <4> QED
          BY <3>5, <4>1, <4>2 DEF LoseRefund, providerVars, PaymentsTypeOK
      <3> QED
        BY <2>6, <3>1, <3>2, <3>3, <3>4, <3>5 DEF Refund
    <2>7. ASSUME NEW report \in SUBSET Orders, import_settlements(report) PROVE PaymentsTypeOK'
      BY <2>7 DEF import_settlements, providerVars, refundVars, PaymentsTypeOK
    <2> QED
      BY <2>1, <2>2, <2>3, <2>4, <2>5, <2>6, <2>7 DEF PaymentsNext
  <1>3. PaymentsInit => TraceInv
    BY TraceInit
  <1>4. TraceInv /\ [PaymentsNext]_paymentVars => TraceInv'
    <2>1. CASE UNCHANGED paymentVars
      BY <2>1 DEF paymentVars, TraceInv, Shapes, TracedToCharge, PaidIsCharged, Charged
    <2> QED
      BY <2>1, CheckoutStep, WebhookStep, RefundStep DEF PaymentsNext
  <1> QED
    BY <1>1, <1>2, <1>3, <1>4, PTL DEF PaymentsSpec

-----------------------------------------------------------------------------
(* Returns.                                                                *)

ReturnRow == [status : {"absent"} \cup Decisions, resolution : {"none", "refund", "reject"},
              tier : {"none"} \cup Tiers]

\* What a request may have yet to do: any end of a plan.
Plans ==
  {<<"approved", "refund", "commit">>, <<"refund", "commit">>, <<"commit">>,
   <<"inspection_pending", "pickup", "commit">>, <<"pickup", "commit">>, <<"rejected", "commit">>,
   <<"commit", "approved">>, <<"commit", "rejected">>, <<"commit", "completed">>,
   <<"approved">>, <<"rejected">>, <<"completed">>}

ReturnCaller ==
  [op : {"create", "approve", "reject", "complete"}, on : ReturnRequests,
   tier : {"none"} \cup Tiers, loaded : ReturnRow, plan : Plans]

ReturnShapes ==
  /\ row \in [ReturnRequests -> ReturnRow]
  /\ published \in [ReturnRequests -> {"none"} \cup Decisions]
  /\ ordered \in [ReturnRequests -> SUBSET {"refund", "pickup"}]
  /\ failed \subseteq ReturnRequests /\ crossing \subseteq ReturnRequests
  /\ DOMAIN caller = Callers
  /\ \A c \in Callers : caller[c] # IdleCaller =>
       caller[c] \in ReturnCaller /\ (caller[c].op = "create" => caller[c].tier \in Tiers)

\* The row, the last event and the orders to other services agree.
Told(r) ==
  /\ published[r] = IF row[r].status = "absent" THEN "none" ELSE row[r].status
  /\ row[r].status = "approved" => row[r].resolution = "refund"
  /\ row[r].status = "rejected" => row[r].resolution = "reject"
  /\ "refund" \in ordered[r] => row[r].tier = "A"
  /\ "pickup" \in ordered[r] => row[r].tier = "B"

\* A new return that is under way: what its plan has published so far.
Creating(k, r) ==
  /\ k.op = "create" /\ k.loaded = NoRequestRow /\ row[r] = NoRequestRow
  /\ \/ /\ k.tier = "A"
        /\ \/ k.plan = <<"approved", "refund", "commit">> /\ published[r] = "none" /\ ordered[r] = {}
           \/ k.plan = <<"refund", "commit">> /\ published[r] = "approved" /\ ordered[r] = {}
           \/ k.plan = <<"commit">> /\ published[r] = "approved" /\ ordered[r] = {"refund"}
     \/ /\ k.tier = "B"
        /\ \/ /\ k.plan = <<"inspection_pending", "pickup", "commit">>
              /\ published[r] = "none" /\ ordered[r] = {}
           \/ k.plan = <<"pickup", "commit">> /\ published[r] = "inspection_pending" /\ ordered[r] = {}
           \/ /\ k.plan = <<"commit">>
              /\ published[r] = "inspection_pending" /\ ordered[r] = {"pickup"}
     \/ /\ k.tier = "C" /\ ordered[r] = {}
        /\ \/ k.plan = <<"rejected", "commit">> /\ published[r] = "none"
           \/ k.plan = <<"commit">> /\ published[r] = "rejected"

\* The event of a later decision.
Verdict(op) ==
  CASE op = "approve" -> "approved" [] op = "reject" -> "rejected" [] op = "complete" -> "completed"

\* A later decision that is under way: its row is committed first and told then.
Deciding(k, r) ==
  /\ k.op \in {"approve", "reject", "complete"} /\ k.tier = row[r].tier
  /\ \/ k.plan = <<"commit", Verdict(k.op)>> /\ k.loaded = row[r] /\ Told(r)
     \/ /\ k.plan = <<Verdict(k.op)>> /\ row[r].status = Verdict(k.op)
        /\ row[r].status = "approved" => row[r].resolution = "refund"
        /\ row[r].status = "rejected" => row[r].resolution = "reject"
        /\ "refund" \in ordered[r] => row[r].tier = "A"
        /\ "pickup" \in ordered[r] => row[r].tier = "B"

\* A return whose requests came one at a time and all finished: nobody works on
\* it and it is told, or one request does and is as far as its plan says.
InOrder(r) ==
  /\ \A c, d \in Callers : WorksOn(c, r) /\ WorksOn(d, r) => c = d
  /\ Untouched(r) => Told(r)
  /\ \A c \in Callers : WorksOn(c, r) => Creating(caller[c], r) \/ Deciding(caller[c], r)

ReturnInv ==
  /\ ReturnShapes
  /\ \A r \in ReturnRequests \ (failed \cup crossing) : InOrder(r)

LEMMA ReturnInit == ASSUME ReturnsInit PROVE ReturnInv
  <1> USE DEF ReturnsInit, NoRequestRow, IdleCaller
  <1>1. ReturnShapes
    BY DEF ReturnShapes, ReturnRow, Decisions, Tiers
  <1>2. \A r \in ReturnRequests : InOrder(r)
    BY DEF InOrder, Untouched, WorksOn, Told
  <1> QED
    BY <1>1, <1>2 DEF ReturnInv

\* A step on another return changes nothing of this one.
LEMMA InOrderKept ==
  ASSUME NEW r \in ReturnRequests, InOrder(r), row'[r] = row[r], published'[r] = published[r],
         ordered'[r] = ordered[r],
         \A c \in Callers : /\ WorksOn(c, r)' <=> WorksOn(c, r)
                            /\ WorksOn(c, r) => caller'[c] = caller[c]
  PROVE  InOrder(r)'
  <1>1. Told(r)' = Told(r)
    BY DEF Told
  <1>2. Untouched(r)' = Untouched(r)
    BY DEF Untouched
  <1>3. ASSUME NEW c \in Callers, WorksOn(c, r)'
        PROVE  Creating(caller[c], r)' \/ Deciding(caller[c], r)'
    BY <1>1, <1>3 DEF InOrder, Creating, Deciding
  <1> QED
    BY <1>1, <1>2, <1>3 DEF InOrder

\* A request begins: the return is as it is told.
LEMMA ReturnBegins ==
  ASSUME ReturnInv, NEW c \in Callers, NEW r \in ReturnRequests, NEW op, NEW tier,
         Start(c, r, op, tier),
         \/ /\ op = "create" /\ tier \in Tiers
            /\ row[r] = NoRequestRow /\ published[r] = "none" /\ r \notin failed
            /\ \A d \in Callers : ~WorksOn(d, r)
         \/ op \in {"approve", "reject", "complete"} /\ tier = row[r].tier
  PROVE  ReturnInv'
  <1>1. /\ UNCHANGED <<row, published, ordered, failed>> /\ caller[c] = IdleCaller
        /\ DOMAIN caller' = Callers
        /\ \A d \in Callers : d # c => caller'[d] = caller[d]
        /\ caller'[c] = [op |-> op, on |-> r, tier |-> tier, loaded |-> row[r], plan |-> Plan(tier, op)]
        /\ crossing \subseteq crossing'
        /\ (\E d \in Callers : WorksOn(d, r)) => r \in crossing'
    BY DEF Start, ReturnInv, ReturnShapes
  <1>2. ReturnShapes'
    <2>1. ReturnShapes /\ row[r] \in ReturnRow /\ row[r].tier \in {"none"} \cup Tiers
      BY DEF ReturnInv, ReturnShapes, ReturnRow
    <2>2. Plan(tier, op) \in Plans
      BY DEF Plan, Plans, Tiers
    <2>3. /\ caller'[c] \in ReturnCaller /\ caller'[c].on = r
          /\ caller'[c].op = "create" => caller'[c].tier \in Tiers
      BY <1>1, <2>1, <2>2 DEF ReturnCaller
    <2>4. crossing' \subseteq ReturnRequests
      BY <2>1 DEF Start, ReturnShapes
    <2> QED
      BY <1>1, <2>1, <2>3, <2>4 DEF ReturnShapes
  <1>3. \A d \in Callers, x \in ReturnRequests :
          d # c => (WorksOn(d, x)' <=> WorksOn(d, x))
    BY <1>1 DEF WorksOn
  <1>4. \A x \in ReturnRequests : ~WorksOn(c, x) /\ (WorksOn(c, x)' => x = r)
    BY <1>1 DEF WorksOn
  <1>5. ASSUME NEW x \in ReturnRequests \ (failed \cup crossing)', x # r PROVE InOrder(x)'
    <2>1. InOrder(x)
      BY <1>1, <1>5 DEF ReturnInv
    <2> QED
      BY <2>1, <1>1, <1>3, <1>4, <1>5, InOrderKept
  <1>6. ASSUME r \notin (failed \cup crossing)' PROVE InOrder(r)'
    <2>1. Untouched(r) /\ InOrder(r)
      BY <1>1, <1>6 DEF ReturnInv, Untouched
    <2>2. Told(r) /\ Told(r)' = Told(r)
      BY <2>1, <1>1 DEF InOrder, Told
    <2>3. \A d \in Callers : WorksOn(d, r)' => d = c
      BY <2>1, <1>3 DEF Untouched
    <2>4. WorksOn(c, r)'
      BY <1>1 DEF WorksOn, IdleCaller
    <2>5. CASE op = "create" /\ tier \in Tiers /\ row[r] = NoRequestRow /\ published[r] = "none"
      <3>1. ordered[r] = {}
        <4>1. ordered[r] \subseteq {"refund", "pickup"}
          BY DEF ReturnInv, ReturnShapes
        <4>2. "refund" \notin ordered[r] /\ "pickup" \notin ordered[r]
          BY <2>2, <2>5 DEF Told, NoRequestRow
        <4> QED
          BY <4>1, <4>2
      <3>2. Plan(tier, op) = CASE tier = "A" -> <<"approved", "refund", "commit">>
                               [] tier = "B" -> <<"inspection_pending", "pickup", "commit">>
                               [] tier = "C" -> <<"rejected", "commit">>
        BY <2>5 DEF Plan, Tiers
      <3>3. Creating(caller[c], r)'
        BY <2>5, <3>1, <3>2, <1>1 DEF Creating, Tiers
      <3> QED
        BY <2>3, <2>4, <3>3 DEF InOrder, Untouched
    <2>6. CASE op \in {"approve", "reject", "complete"} /\ tier = row[r].tier
      <3>1. Plan(tier, op) = <<"commit", Verdict(op)>>
        BY <2>6 DEF Plan, Verdict
      <3>2. Deciding(caller[c], r)'
        BY <2>6, <2>2, <3>1, <1>1 DEF Deciding
      <3> QED
        BY <2>3, <2>4, <3>2 DEF InOrder, Untouched
    <2> QED
      BY <2>5, <2>6
  <1> QED
    BY <1>1, <1>2, <1>5, <1>6 DEF ReturnInv

\* What a request that is under way holds.
LEMMA CallerHolds ==
  ASSUME ReturnShapes, NEW c \in Callers, caller[c] # IdleCaller
  PROVE  /\ caller[c] \in ReturnCaller /\ caller[c].on \in ReturnRequests
         /\ caller[c].plan \in Plans /\ caller[c].loaded \in ReturnRow
         /\ caller[c].op \in {"create", "approve", "reject", "complete"}
         /\ caller[c].tier \in {"none"} \cup Tiers
         /\ caller[c].op = "create" => caller[c].tier \in Tiers
         /\ WorksOn(c, caller[c].on)
         /\ \A r \in ReturnRequests : WorksOn(c, r) => r = caller[c].on
  BY DEF ReturnShapes, ReturnCaller, WorksOn

\* The next step of a plan, and what is left after it.
LEMMA PlanEnds ==
  ASSUME NEW plan \in Plans
  PROVE  /\ Len(plan) # 1 => Tail(plan) \in Plans
         /\ Head(plan) \in {"commit", "refund", "pickup"} \cup Decisions
  <1>1. /\ Tail(<<"approved", "refund", "commit">>) = <<"refund", "commit">>
        /\ Tail(<<"inspection_pending", "pickup", "commit">>) = <<"pickup", "commit">>
        /\ Tail(<<"rejected", "commit">>) = <<"commit">>
        /\ Tail(<<"refund", "commit">>) = <<"commit">>
        /\ Tail(<<"pickup", "commit">>) = <<"commit">>
        /\ Tail(<<"commit", "approved">>) = <<"approved">>
        /\ Tail(<<"commit", "rejected">>) = <<"rejected">>
        /\ Tail(<<"commit", "completed">>) = <<"completed">>
    OBVIOUS
  <1>2. Len(plan) # 1 => plan \notin {<<"commit">>, <<"approved">>, <<"rejected">>, <<"completed">>}
    OBVIOUS
  <1>3. Head(plan) \in {"commit", "refund", "pickup"} \cup Decisions
    BY DEF Plans, Decisions
  <1> QED
    BY <1>1, <1>2, <1>3 DEF Plans

\* After its step a request is idle, or holds the rest of its plan.
LEMMA Advances ==
  ASSUME ReturnShapes, NEW c \in Callers, caller[c] # IdleCaller, Advance(c)
  PROVE  /\ DOMAIN caller' = Callers
         /\ \A d \in Callers : d # c => caller'[d] = caller[d]
         /\ Len(caller[c].plan) = 1 => caller'[c] = IdleCaller
         /\ Len(caller[c].plan) # 1 =>
              /\ caller'[c] # IdleCaller
              /\ caller'[c] = [op |-> caller[c].op, on |-> caller[c].on, tier |-> caller[c].tier,
                               loaded |-> caller[c].loaded, plan |-> Tail(caller[c].plan)]
              /\ caller'[c] \in ReturnCaller
  <1>1. caller[c] \in ReturnCaller /\ DOMAIN caller = Callers
    BY CallerHolds DEF ReturnShapes
  <1>2. /\ DOMAIN caller' = Callers
        /\ \A d \in Callers : d # c => caller'[d] = caller[d]
        /\ caller'[c] = IF Len(caller[c].plan) = 1 THEN IdleCaller
                        ELSE [caller[c] EXCEPT !.plan = Tail(caller[c].plan)]
    BY <1>1 DEF Advance
  <1>3. ASSUME NEW k \in ReturnCaller, NEW rest \in Plans
        PROVE  /\ [k EXCEPT !.plan = rest] \in ReturnCaller
               /\ [k EXCEPT !.plan = rest] = [op |-> k.op, on |-> k.on, tier |-> k.tier,
                                              loaded |-> k.loaded, plan |-> rest]
               /\ [k EXCEPT !.plan = rest].op \in {"create", "approve", "reject", "complete"}
    BY <1>3 DEF ReturnCaller
  <1>4. Len(caller[c].plan) # 1 => Tail(caller[c].plan) \in Plans
    BY CallerHolds, PlanEnds
  <1>5. ASSUME Len(caller[c].plan) # 1
        PROVE  /\ caller'[c] \in ReturnCaller /\ caller'[c].op # "idle"
               /\ caller'[c] = [op |-> caller[c].op, on |-> caller[c].on, tier |-> caller[c].tier,
                                loaded |-> caller[c].loaded, plan |-> Tail(caller[c].plan)]
    <2> DEFINE k == caller[c]
               rest == Tail(caller[c].plan)
    <2>1. caller'[c] = [k EXCEPT !.plan = rest]
      BY <1>2, <1>5
    <2>2. k \in ReturnCaller /\ rest \in Plans
      BY <1>1, <1>4, <1>5
    <2>3. /\ caller'[c] \in ReturnCaller
          /\ caller'[c].op \in {"create", "approve", "reject", "complete"}
          /\ caller'[c] = [op |-> k.op, on |-> k.on, tier |-> k.tier, loaded |-> k.loaded, plan |-> rest]
      <3> HIDE DEF k, rest
      <3> QED
        BY <2>1, <2>2, <1>3
    <2> QED
      BY <2>3
  <1> QED
    BY <1>2, <1>5 DEF IdleCaller

\* The commit: the row takes the decision on what was loaded.
LEMMA CommittedRow ==
  ASSUME ReturnShapes, NEW c \in Callers, CommitReturn(c)
  PROVE  LET k == caller[c]
             new == Decision(k.tier, k.op, k.loaded.resolution)
         IN  /\ row' \in [ReturnRequests -> ReturnRow]
             /\ \A r \in ReturnRequests : r # k.on => row'[r] = row[r]
             /\ k.loaded = row[k.on] =>
                  row'[k.on] = [status |-> new.status, resolution |-> new.resolution, tier |-> k.tier]
  <1> DEFINE k == caller[c]
             new == Decision(k.tier, k.op, k.loaded.resolution)
             r == k.on
             s == IF new.status = k.loaded.status THEN row[r].status ELSE new.status
             z == IF new.resolution = k.loaded.resolution THEN row[r].resolution ELSE new.resolution
  <1>1. /\ k # IdleCaller /\ r \in ReturnRequests /\ k.tier \in {"none"} \cup Tiers
        /\ k.op \in {"create", "approve", "reject", "complete"}
        /\ k.op = "create" => k.tier \in Tiers
        /\ k.loaded \in ReturnRow /\ row \in [ReturnRequests -> ReturnRow]
    BY CallerHolds DEF CommitReturn, ReturnShapes
  <1>2. k.loaded.resolution \in {"none", "refund", "reject"}
    BY <1>1 DEF ReturnRow
  <1>3. new.status \in Decisions /\ new.resolution \in {"none", "refund", "reject"}
    BY <1>1, <1>2 DEF Decision, Decisions, Tiers
  <1>4. row[r].status \in {"absent"} \cup Decisions /\ row[r].resolution \in {"none", "refund", "reject"}
    BY <1>1 DEF ReturnRow
  <1>5. row' = [row EXCEPT ![r] = [[[row[r] EXCEPT !.status = s] EXCEPT !.resolution = z] EXCEPT !.tier = k.tier]]
    <2>1. row' = [row EXCEPT ![r].status = IF new.status = k.loaded.status THEN @ ELSE new.status,
                             ![r].resolution = IF new.resolution = k.loaded.resolution THEN @
                                               ELSE new.resolution,
                             ![r].tier = k.tier]
      BY DEF CommitReturn
    <2>2. row[r] \in ReturnRow
      BY <1>1
    <2> HIDE DEF new, k
    <2> QED
      BY <1>1, <2>1, <2>2 DEF ReturnRow
  <1>7. row'[r] = [status |-> s, resolution |-> z, tier |-> k.tier]
    <2> DEFINE y == row[r]
               y1 == [y EXCEPT !.status = s]
               y2 == [y1 EXCEPT !.resolution = z]
    <2>1. row'[r] = [y2 EXCEPT !.tier = k.tier]
      BY <1>1, <1>5
    <2> HIDE DEF k, r, s, z
    <2>2. y = [status |-> y.status, resolution |-> y.resolution, tier |-> y.tier]
      BY <1>1 DEF ReturnRow
    <2> HIDE DEF y
    <2>3. y1 = [status |-> s, resolution |-> y.resolution, tier |-> y.tier]
      BY <2>2
    <2> HIDE DEF y1
    <2>4. y2 = [status |-> s, resolution |-> z, tier |-> y.tier]
      BY <2>3
    <2> HIDE DEF y2
    <2>5. [y2 EXCEPT !.tier = k.tier] = [status |-> s, resolution |-> z, tier |-> k.tier]
      BY <2>4
    <2> QED
      BY <2>1, <2>5
  <1>8. row'[r] \in ReturnRow
    BY <1>1, <1>3, <1>4, <1>7 DEF ReturnRow
  <1>9. k.loaded = row[r] => s = new.status /\ z = new.resolution
    OBVIOUS
  <1> HIDE DEF new, s, z, r, k
  <1>10. /\ row' \in [ReturnRequests -> ReturnRow]
         /\ \A x \in ReturnRequests : x # r => row'[x] = row[x]
    BY <1>1, <1>5, <1>7, <1>8
  <1> QED
    BY <1>7, <1>9, <1>10 DEF r, k, new

\* What a step of one request says of who works on what.
LEMMA WorkersAfter ==
  ASSUME ReturnShapes, NEW c \in Callers, caller[c] # IdleCaller,
         NEW r \in ReturnRequests, r = caller[c].on,
         caller'[c] = IdleCaller \/ caller'[c].on = r,
         \A d \in Callers : d # c => caller'[d] = caller[d]
  PROVE  /\ \A d \in Callers, x \in ReturnRequests : d # c => (WorksOn(d, x)' <=> WorksOn(d, x))
         /\ \A x \in ReturnRequests : WorksOn(c, x) \/ WorksOn(c, x)' => x = r
         /\ WorksOn(c, r)
         /\ WorksOn(c, r)' <=> caller'[c] # IdleCaller
  BY DEF WorksOn

\* A request that works on its return and leaves the others alone keeps the
\* invariant if it leaves its own return told, or as far as its plan says.
LEMMA OneWorker ==
  ASSUME ReturnInv, ReturnShapes', NEW c \in Callers, caller[c] # IdleCaller,
         NEW r \in ReturnRequests, r = caller[c].on,
         caller'[c] = IdleCaller \/ caller'[c].on = r,
         \A d \in Callers : d # c => caller'[d] = caller[d],
         \A x \in ReturnRequests : x # r =>
            row'[x] = row[x] /\ published'[x] = published[x] /\ ordered'[x] = ordered[x],
         failed \subseteq failed', crossing' = crossing,
         r \notin failed' \cup crossing /\ InOrder(r) =>
           IF caller'[c] = IdleCaller THEN Told(r)'
           ELSE Creating(caller[c], r)' \/ Deciding(caller[c], r)'
  PROVE  ReturnInv'
  <1>1. ReturnShapes
    BY DEF ReturnInv
  <1>2. /\ \A d \in Callers, x \in ReturnRequests : d # c =>
             (WorksOn(d, x)' <=> WorksOn(d, x)) /\ caller'[d] = caller[d]
        /\ \A x \in ReturnRequests : (WorksOn(c, x) \/ WorksOn(c, x)') => x = r
        /\ WorksOn(c, r)
        /\ caller'[c] = IdleCaller => ~WorksOn(c, r)'
        /\ caller'[c] # IdleCaller => WorksOn(c, r)'
    BY <1>1, WorkersAfter
  <1>3. ASSUME NEW x \in ReturnRequests \ (failed \cup crossing)' PROVE InOrder(x)'
    <2>1. InOrder(x)
      BY <1>3 DEF ReturnInv
    <2>2. CASE x # r
      <3>1. \A d \in Callers : /\ WorksOn(d, x)' <=> WorksOn(d, x)
                               /\ WorksOn(d, x) => caller'[d] = caller[d]
        BY <1>2, <2>2
      <3> QED
        BY <2>1, <2>2, <3>1, InOrderKept
    <2>3. CASE x = r
      <3>1. \A d \in Callers : WorksOn(d, r) => d = c
        BY <1>2, <2>1, <2>3 DEF InOrder
      <3>2. \A d \in Callers : WorksOn(d, r)' => d = c
        BY <1>2, <3>1
      <3>3. r \notin failed' \cup crossing /\ InOrder(r)
        BY <1>3, <2>1, <2>3
      <3>4. CASE caller'[c] = IdleCaller
        BY <1>2, <2>3, <3>2, <3>3, <3>4 DEF InOrder
      <3>5. CASE caller'[c] # IdleCaller
        <4>1. Creating(caller[c], r)' \/ Deciding(caller[c], r)'
          BY <3>3, <3>5
        <4>2. WorksOn(c, r)'
          BY <1>2, <3>5
        <4> QED
          BY <2>3, <3>2, <4>1, <4>2 DEF InOrder, Untouched
      <3> QED
        BY <3>4, <3>5
    <2> QED
      BY <2>2, <2>3
  <1> QED
    BY <1>3 DEF ReturnInv

\* The ends of plans, taken apart.
LEMMA PlanParts ==
  /\ Head(<<"commit">>) = "commit" /\ Len(<<"commit">>) = 1
  /\ \A e \in Decisions : /\ Head(<<e>>) = e /\ Len(<<e>>) = 1
                          /\ Head(<<"commit", e>>) = "commit" /\ Len(<<"commit", e>>) = 2
                          /\ Tail(<<"commit", e>>) = <<e>>
  /\ Head(<<"approved", "refund", "commit">>) = "approved"
  /\ Tail(<<"approved", "refund", "commit">>) = <<"refund", "commit">>
  /\ Len(<<"approved", "refund", "commit">>) = 3
  /\ Head(<<"refund", "commit">>) = "refund" /\ Tail(<<"refund", "commit">>) = <<"commit">>
  /\ Len(<<"refund", "commit">>) = 2
  /\ Head(<<"inspection_pending", "pickup", "commit">>) = "inspection_pending"
  /\ Tail(<<"inspection_pending", "pickup", "commit">>) = <<"pickup", "commit">>
  /\ Len(<<"inspection_pending", "pickup", "commit">>) = 3
  /\ Head(<<"pickup", "commit">>) = "pickup" /\ Tail(<<"pickup", "commit">>) = <<"commit">>
  /\ Len(<<"pickup", "commit">>) = 2
  /\ Head(<<"rejected", "commit">>) = "rejected" /\ Tail(<<"rejected", "commit">>) = <<"commit">>
  /\ Len(<<"rejected", "commit">>) = 2
  OBVIOUS

\* The decision is committed.
LEMMA CommitInv ==
  ASSUME ReturnInv, NEW c \in Callers, CommitReturn(c)
  PROVE  ReturnInv'
  <1> DEFINE k == caller[c]
  <1>0. PICK r \in ReturnRequests : r = k.on
    BY CallerHolds DEF ReturnInv, CommitReturn
  <1>1. /\ ReturnShapes /\ k # IdleCaller /\ r = k.on /\ k \in ReturnCaller
        /\ Head(k.plan) = "commit" /\ Advance(c)
        /\ UNCHANGED <<published, ordered, failed, crossing>>
    BY <1>0, CallerHolds DEF ReturnInv, CommitReturn, Ahead
  <1>2. /\ DOMAIN caller' = Callers
        /\ \A d \in Callers : d # c => caller'[d] = caller[d]
        /\ Len(k.plan) = 1 => caller'[c] = IdleCaller
        /\ Len(k.plan) # 1 =>
             /\ caller'[c] # IdleCaller /\ caller'[c] \in ReturnCaller
             /\ caller'[c] = [op |-> k.op, on |-> r, tier |-> k.tier, loaded |-> k.loaded,
                              plan |-> Tail(k.plan)]
    BY <1>1, Advances
  <1>3. /\ row' \in [ReturnRequests -> ReturnRow]
        /\ \A x \in ReturnRequests : x # r => row'[x] = row[x]
        /\ k.loaded = row[r] =>
             row'[r] = [status |-> Decision(k.tier, k.op, k.loaded.resolution).status,
                        resolution |-> Decision(k.tier, k.op, k.loaded.resolution).resolution,
                        tier |-> k.tier]
    BY <1>1, CommittedRow
  <1>4. caller'[c] # IdleCaller =>
          caller'[c] \in ReturnCaller /\ (caller'[c].op = "create" => caller'[c].tier \in Tiers)
    BY <1>1, <1>2 DEF ReturnShapes
  <1>5. ReturnShapes'
    BY <1>1, <1>2, <1>3, <1>4 DEF ReturnShapes
  <1>6. ASSUME Creating(k, r)
        PROVE  caller'[c] = IdleCaller /\ Told(r)'
    <2>1. k.plan = <<"commit">> /\ k.op = "create" /\ k.loaded = row[r]
      BY <1>1, <1>6, PlanParts DEF Creating
    <2>2. caller'[c] = IdleCaller
      BY <1>2, <2>1, PlanParts
    <2>3. \/ k.tier = "A" /\ published[r] = "approved" /\ ordered[r] = {"refund"}
          \/ k.tier = "B" /\ published[r] = "inspection_pending" /\ ordered[r] = {"pickup"}
          \/ k.tier = "C" /\ published[r] = "rejected" /\ ordered[r] = {}
      BY <1>6, <2>1, <1>1, PlanParts DEF Creating
    <2>4. \/ k.tier = "A" /\ Decision(k.tier, k.op, k.loaded.resolution) =
                               [status |-> "approved", resolution |-> "refund"]
          \/ k.tier = "B" /\ Decision(k.tier, k.op, k.loaded.resolution) =
                               [status |-> "inspection_pending", resolution |-> "none"]
          \/ k.tier = "C" /\ Decision(k.tier, k.op, k.loaded.resolution) =
                               [status |-> "rejected", resolution |-> "reject"]
      BY <2>1, <2>3 DEF Decision
    <2>5. \/ /\ k.tier = "A" /\ row'[r].status = "approved" /\ row'[r].resolution = "refund"
             /\ row'[r].tier = "A"
          \/ k.tier = "B" /\ row'[r].status = "inspection_pending" /\ row'[r].tier = "B"
          \/ /\ k.tier = "C" /\ row'[r].status = "rejected" /\ row'[r].resolution = "reject"
      BY <1>3, <2>1, <2>4
    <2> QED
      BY <1>1, <2>2, <2>3, <2>5 DEF Told
  <1>7. ASSUME Deciding(k, r)
        PROVE  caller'[c] # IdleCaller /\ Deciding(caller[c], r)'
    <2>1. k.op \in {"approve", "reject", "complete"} /\ Verdict(k.op) \in Decisions
      BY <1>7 DEF Deciding, Verdict, Decisions
    <2>2. k.plan = <<"commit", Verdict(k.op)>> /\ k.loaded = row[r] /\ Told(r) /\ k.tier = row[r].tier
      BY <1>1, <1>7, <2>1, PlanParts DEF Deciding, Decisions
    <2>3. /\ caller'[c] # IdleCaller /\ caller'[c].plan = <<Verdict(k.op)>>
          /\ caller'[c].op = k.op /\ caller'[c].tier = k.tier
      BY <1>2, <2>1, <2>2, PlanParts
    <2>4. /\ Decision(k.tier, k.op, k.loaded.resolution).status = Verdict(k.op)
          /\ k.op = "approve" => Decision(k.tier, k.op, k.loaded.resolution).resolution = "refund"
          /\ k.op = "reject" => Decision(k.tier, k.op, k.loaded.resolution).resolution = "reject"
      BY <2>1 DEF Decision, Verdict
    <2>5. /\ row'[r].status = Verdict(k.op) /\ row'[r].tier = row[r].tier
          /\ k.op = "approve" => row'[r].resolution = "refund"
          /\ k.op = "reject" => row'[r].resolution = "reject"
      BY <1>3, <2>2, <2>4
    <2>6. /\ row'[r].status = "approved" => row'[r].resolution = "refund"
          /\ row'[r].status = "rejected" => row'[r].resolution = "reject"
      BY <2>1, <2>5 DEF Verdict
    <2>7. /\ "refund" \in ordered'[r] => row'[r].tier = "A"
          /\ "pickup" \in ordered'[r] => row'[r].tier = "B"
      BY <1>1, <2>2, <2>5 DEF Told
    <2> QED
      BY <2>1, <2>2, <2>3, <2>5, <2>6, <2>7 DEF Deciding
  <1>8. InOrder(r) => Creating(k, r) \/ Deciding(k, r)
    BY <1>1, CallerHolds DEF InOrder
  <1>9. caller'[c] = IdleCaller \/ caller'[c].on = r
    BY <1>2
  <1> QED
    BY <1>1, <1>2, <1>3, <1>5, <1>6, <1>7, <1>8, <1>9, OneWorker

\* An event goes out, or another service is asked.
LEMMA PublishInv ==
  ASSUME ReturnInv, NEW c \in Callers, PublishReturn(c)
  PROVE  ReturnInv'
  <1> DEFINE k == caller[c]
  <1>0. PICK r \in ReturnRequests : r = k.on
    BY CallerHolds DEF ReturnInv, PublishReturn
  <1>1. /\ ReturnShapes /\ k # IdleCaller /\ r = k.on /\ k \in ReturnCaller
        /\ Head(k.plan) # "commit" /\ Advance(c)
        /\ UNCHANGED <<row, failed, crossing>>
    BY <1>0, CallerHolds DEF ReturnInv, PublishReturn, Ahead
  <1>2. /\ DOMAIN caller' = Callers
        /\ \A d \in Callers : d # c => caller'[d] = caller[d]
        /\ Len(k.plan) = 1 => caller'[c] = IdleCaller
        /\ Len(k.plan) # 1 =>
             /\ caller'[c] # IdleCaller /\ caller'[c] \in ReturnCaller
             /\ caller'[c] = [op |-> k.op, on |-> r, tier |-> k.tier, loaded |-> k.loaded,
                              plan |-> Tail(k.plan)]
    BY <1>1, Advances
  <1>3. Head(k.plan) \in {"refund", "pickup"} \cup Decisions
    BY <1>1, CallerHolds, PlanEnds
  <1>4. \/ /\ Head(k.plan) \in {"refund", "pickup"} /\ UNCHANGED published
           /\ ordered' = [ordered EXCEPT ![r] = @ \cup {Head(k.plan)}]
        \/ /\ Head(k.plan) \in Decisions /\ UNCHANGED ordered
           /\ published' = [published EXCEPT ![r] = Head(k.plan)]
    BY <1>1, <1>3 DEF PublishReturn, Ahead, Decisions
  <1>5. /\ published' \in [ReturnRequests -> {"none"} \cup Decisions]
        /\ ordered' \in [ReturnRequests -> SUBSET {"refund", "pickup"}]
        /\ \A x \in ReturnRequests : x # r => published'[x] = published[x] /\ ordered'[x] = ordered[x]
        /\ Head(k.plan) \in Decisions => published'[r] = Head(k.plan) /\ ordered'[r] = ordered[r]
        /\ Head(k.plan) \in {"refund", "pickup"} =>
             published'[r] = published[r] /\ ordered'[r] = ordered[r] \cup {Head(k.plan)}
    <2>1. /\ published \in [ReturnRequests -> {"none"} \cup Decisions]
          /\ ordered \in [ReturnRequests -> SUBSET {"refund", "pickup"}]
      BY <1>1 DEF ReturnShapes
    <2>2. "refund" \notin Decisions /\ "pickup" \notin Decisions
      BY DEF Decisions
    <2> DEFINE h == Head(k.plan)
    <2> HIDE DEF h
    <2>3. \/ /\ h \in {"refund", "pickup"} /\ UNCHANGED published
             /\ ordered' = [ordered EXCEPT ![r] = @ \cup {h}]
          \/ /\ h \in Decisions /\ UNCHANGED ordered
             /\ published' = [published EXCEPT ![r] = h]
      BY <1>4 DEF h
    <2>4. /\ published' \in [ReturnRequests -> {"none"} \cup Decisions]
          /\ ordered' \in [ReturnRequests -> SUBSET {"refund", "pickup"}]
      BY <2>1, <2>3
    <2>5. /\ \A x \in ReturnRequests : x # r => published'[x] = published[x] /\ ordered'[x] = ordered[x]
          /\ h \in Decisions => published'[r] = h /\ ordered'[r] = ordered[r]
          /\ h \in {"refund", "pickup"} =>
               published'[r] = published[r] /\ ordered'[r] = ordered[r] \cup {h}
      BY <2>1, <2>2, <2>3
    <2> QED
      BY <2>4, <2>5 DEF h
  <1>6. caller'[c] # IdleCaller =>
          caller'[c] \in ReturnCaller /\ (caller'[c].op = "create" => caller'[c].tier \in Tiers)
    BY <1>1, <1>2 DEF ReturnShapes
  <1>7. ReturnShapes'
    BY <1>1, <1>2, <1>5, <1>6 DEF ReturnShapes
  <1>8. ASSUME Creating(k, r)
        PROVE  caller'[c] # IdleCaller /\ Creating(caller[c], r)'
    <2>1. k.plan # <<"commit">>
      BY <1>1, PlanParts
    <2>2. CASE k.tier = "A"
      <3>1. CASE k.plan = <<"approved", "refund", "commit">> /\ published[r] = "none" /\ ordered[r] = {}
        BY <1>1, <1>2, <1>5, <1>8, <2>2, <3>1, PlanParts DEF Creating, Decisions
      <3>2. CASE k.plan = <<"refund", "commit">> /\ published[r] = "approved" /\ ordered[r] = {}
        BY <1>1, <1>2, <1>5, <1>8, <2>2, <3>2, PlanParts DEF Creating
      <3> QED
        BY <1>8, <2>1, <2>2, <3>1, <3>2 DEF Creating
    <2>3. CASE k.tier = "B"
      <3>1. CASE /\ k.plan = <<"inspection_pending", "pickup", "commit">>
                 /\ published[r] = "none" /\ ordered[r] = {}
        BY <1>1, <1>2, <1>5, <1>8, <2>3, <3>1, PlanParts DEF Creating, Decisions
      <3>2. CASE k.plan = <<"pickup", "commit">> /\ published[r] = "inspection_pending" /\ ordered[r] = {}
        BY <1>1, <1>2, <1>5, <1>8, <2>3, <3>2, PlanParts DEF Creating
      <3> QED
        BY <1>8, <2>1, <2>3, <3>1, <3>2 DEF Creating
    <2>4. CASE k.tier = "C"
      <3>1. k.plan = <<"rejected", "commit">> /\ published[r] = "none" /\ ordered[r] = {}
        BY <1>8, <2>1, <2>4 DEF Creating
      <3> QED
        BY <1>1, <1>2, <1>5, <1>8, <2>4, <3>1, PlanParts DEF Creating, Decisions
    <2> QED
      BY <1>8, <2>2, <2>3, <2>4 DEF Creating
  <1>9. ASSUME Deciding(k, r)
        PROVE  caller'[c] = IdleCaller /\ Told(r)'
    <2>1. k.op \in {"approve", "reject", "complete"} /\ Verdict(k.op) \in Decisions
          /\ Verdict(k.op) # "absent"
      BY <1>9 DEF Deciding, Verdict, Decisions
    <2>2. k.plan = <<Verdict(k.op)>> /\ row[r].status = Verdict(k.op)
      BY <1>1, <1>9, <2>1, PlanParts DEF Deciding
    <2>3. caller'[c] = IdleCaller /\ published'[r] = row[r].status /\ ordered'[r] = ordered[r]
      BY <1>2, <1>5, <2>1, <2>2, PlanParts
    <2>4. /\ row[r].status = "approved" => row[r].resolution = "refund"
          /\ row[r].status = "rejected" => row[r].resolution = "reject"
          /\ "refund" \in ordered[r] => row[r].tier = "A"
          /\ "pickup" \in ordered[r] => row[r].tier = "B"
      BY <1>9 DEF Deciding, Told
    <2> QED
      BY <1>1, <2>1, <2>2, <2>3, <2>4 DEF Told
  <1>10. InOrder(r) => Creating(k, r) \/ Deciding(k, r)
    BY <1>1, CallerHolds DEF InOrder
  <1>11. caller'[c] = IdleCaller \/ caller'[c].on = r
    BY <1>2
  <1>12. \A x \in ReturnRequests : row'[x] = row[x]
    BY <1>1
  <1> QED
    BY <1>1, <1>2, <1>5, <1>7, <1>8, <1>9, <1>10, <1>11, <1>12, OneWorker

\* A request ends half-way: its return is one of those that failed.
LEMMA AbandonInv ==
  ASSUME ReturnInv, NEW c \in Callers, AbandonReturn(c)
  PROVE  ReturnInv'
  <1>0. PICK r \in ReturnRequests : r = caller[c].on
    BY CallerHolds DEF ReturnInv, AbandonReturn
  <1>1. /\ ReturnShapes /\ caller[c] # IdleCaller /\ r = caller[c].on
        /\ UNCHANGED <<row, published, ordered, crossing>>
        /\ failed' = failed \cup {r}
        /\ DOMAIN caller' = Callers
        /\ \A d \in Callers : d # c => caller'[d] = caller[d]
        /\ caller'[c] = IdleCaller
    BY <1>0 DEF ReturnInv, ReturnShapes, AbandonReturn
  <1>2. ReturnShapes'
    BY <1>1 DEF ReturnShapes
  <1>3. r \in failed' /\ failed \subseteq failed'
    BY <1>1
  <1> QED
    BY <1>1, <1>2, <1>3, OneWorker

\* The inductive invariant of the returns.
THEOREM ReturnsInvariant == ReturnsSpec => []ReturnInv
  <1>1. ReturnsInit => ReturnInv
    BY ReturnInit
  <1>2. ReturnInv /\ [ReturnsNext]_returnsVars => ReturnInv'
    <2> SUFFICES ASSUME ReturnInv, [ReturnsNext]_returnsVars
                 PROVE  ReturnInv'
      OBVIOUS
    <2>1. CASE UNCHANGED returnsVars
      BY <2>1 DEF returnsVars, ReturnInv, ReturnShapes, InOrder, Untouched, WorksOn, Told,
         Creating, Deciding
    <2>2. ASSUME NEW c \in Callers, CallerStep(c) PROVE ReturnInv'
      <3>1. CASE CommitReturn(c)
        BY <3>1, CommitInv
      <3>2. CASE PublishReturn(c)
        BY <3>2, PublishInv
      <3>3. CASE AbandonReturn(c)
        BY <3>3, AbandonInv
      <3>4. ASSUME NEW r \in ReturnRequests,
                   \/ create_return(c, r) \/ approve_return(c, r)
                   \/ reject_return(c, r) \/ complete_return(c, r)
            PROVE  ReturnInv'
        <4>1. CASE create_return(c, r)
          <5>1. PICK tier \in Tiers : Start(c, r, "create", tier)
            BY <4>1 DEF create_return
          <5> QED
            BY <4>1, <5>1, ReturnBegins DEF create_return
        <4>2. PICK op \in {"approve", "reject", "complete"} :
                create_return(c, r) \/ Start(c, r, op, row[r].tier)
          BY <3>4 DEF approve_return, reject_return, complete_return
        <4>3. CASE Start(c, r, op, row[r].tier)
          BY <4>3, ReturnBegins
        <4> QED
          BY <4>1, <4>2, <4>3
      <3> QED
        BY <2>2, <3>1, <3>2, <3>3, <3>4 DEF CallerStep
    <2> QED
      BY <2>1, <2>2 DEF ReturnsNext
  <1> QED
    BY <1>1, <1>2, PTL DEF ReturnsSpec

\* The rows of the returns, their events and orders, and what the requests are
\* doing keep their types (return_services.py:43-245).
THEOREM ReturnsTyped == ReturnsSpec => []ReturnsTypeOK
  <1>1. ReturnInv => ReturnsTypeOK
    BY DEF ReturnInv, ReturnShapes, ReturnsTypeOK, ReturnRow, ReturnCaller, IdleCaller
  <1> QED
    BY <1>1, ReturnsInvariant, PTL

\* While the requests on a return finish, one after the other, the last event
\* that was published is the status of its row, the resolution is that of the
\* decision, and a refund or a pickup was asked for by the tier alone
\* (return_services.py:43-245).
THEOREM ReturnsAreTold == ReturnsSpec => []ReturnIsTold
  <1>1. ReturnInv => ReturnIsTold
    BY DEF ReturnInv, InOrder, Told, ReturnIsTold
  <1> QED
    BY <1>1, ReturnsInvariant, PTL

-----------------------------------------------------------------------------
(* The default address of a user.                                          *)

AddressStates == {"absent", "plain", "default"}

AVisit ==
  [op : {"none", "create", "create_plain", "set", "unset", "delete", "promote"},
   step : {"none", "clear", "count", "commit", "promote"},
   on : 0..MaxAddresses, copy : AddressStates, loaded : SUBSET AddressIds, stale : BOOLEAN]

AddressShapes ==
  /\ address \in [AddressIds -> AddressStates]
  /\ born \in 0..MaxAddresses
  /\ visit \in [Visits -> AVisit]
  /\ unset \in BOOLEAN /\ clashed \in BOOLEAN

\* What a request is about, whatever the others did since it began.
Shaped(s) ==
  /\ s # NoVisit => s.on \in AddressIds
  /\ \/ s = NoVisit
     \/ s.op = "create" /\ s.step \in {"clear", "count"} /\ ~s.stale /\ s.loaded = {}
     \/ s.op = "create" /\ s.step = "commit"
     \/ s.op = "create_plain" /\ s.step = "commit" /\ s.loaded = {}
     \/ s.op = "set" /\ s.step \in {"clear", "commit"} /\ s.copy # "absent"
     \/ s.op \in {"unset", "delete"} /\ s.step = "commit" /\ s.copy # "absent" /\ s.loaded = {}
     \/ s.op = "delete" /\ s.step = "promote" /\ s.loaded = {}
     \/ s.op = "promote" /\ s.step = "commit" /\ s.copy # "absent" /\ s.loaded = {}

\* An address that is being created is nobody else's.
Newborn ==
  /\ \A a \in AddressIds : a > born => address[a] = "absent"
  /\ \A v \in Visits : Creates(visit[v]) => visit[v].on <= born /\ address[visit[v].on] = "absent"
  /\ \A u, v \in Visits : Creates(visit[u]) /\ Creates(visit[v]) /\ visit[u].on = visit[v].on => u = v

\* What a request has read is still so while no other has written.
Current(s) ==
  /\ s.op \in {"create", "set"} /\ s.step = "commit" => s.loaded = Defaults
  /\ s.op = "create_plain" => Saved # {}
  /\ s.op \in {"set", "unset"} \/ (s.op = "delete" /\ s.step = "commit") =>
       s.copy = address[s.on]
  /\ s.op = "delete" /\ s.step = "promote" => Defaults = {}
  /\ s.op = "promote" => Defaults = {} /\ s.copy = address[s.on]

\* A deletion that has committed, and will make another address the default.
Successor(s) == s.step = "promote" \/ (s.op = "promote" /\ s.copy = "plain")

\* As long as no request wrote over what another had changed: one default at
\* most, none only for a reason, and what was read is current.
Unclashed ==
  /\ \A a, b \in Defaults : a = b
  /\ Defaults = {} =>
       \/ Saved = {} \/ unset
       \/ \E v \in Visits : Successor(visit[v])
  /\ \A v \in Visits : ~visit[v].stale => Current(visit[v])

AddressInv ==
  /\ AddressShapes
  /\ \A v \in Visits : Shaped(visit[v])
  /\ Newborn
  /\ ~clashed => Unclashed

-----------------------------------------------------------------------------
\* The records of requests, written out.
LEMMA VisitRecord ==
  ASSUME NEW s \in AVisit
  PROVE  /\ s = [op |-> s.op, step |-> s.step, on |-> s.on, copy |-> s.copy,
                 loaded |-> s.loaded, stale |-> s.stale]
         /\ s.on \in 0..MaxAddresses /\ s.copy \in AddressStates /\ s.loaded \in SUBSET AddressIds
         /\ s.stale \in BOOLEAN
         /\ s.op \in {"none", "create", "create_plain", "set", "unset", "delete", "promote"}
         /\ s.step \in {"none", "clear", "count", "commit", "promote"}
  BY DEF AVisit

\* A request that only reads, or ends: the invariant holds of what it has read.
LEMMA ReadStep ==
  ASSUME AddressInv, NEW v \in Visits, NEW s \in AVisit, visit' = [visit EXCEPT ![v] = s],
         UNCHANGED <<address, clashed>>, unset' \in BOOLEAN, unset => unset',
         born' \in 0..MaxAddresses, born' >= born, Shaped(s),
         Creates(s) =>
           \/ Creates(visit[v]) /\ s.on = visit[v].on
           \/ s.on \in AddressIds /\ s.on > born /\ s.on <= born',
         Unclashed => (~s.stale => Current(s)),
         Unclashed /\ Successor(visit[v]) /\ Defaults = {} => Successor(s) \/ Saved = {} \/ unset'
  PROVE  AddressInv'
  <1>1. /\ AddressShapes /\ Newborn /\ \A u \in Visits : Shaped(visit[u])
        /\ ~clashed => Unclashed
    BY DEF AddressInv
  <1>2. /\ visit' \in [Visits -> AVisit] /\ visit'[v] = s
        /\ \A u \in Visits : u # v => visit'[u] = visit[u]
    BY <1>1 DEF AddressShapes
  <1>3. AddressShapes'
    BY <1>1, <1>2 DEF AddressShapes
  <1>4. ASSUME NEW u \in Visits PROVE Shaped(visit[u])'
    <2>1. Shaped(visit'[u])
      BY <1>1, <1>2
    <2> QED
      BY <2>1 DEF Shaped
  <1>5. Newborn'
    <2>1. /\ \A a \in AddressIds : a > born => address[a] = "absent"
          /\ \A u \in Visits : Creates(visit[u]) =>
               visit[u].on <= born /\ address[visit[u].on] = "absent"
          /\ \A u, w \in Visits : Creates(visit[u]) /\ Creates(visit[w]) /\ visit[u].on = visit[w].on => u = w
      BY <1>1 DEF Newborn
    <2>2. born \in Int /\ born' \in Int /\ (\A a \in AddressIds : a \in Int)
          /\ \A u \in Visits : visit[u].on \in Int
      <3>1. \A u \in Visits : visit[u].on \in 0..MaxAddresses
        BY <1>1, VisitRecord DEF AddressShapes
      <3> QED
        BY <1>1, <3>1 DEF AddressShapes, AddressIds
    <2>3. \A a \in AddressIds : a > born' => address'[a] = "absent"
      BY <2>1, <2>2
    <2>4. Creates(s) => s.on <= born' /\ address'[s.on] = "absent"
      BY <2>1, <2>2
    <2>5. \A u \in Visits : u # v /\ Creates(s) /\ Creates(visit[u]) => visit[u].on # s.on
      BY <2>1, <2>2
    <2>6. \A u \in Visits : u # v => (Creates(visit[u])' <=> Creates(visit[u])) /\ visit'[u].on = visit[u].on
      BY <1>2 DEF Creates
    <2>7. Creates(visit[v])' <=> Creates(s)
      BY <1>2 DEF Creates
    <2>8. ASSUME NEW u \in Visits, Creates(visit[u])'
          PROVE  visit'[u].on <= born' /\ address'[visit'[u].on] = "absent"
      BY <1>2, <2>1, <2>2, <2>4, <2>6, <2>7, <2>8
    <2>9. ASSUME NEW u \in Visits, NEW w \in Visits, Creates(visit[u])', Creates(visit[w])',
                 visit'[u].on = visit'[w].on
          PROVE  u = w
      BY <1>2, <2>1, <2>5, <2>6, <2>7, <2>9
    <2> QED
      BY <2>3, <2>8, <2>9 DEF Newborn
  <1>6. ASSUME Unclashed PROVE Unclashed'
    <2>1. Defaults' = Defaults /\ Saved' = Saved
      BY DEF Defaults, Saved
    <2>2. ASSUME NEW u \in Visits, ~visit'[u].stale PROVE Current(visit[u])'
      <3>1. Current(visit'[u])
        BY <1>2, <1>6, <2>2 DEF Unclashed
      <3> QED
        BY <2>1, <3>1 DEF Current
    <2>3. Successor(s) => Successor(visit[v])'
      BY <1>2 DEF Successor
    <2>4. \A u \in Visits : u # v /\ Successor(visit[u]) => Successor(visit[u])'
      BY <1>2 DEF Successor
    <2>5. Defaults' = {} => Saved' = {} \/ unset' \/ \E u \in Visits : Successor(visit[u])'
      BY <1>6, <2>1, <2>3, <2>4 DEF Unclashed
    <2> QED
      BY <1>6, <2>1, <2>2, <2>5 DEF Unclashed
  <1> QED
    BY <1>1, <1>3, <1>4, <1>5, <1>6 DEF AddressInv

\* What every request that is under way holds, and the addresses.
LEMMA VisitFacts ==
  ASSUME AddressAssumption, AddressInv, NEW v \in Visits
  PROVE  /\ AddressShapes /\ Newborn /\ visit[v] \in AVisit /\ Shaped(visit[v])
         /\ (~clashed => Unclashed)
         /\ address \in [AddressIds -> AddressStates] /\ born \in 0..MaxAddresses
         /\ unset \in BOOLEAN /\ clashed \in BOOLEAN /\ MaxAddresses \in Nat
         /\ Defaults \subseteq Saved /\ Saved \subseteq AddressIds /\ AddressIds \subseteq Int
         /\ IsFiniteSet(Saved) /\ IsFiniteSet(Defaults)
         /\ \A a \in Saved : address[a] \in {"plain", "default"}
  <1>1. AddressShapes /\ Newborn /\ (~clashed => Unclashed) /\ MaxAddresses \in Nat
    BY DEF AddressInv, AddressAssumption
  <1>2. visit[v] \in AVisit /\ Shaped(visit[v])
    BY DEF AddressInv, AddressShapes
  <1>3. Defaults \subseteq Saved /\ Saved \subseteq AddressIds /\ AddressIds \subseteq Int
    BY DEF Defaults, Saved, AddressIds
  <1>4. IsFiniteSet(AddressIds)
    BY <1>1, FS_Interval DEF AddressIds
  <1>5. IsFiniteSet(Saved) /\ IsFiniteSet(Defaults)
    BY <1>3, <1>4, FS_Subset
  <1>6. \A a \in Saved : address[a] \in {"plain", "default"}
    BY <1>1 DEF AddressShapes, AddressStates, Saved
  <1> QED
    BY <1>1, <1>2, <1>3, <1>5, <1>6 DEF AddressShapes

\* A request begins.
LEMMA OpenStep ==
  ASSUME AddressAssumption, AddressInv, NEW v \in Visits, NEW a \in AddressIds, NEW op, NEW step,
         Open(v, op, step, a), born' \in 0..MaxAddresses, born' >= born,
         \/ /\ op = "create" /\ step \in {"clear", "count"} /\ a > born /\ a <= born'
         \/ /\ (op = "set" /\ step = "clear") \/ (op \in {"unset", "delete"} /\ step = "commit")
            /\ a \in Saved
  PROVE  AddressInv'
  <1> DEFINE s == [op |-> op, step |-> step, on |-> a, copy |-> address[a],
                   loaded |-> {}, stale |-> FALSE]
  <1>1. /\ address \in [AddressIds -> AddressStates] /\ unset \in BOOLEAN
        /\ a \in Saved => address[a] # "absent"
        /\ a \in 0..MaxAddresses
    <2>1. address \in [AddressIds -> AddressStates] /\ unset \in BOOLEAN
      BY VisitFacts
    <2>2. a \in 0..MaxAddresses
      BY DEF AddressIds
    <2> QED
      BY <2>1, <2>2 DEF Saved
  <1>2. /\ visit' = [visit EXCEPT ![v] = s] /\ UNCHANGED <<address, unset, clashed>>
        /\ visit[v] = NoVisit
    BY DEF Open
  <1>3. s \in AVisit
    BY <1>1 DEF AVisit
  <1>4. /\ s.op = op /\ s.step = step /\ s.on = a /\ s.copy = address[a] /\ s.loaded = {}
        /\ s.stale = FALSE
    OBVIOUS
  <1> HIDE DEF s
  <1>5. Shaped(s)
    BY <1>1, <1>4 DEF Shaped
  <1>6. Creates(s) => s.on \in AddressIds /\ s.on > born /\ s.on <= born'
    BY <1>4 DEF Creates
  <1>7. Current(s)
    BY <1>4 DEF Current
  <1>8. ~Successor(visit[v])
    BY <1>2 DEF Successor, NoVisit
  <1> QED
    BY <1>1, <1>2, <1>3, <1>5, <1>6, <1>7, <1>8, ReadStep

LEMMA BeginStep ==
  ASSUME AddressAssumption, AddressInv, NEW v \in Visits,
         \/ create_address(v)
         \/ \E a \in AddressIds : set_default(v, a) \/ update_address(v, a) \/ delete_address(v, a)
  PROVE  AddressInv'
  <1>1. born \in 0..MaxAddresses /\ MaxAddresses \in Nat
    BY VisitFacts
  <1>2. CASE create_address(v)
    <2>1. /\ born' = born + 1 /\ born + 1 \in AddressIds /\ born' \in 0..MaxAddresses
          /\ born + 1 > born /\ born + 1 <= born' /\ born' >= born
      BY <1>1, <1>2 DEF create_address, AddressIds
    <2>2. PICK step \in {"clear", "count"} : Open(v, "create", step, born + 1)
      BY <1>2 DEF create_address
    <2>3. PICK a \in AddressIds : a = born + 1
      BY <2>1
    <2>4. Open(v, "create", step, a) /\ a > born /\ a <= born'
      BY <2>1, <2>2, <2>3
    <2> QED
      BY <2>1, <2>4, OpenStep
  <1>3. ASSUME NEW a \in AddressIds, set_default(v, a) \/ update_address(v, a) \/ delete_address(v, a)
        PROVE  AddressInv'
    <2>1. a \in Saved /\ born' = born
      BY <1>3 DEF set_default, update_address, delete_address
    <2>2. \/ Open(v, "set", "clear", a) \/ Open(v, "unset", "commit", a)
          \/ Open(v, "delete", "commit", a)
      BY <1>3 DEF set_default, update_address, delete_address
    <2>3. born' \in 0..MaxAddresses /\ born' >= born
      BY <1>1, <2>1
    <2>4. CASE Open(v, "set", "clear", a)
      BY <2>1, <2>3, <2>4, OpenStep
    <2>5. CASE Open(v, "unset", "commit", a)
      BY <2>1, <2>3, <2>5, OpenStep
    <2>6. CASE Open(v, "delete", "commit", a)
      BY <2>1, <2>3, <2>6, OpenStep
    <2> QED
      BY <2>2, <2>4, <2>5, <2>6
  <1> QED
    BY <1>2, <1>3

\* A request reads, or ends without a commit.
LEMMA LoadStep ==
  ASSUME AddressAssumption, AddressInv, NEW v \in Visits,
         _clear_default(v) \/ CountAddresses(v) \/ SelectSuccessor(v) \/ FailVisit(v)
  PROVE  AddressInv'
  <1> DEFINE w == visit[v]
  <1>1. /\ w \in AVisit /\ Shaped(w) /\ born \in 0..MaxAddresses /\ unset \in BOOLEAN
        /\ Defaults \subseteq Saved /\ Saved \subseteq AddressIds /\ IsFiniteSet(Saved)
        /\ AddressIds \subseteq Int /\ address \in [AddressIds -> AddressStates]
        /\ \A a \in Saved : address[a] \in {"plain", "default"}
        /\ DOMAIN visit = Visits /\ MaxAddresses \in Nat
    BY VisitFacts DEF AddressShapes
  <1>2. /\ UNCHANGED <<address, clashed, born>> /\ born' \in 0..MaxAddresses /\ born' >= born
    BY <1>1 DEF _clear_default, CountAddresses, SelectSuccessor, FailVisit
  <1>3. CASE _clear_default(v)
    <2> DEFINE s == [w EXCEPT !.step = "commit", !.loaded = Defaults]
    <2>1. visit' = [visit EXCEPT ![v] = s] /\ UNCHANGED unset /\ w.step = "clear"
      BY <1>1, <1>3 DEF _clear_default
    <2>2. Defaults \in SUBSET AddressIds
      BY <1>1
    <2>3. /\ s \in AVisit /\ s.op = w.op /\ s.step = "commit" /\ s.on = w.on
          /\ s.copy = w.copy /\ s.loaded = Defaults /\ s.stale = w.stale
      <3> HIDE DEF w
      <3> QED
        BY <1>1, <2>2 DEF AVisit
    <2> HIDE DEF s
    <2>4. w.op \in {"create", "set"} /\ w.on \in AddressIds /\ (w.op = "set" => w.copy # "absent")
      BY <1>1, <2>1 DEF Shaped, NoVisit
    <2>5. Shaped(s)
      BY <2>3, <2>4 DEF Shaped
    <2>6. ASSUME Unclashed, ~s.stale PROVE Current(s)
      <3>1. Current(w)
        BY <2>3, <2>6 DEF Unclashed
      <3> QED
        BY <2>3, <2>4, <3>1 DEF Current
    <2>7. ~Successor(w)
      BY <2>1, <2>4 DEF Successor
    <2>8. Creates(s) => Creates(w) /\ s.on = w.on
      BY <2>3 DEF Creates
    <2> QED
      BY <1>1, <1>2, <2>1, <2>3, <2>5, <2>6, <2>7, <2>8, ReadStep
  <1>4. CASE CountAddresses(v)
    <2> DEFINE o == IF Saved = {} THEN "create" ELSE "create_plain"
               s == [w EXCEPT !.step = "commit", !.op = o]
    <2>1. visit' = [visit EXCEPT ![v] = s] /\ UNCHANGED unset /\ w.step = "count"
      BY <1>1, <1>4 DEF CountAddresses
    <2>2. /\ s \in AVisit /\ s.op = o /\ s.step = "commit" /\ s.on = w.on
          /\ s.copy = w.copy /\ s.loaded = w.loaded /\ s.stale = w.stale
      <3>1. o \in {"create", "create_plain"}
        OBVIOUS
      <3> HIDE DEF w, o
      <3> QED
        BY <1>1, <3>1 DEF AVisit
    <2> HIDE DEF s
    <2>3. w.op = "create" /\ w.on \in AddressIds /\ w.loaded = {} 
      BY <1>1, <2>1 DEF Shaped, NoVisit
    <2>4. Shaped(s)
      BY <2>2, <2>3 DEF Shaped
    <2>5. ASSUME Unclashed, ~s.stale PROVE Current(s)
      <3>1. Saved = {} => Defaults = {}
        BY <1>1
      <3> QED
        BY <2>2, <2>3, <3>1 DEF Current
    <2>6. ~Successor(w)
      BY <2>1, <2>3 DEF Successor
    <2>7. Creates(s) => Creates(w) /\ s.on = w.on
      BY <2>2, <2>3 DEF Creates
    <2> QED
      BY <1>1, <1>2, <2>1, <2>2, <2>4, <2>5, <2>6, <2>7, ReadStep
  <1>5. CASE SelectSuccessor(v) /\ Saved # {}
    <2>1. PICK a \in Saved : a = Max(Saved)
      <3>1. \A x \in Saved : x \in Int
        BY <1>1
      <3> QED
        BY <1>1, <1>5, <3>1, MaxIsGreatest
    <2> DEFINE s == [w EXCEPT !.op = "promote", !.step = "commit", !.on = a, !.copy = address[a]]
    <2>2. visit' = [visit EXCEPT ![v] = s] /\ UNCHANGED unset /\ w.step = "promote"
      BY <1>1, <1>5, <2>1 DEF SelectSuccessor
    <2>3. a \in AddressIds /\ address[a] \in AddressStates /\ address[a] # "absent"
      BY <1>1
    <2>10. a \in 0..MaxAddresses
      BY <2>3 DEF AddressIds
    <2>4. /\ s \in AVisit /\ s.op = "promote" /\ s.step = "commit" /\ s.on = a
          /\ s.copy = address[a] /\ s.loaded = w.loaded /\ s.stale = w.stale
      <3> HIDE DEF w
      <3> QED
        BY <1>1, <2>3, <2>10 DEF AVisit
    <2> HIDE DEF s
    <2>5. w.op = "delete" /\ w.loaded = {}
      BY <1>1, <2>2 DEF Shaped, NoVisit
    <2>6. Shaped(s)
      BY <2>3, <2>4, <2>5 DEF Shaped
    <2>7. ASSUME Unclashed, ~s.stale PROVE Current(s)
      <3>1. Current(w)
        BY <2>4, <2>7 DEF Unclashed
      <3>2. Defaults = {}
        BY <2>2, <2>5, <3>1 DEF Current
      <3> QED
        BY <2>4, <3>2 DEF Current
    <2>8. Defaults = {} => Successor(s)
      BY <1>1, <2>3, <2>4 DEF Successor, Defaults
    <2>9. ~Creates(s)
      BY <2>4 DEF Creates
    <2> QED
      BY <1>1, <1>2, <2>2, <2>4, <2>6, <2>7, <2>8, <2>9, ReadStep
  <1>6. CASE FailVisit(v) \/ (SelectSuccessor(v) /\ Saved = {})
    <2>1. /\ visit' = [visit EXCEPT ![v] = NoVisit] /\ unset' \in BOOLEAN /\ (unset => unset')
          /\ Successor(w) => Saved = {} \/ unset'
      BY <1>1, <1>6 DEF FailVisit, SelectSuccessor, Successor
    <2>2. NoVisit \in AVisit
      BY <1>1 DEF NoVisit, AVisit, AddressStates
    <2>3. Shaped(NoVisit) /\ ~Creates(NoVisit)
      BY DEF Shaped, Creates, NoVisit
    <2>4. Current(NoVisit)
      BY DEF Current, NoVisit
    <2> QED
      BY <1>2, <2>1, <2>2, <2>3, <2>4, ReadStep
  <1> QED
    BY <1>3, <1>4, <1>5, <1>6

-----------------------------------------------------------------------------
\* The requests after one of them has committed: its own goes on to promote
\* another address, or ends; the others know no more of it than that what
\* they have read may be stale.
LEMMA CommitVisits ==
  ASSUME AddressAssumption, AddressInv, NEW v \in Visits, NEW s \in AVisit, s = visit[v], CommitVisit(v)
  PROVE  /\ visit' \in [Visits -> AVisit]
         /\ \A u \in Visits : Shaped(visit'[u])
         /\ \/ visit'[v] = NoVisit /\ ~(s.op = "delete" /\ s.copy = "default")
            \/ /\ s.op = "delete" /\ s.copy = "default" /\ visit'[v].op = "delete"
               /\ visit'[v].step = "promote" /\ visit'[v].on = s.on /\ visit'[v].stale = s.stale
         /\ \A u \in Visits : u # v =>
              /\ visit'[u].op = visit[u].op /\ visit'[u].step = visit[u].step
              /\ visit'[u].on = visit[u].on /\ visit'[u].copy = visit[u].copy
              /\ RowsWritten(s) # {} /\ HasRead(visit[u]) => visit'[u].stale
              /\ RowsWritten(s) = {} \/ ~HasRead(visit[u]) => visit'[u] = visit[u]
  <1> DEFINE next == IF s.op = "delete" /\ s.copy = "default" THEN [s EXCEPT !.step = "promote"]
                     ELSE NoVisit
             other(u) == IF RowsWritten(s) # {} /\ HasRead(visit[u])
                         THEN [visit[u] EXCEPT !.stale = TRUE] ELSE visit[u]
  <1>1. /\ visit \in [Visits -> AVisit] /\ \A u \in Visits : Shaped(visit[u])
        /\ MaxAddresses \in Nat
    BY DEF AddressInv, AddressShapes, AddressAssumption
  <1>2. s.step = "commit" /\ visit' = [u \in Visits |-> IF u = v THEN next ELSE other(u)]
    BY DEF CommitVisit
  <1>3. /\ next \in AVisit /\ Shaped(next)
        /\ \/ next = NoVisit /\ ~(s.op = "delete" /\ s.copy = "default")
           \/ /\ s.op = "delete" /\ s.copy = "default" /\ next.op = "delete"
              /\ next.step = "promote" /\ next.on = s.on /\ next.stale = s.stale
    <2>1. CASE s.op = "delete" /\ s.copy = "default"
      <3>1. next = [s EXCEPT !.step = "promote"]
        BY <2>1
      <3>2. next \in AVisit
        BY <3>1 DEF AVisit
      <3>3. /\ next.op = s.op /\ next.step = "promote" /\ next.on = s.on /\ next.stale = s.stale
            /\ next.loaded = s.loaded
        BY <3>1 DEF AVisit
      <3>4. s.on \in AddressIds /\ s.loaded = {}
        BY <1>1, <1>2, <2>1 DEF Shaped, NoVisit
      <3> HIDE DEF next
      <3>5. Shaped(next)
        BY <2>1, <3>3, <3>4 DEF Shaped
      <3> QED
        BY <2>1, <3>2, <3>3, <3>5
    <2>2. CASE ~(s.op = "delete" /\ s.copy = "default")
      <3>1. next = NoVisit
        BY <2>2
      <3>2. NoVisit \in AVisit
        BY <1>1 DEF NoVisit, AVisit, AddressStates
      <3>3. Shaped(NoVisit)
        BY DEF Shaped
      <3> QED
        BY <2>2, <3>1, <3>2, <3>3
    <2> QED
      BY <2>1, <2>2
  <1>4. ASSUME NEW u \in Visits, u # v
        PROVE  /\ other(u) \in AVisit /\ Shaped(other(u))
               /\ other(u).op = visit[u].op /\ other(u).step = visit[u].step
               /\ other(u).on = visit[u].on /\ other(u).copy = visit[u].copy
               /\ RowsWritten(s) # {} /\ HasRead(visit[u]) => other(u).stale
               /\ RowsWritten(s) = {} \/ ~HasRead(visit[u]) => other(u) = visit[u]
    <2>1. PICK t \in AVisit : t = visit[u]
      BY <1>1
    <2>2. Shaped(t)
      BY <1>1, <2>1
    <2>3. CASE RowsWritten(s) # {} /\ HasRead(visit[u])
      <3> DEFINE x == [t EXCEPT !.stale = TRUE]
      <3>1. other(u) = x
        BY <2>1, <2>3
      <3>2. /\ x \in AVisit /\ x.op = t.op /\ x.step = t.step /\ x.on = t.on /\ x.copy = t.copy
            /\ x.loaded = t.loaded /\ x.stale = TRUE
        BY DEF AVisit
      <3> HIDE DEF x, other
      <3>3. t # NoVisit /\ ~(t.op = "create" /\ t.step \in {"clear", "count"})
        BY <2>1, <2>3 DEF HasRead
      <3>4. Shaped(x)
        BY <2>2, <3>2, <3>3 DEF Shaped
      <3> QED
        BY <2>1, <2>3, <3>1, <3>2, <3>4
    <2>4. CASE ~(RowsWritten(s) # {} /\ HasRead(visit[u]))
      <3>1. other(u) = visit[u]
        BY <2>4
      <3> HIDE DEF other
      <3> QED
        BY <2>1, <2>2, <2>4, <3>1
    <2> QED
      BY <2>3, <2>4
  <1>5. visit'[v] = next /\ \A u \in Visits : u # v => visit'[u] = other(u)
    BY <1>2
  <1>6. visit' \in [Visits -> AVisit]
    <2>1. \A u \in Visits : (IF u = v THEN next ELSE other(u)) \in AVisit
      BY <1>3, <1>4
    <2> HIDE DEF next, other
    <2> QED
      BY <1>2, <2>1
  <1> HIDE DEF next, other
  <1>7. \A u \in Visits : Shaped(visit'[u])
    BY <1>3, <1>4, <1>5
  <1>8. \A u \in Visits : u # v =>
              /\ visit'[u].op = visit[u].op /\ visit'[u].step = visit[u].step
              /\ visit'[u].on = visit[u].on /\ visit'[u].copy = visit[u].copy
              /\ RowsWritten(s) # {} /\ HasRead(visit[u]) => visit'[u].stale
              /\ RowsWritten(s) = {} \/ ~HasRead(visit[u]) => visit'[u] = visit[u]
    BY <1>4, <1>5
  <1> QED
    BY <1>3, <1>5, <1>6, <1>7, <1>8

\* The rows after a commit: what it writes of them, and what it leaves.
LEMMA CommitRows ==
  ASSUME AddressAssumption, AddressInv, NEW v \in Visits, NEW s \in AVisit, s = visit[v], CommitVisit(v)
  PROVE  /\ address' \in [AddressIds -> AddressStates]
         /\ \A a \in AddressIds :
              /\ a \in Defaults' <=>
                   a \in ToDefault(s) \/ (a \notin ToPlain(s) /\ a \notin ToAbsent(s) /\ a \in Defaults)
              /\ a \in ToDefault(s) \cup ToPlain(s) => a \in Saved \/ (Creates(s) /\ a = s.on)
              /\ a \notin RowsWritten(s) => address'[a] = address[a]
         /\ Defaults \subseteq AddressIds /\ Defaults' \subseteq AddressIds
         /\ s.on \in AddressIds /\ s.step = "commit"
         /\ \A a \in ToDefault(s) \cup ToPlain(s) \cup ToAbsent(s) : a \in AddressIds
  <1>1. address \in [AddressIds -> AddressStates] /\ Shaped(s) /\ s.loaded \in SUBSET AddressIds
    BY VisitFacts, VisitRecord
  <1>2. /\ s.step = "commit"
        /\ \A a \in ToDefault(s) \cup ToPlain(s) : a \in Saved \/ (Creates(s) /\ a = s.on)
        /\ address' = [a \in AddressIds |->
             IF a \in ToDefault(s) THEN "default"
             ELSE IF a \in ToPlain(s) THEN "plain"
             ELSE IF a \in ToAbsent(s) THEN "absent" ELSE address[a]]
    BY DEF CommitVisit
  <1>3. address' \in [AddressIds -> AddressStates]
    BY <1>1, <1>2 DEF AddressStates
  <1>4. s.on \in AddressIds
    BY <1>1, <1>2 DEF Shaped, NoVisit
  <1>5. \A a \in ToDefault(s) \cup ToPlain(s) \cup ToAbsent(s) : a \in AddressIds
    BY <1>1, <1>4 DEF ToDefault, ToPlain, ToAbsent
  <1>6. ASSUME NEW a \in AddressIds
        PROVE  /\ a \in Defaults' <=>
                   a \in ToDefault(s) \/ (a \notin ToPlain(s) /\ a \notin ToAbsent(s) /\ a \in Defaults)
               /\ a \notin RowsWritten(s) => address'[a] = address[a]
    <2>1. address'[a] = IF a \in ToDefault(s) THEN "default"
                        ELSE IF a \in ToPlain(s) THEN "plain"
                        ELSE IF a \in ToAbsent(s) THEN "absent" ELSE address[a]
      BY <1>2
    <2>2. a \in Defaults' <=> address'[a] = "default"
      BY DEF Defaults
    <2>3. a \in Defaults <=> address[a] = "default"
      BY DEF Defaults
    <2> QED
      BY <2>1, <2>2, <2>3 DEF RowsWritten
  <1>7. Defaults \subseteq AddressIds /\ Defaults' \subseteq AddressIds
    BY DEF Defaults
  <1> QED
    BY <1>2, <1>3, <1>4, <1>5, <1>6, <1>7

\* A commit leaves a new address to the one request that creates it.
LEMMA CommitNewborn ==
  ASSUME AddressAssumption, AddressInv, NEW v \in Visits, NEW s \in AVisit, s = visit[v], CommitVisit(v)
  PROVE  Newborn'
  <1>1. /\ \A a \in AddressIds : a > born => address[a] = "absent"
        /\ \A u \in Visits : Creates(visit[u]) => visit[u].on <= born /\ address[visit[u].on] = "absent"
        /\ \A u, w \in Visits : Creates(visit[u]) /\ Creates(visit[w]) /\ visit[u].on = visit[w].on => u = w
        /\ born \in Int /\ AddressIds \subseteq Int
    BY VisitFacts DEF Newborn
  <1>2. born' = born
    BY DEF CommitVisit
  <1>3. \A a \in AddressIds :
          a \in ToDefault(s) \cup ToPlain(s) => a \in Saved \/ (Creates(s) /\ a = s.on)
    BY CommitRows
  <1>4. ASSUME NEW a \in AddressIds, address[a] = "absent", ~(Creates(s) /\ a = s.on)
        PROVE  address'[a] = "absent"
    <2>1. a \notin ToDefault(s) /\ a \notin ToPlain(s)
      BY <1>3, <1>4 DEF Saved
    <2>2. address'[a] = IF a \in ToDefault(s) THEN "default"
                        ELSE IF a \in ToPlain(s) THEN "plain"
                        ELSE IF a \in ToAbsent(s) THEN "absent" ELSE address[a]
      BY DEF CommitVisit
    <2> QED
      BY <1>4, <2>1, <2>2
  <1>5. \A a \in AddressIds : a > born' => address'[a] = "absent"
    <2>1. Creates(s) => s.on <= born
      BY <1>1
    <2>2. ASSUME NEW a \in AddressIds, a > born PROVE ~(Creates(s) /\ a = s.on)
      BY <1>1, <2>1, <2>2
    <2> QED
      BY <1>1, <1>2, <1>4, <2>2
  <1>6. /\ ~Creates(visit[v])'
        /\ \A u \in Visits : u # v => (Creates(visit[u])' <=> Creates(visit[u])) /\ visit'[u].on = visit[u].on
    <2>1. visit'[v] = NoVisit \/ visit'[v].op = "delete"
      BY CommitVisits
    <2>2. \A u \in Visits : u # v => visit'[u].op = visit[u].op /\ visit'[u].on = visit[u].on
      BY CommitVisits
    <2> QED
      BY <2>1, <2>2 DEF Creates, NoVisit
  <1>7. ASSUME NEW u \in Visits, Creates(visit[u])'
        PROVE  visit'[u].on <= born' /\ address'[visit'[u].on] = "absent"
    <2>1. u # v /\ Creates(visit[u]) /\ visit'[u].on = visit[u].on
      BY <1>6, <1>7
    <2>2. visit[u].on <= born /\ address[visit[u].on] = "absent" /\ ~(Creates(s) /\ visit[u].on = s.on)
      BY <1>1, <2>1
    <2>3. visit[u].on \in AddressIds
      BY VisitFacts, <2>1 DEF Shaped, Creates, NoVisit
    <2> QED
      BY <1>2, <1>4, <2>1, <2>2, <2>3
  <1>8. ASSUME NEW u \in Visits, NEW w \in Visits, Creates(visit[u])', Creates(visit[w])',
               visit'[u].on = visit'[w].on
        PROVE  u = w
    BY <1>1, <1>6, <1>8
  <1> QED
    BY <1>5, <1>7, <1>8 DEF Newborn

\* A commit that writes, of what is current: the default is the one that it
\* makes, or the one there was, or a deletion goes on to promote another.
LEMMA CommitDefaults ==
  ASSUME AddressAssumption, AddressInv, Unclashed, NEW v \in Visits, NEW s \in AVisit, s = visit[v],
         CommitVisit(v), Current(s), RowsWritten(s) # {}
  PROVE  \/ Defaults' = {s.on}
         \/ Defaults' = Defaults /\ Saved # {} /\ ~Successor(s) /\ ~(s.op = "delete" /\ s.copy = "default")
         \/ Defaults' = {} /\ unset' /\ ~(s.op = "delete" /\ s.copy = "default")
         \/ Defaults' = {} /\ s.op = "delete" /\ s.copy = "default"
  <1>1. /\ \A a \in AddressIds :
              /\ a \in Defaults' <=>
                   a \in ToDefault(s) \/ (a \notin ToPlain(s) /\ a \notin ToAbsent(s) /\ a \in Defaults)
              /\ a \in ToDefault(s) \cup ToPlain(s) => a \in Saved \/ (Creates(s) /\ a = s.on)
        /\ Defaults \subseteq AddressIds /\ Defaults' \subseteq AddressIds
        /\ s.on \in AddressIds /\ s.step = "commit"
    BY CommitRows
  <1>2. Shaped(s) /\ s.copy \in AddressStates /\ s.on \in AddressIds /\ \A a, b \in Defaults : a = b
    BY VisitFacts, VisitRecord, <1>1 DEF Unclashed
  <1>3. /\ (s.on \in Defaults <=> address[s.on] = "default")
        /\ (s.on \in Saved <=> address[s.on] # "absent")
    BY <1>1 DEF Defaults, Saved
  <1>4. s # NoVisit
    BY <1>1 DEF NoVisit
  <1>5. CASE s.op = "create" \/ (s.op \in {"set", "promote"} /\ s.copy = "plain")
    <2>1. ToDefault(s) = {s.on} /\ ToPlain(s) = s.loaded \ {s.on} /\ ToAbsent(s) = {}
      BY <1>5 DEF ToDefault, ToPlain, ToAbsent
    <2>2. s.loaded = Defaults \/ Defaults = {}
      BY <1>1, <1>5 DEF Current
    <2>3. Defaults' = {s.on}
      BY <1>1, <2>1, <2>2
    <2> QED
      BY <2>3
  <1>6. CASE s.op \in {"set", "promote"} /\ s.copy # "plain"
    <2>1. s.copy = "default" /\ s.copy = address[s.on]
      BY <1>1, <1>2, <1>4, <1>6 DEF Shaped, Current, AddressStates
    <2>2. s.on \in Defaults
      BY <1>3, <2>1
    <2>3. s.loaded \ {s.on} = {}
      <3>1. CASE s.op = "set"
        <4>1. s.loaded = Defaults
          BY <1>1, <3>1 DEF Current
        <4> QED
          BY <1>2, <2>2, <4>1
      <3>2. CASE s.op = "promote"
        BY <1>1, <1>2, <1>4, <3>2 DEF Shaped
      <3> QED
        BY <1>6, <3>1, <3>2
    <2>4. RowsWritten(s) = {}
      BY <1>6, <2>1, <2>3 DEF RowsWritten, ToDefault, ToPlain, ToAbsent
    <2> QED
      BY <2>4
  <1>7. CASE s.op = "create_plain"
    <2>1. s.loaded = {} /\ Saved # {}
      BY <1>2, <1>4, <1>7 DEF Shaped, Current
    <2>2. ToDefault(s) = {} /\ ToPlain(s) = {s.on} /\ ToAbsent(s) = {}
      BY <1>7, <2>1 DEF ToDefault, ToPlain, ToAbsent
    <2>3. s.on \notin Defaults
      <3>1. address[s.on] = "absent"
        BY <1>7, VisitFacts DEF Newborn, Creates
      <3> QED
        BY <1>3, <3>1
    <2>4. Defaults' = Defaults
      BY <1>1, <2>2, <2>3
    <2>5. ~Successor(s)
      BY <1>1, <1>7 DEF Successor
    <2> QED
      BY <1>7, <2>1, <2>4, <2>5
  <1>8. CASE s.op = "unset"
    <2>1. s.loaded = {} /\ s.copy = address[s.on] /\ s.copy # "absent"
      BY <1>2, <1>4, <1>8 DEF Shaped, Current
    <2>2. s.copy = "default"
      <3>1. ASSUME s.copy # "default" PROVE RowsWritten(s) = {}
        BY <1>8, <2>1, <3>1 DEF RowsWritten, ToDefault, ToPlain, ToAbsent
      <3> QED
        BY <3>1
    <2>3. ToDefault(s) = {} /\ ToPlain(s) = {s.on} /\ ToAbsent(s) = {}
      BY <1>8, <2>1, <2>2 DEF ToDefault, ToPlain, ToAbsent
    <2>4. Defaults' = {}
      BY <1>1, <1>2, <1>3, <2>1, <2>2, <2>3
    <2>5. unset'
      BY <1>8, <2>3 DEF CommitVisit
    <2> QED
      BY <1>8, <2>4, <2>5
  <1>9. CASE s.op = "delete"
    <2>1. s.loaded = {} /\ s.copy = address[s.on] /\ s.copy # "absent"
      BY <1>1, <1>2, <1>4, <1>9 DEF Shaped, Current
    <2>2. ToDefault(s) = {} /\ ToPlain(s) = {} /\ ToAbsent(s) = {s.on}
      BY <1>9, <2>1 DEF ToDefault, ToPlain, ToAbsent
    <2>3. CASE s.copy = "default"
      <3>1. Defaults' = {}
        BY <1>1, <1>2, <1>3, <2>1, <2>2, <2>3
      <3> QED
        BY <1>9, <2>3, <3>1
    <2>4. CASE s.copy # "default"
      <3>1. Defaults' = Defaults
        BY <1>1, <1>3, <2>1, <2>2, <2>4
      <3>2. Saved # {}
        BY <1>3, <2>1
      <3>3. ~Successor(s)
        BY <1>1, <1>9 DEF Successor
      <3> QED
        BY <2>4, <3>1, <3>2, <3>3
    <2> QED
      BY <2>3, <2>4
  <1> QED
    BY <1>1, <1>2, <1>4, <1>5, <1>6, <1>7, <1>8, <1>9 DEF Shaped

LEMMA CommitStep ==
  ASSUME AddressAssumption, AddressInv, NEW v \in Visits, CommitVisit(v)
  PROVE  AddressInv'
  <1>1. PICK s \in AVisit : s = visit[v]
    BY VisitFacts
  <1>2. /\ Shaped(s) /\ born \in 0..MaxAddresses /\ unset \in BOOLEAN /\ clashed \in BOOLEAN
        /\ s.stale \in BOOLEAN /\ (~clashed => Unclashed)
    BY <1>1, VisitFacts, VisitRecord
  <1>3. /\ born' = born /\ clashed' = (clashed \/ (s.stale /\ RowsWritten(s) # {}))
        /\ unset' = IF ToDefault(s) # {} THEN FALSE
                    ELSE unset \/ (s.op = "unset" /\ RowsWritten(s) # {})
        /\ s.step = "commit"
    BY <1>1 DEF CommitVisit
  <1>4. /\ visit' \in [Visits -> AVisit]
        /\ \A u \in Visits : Shaped(visit'[u])
        /\ \/ visit'[v] = NoVisit /\ ~(s.op = "delete" /\ s.copy = "default")
           \/ /\ s.op = "delete" /\ s.copy = "default" /\ visit'[v].op = "delete"
              /\ visit'[v].step = "promote" /\ visit'[v].on = s.on /\ visit'[v].stale = s.stale
        /\ \A u \in Visits : u # v =>
              /\ visit'[u].op = visit[u].op /\ visit'[u].step = visit[u].step
              /\ visit'[u].on = visit[u].on /\ visit'[u].copy = visit[u].copy
              /\ RowsWritten(s) # {} /\ HasRead(visit[u]) => visit'[u].stale
              /\ RowsWritten(s) = {} \/ ~HasRead(visit[u]) => visit'[u] = visit[u]
    BY <1>1, CommitVisits
  <1>5. address' \in [AddressIds -> AddressStates]
    BY <1>1, CommitRows
  <1>6. AddressShapes'
    BY <1>2, <1>3, <1>4, <1>5 DEF AddressShapes
  <1>7. ASSUME NEW u \in Visits PROVE Shaped(visit[u])'
    <2>1. Shaped(visit'[u])
      BY <1>4
    <2> QED
      BY <2>1 DEF Shaped
  <1>8. Newborn'
    BY <1>1, CommitNewborn
  <1>9. CASE RowsWritten(s) = {}
    <2>1. \A a \in AddressIds : address'[a] = address[a]
      BY <1>1, <1>9, CommitRows
    <2>2. address' = address
      <3>1. address \in [AddressIds -> AddressStates]
        BY VisitFacts
      <3> QED
        BY <1>5, <2>1, <3>1
    <2>3. visit'[v] = NoVisit
      <3>1. ~(s.op = "delete" /\ s.copy = "default")
        BY <1>9 DEF RowsWritten, ToAbsent
      <3> QED
        BY <1>4, <3>1
    <2>4. visit' = [visit EXCEPT ![v] = NoVisit]
      <3>1. \A u \in Visits : u # v => visit'[u] = visit[u]
        BY <1>4, <1>9
      <3>2. visit \in [Visits -> AVisit]
        BY DEF AddressInv, AddressShapes
      <3>3. \A u \in Visits : visit'[u] = [visit EXCEPT ![v] = NoVisit][u]
        BY <2>3, <3>1, <3>2
      <3> QED
        BY <1>4, <3>2, <3>3
    <2>5. /\ UNCHANGED <<address, clashed>> /\ unset' \in BOOLEAN /\ (unset => unset')
      BY <1>2, <1>3, <1>9, <2>2 DEF RowsWritten
    <2>6. ~Successor(visit[v])
      BY <1>1, <1>3, <1>9 DEF Successor, RowsWritten, ToDefault
    <2>7. NoVisit \in AVisit /\ Shaped(NoVisit) /\ ~Creates(NoVisit) /\ Current(NoVisit)
      <3>1. NoVisit \in AVisit
        BY <1>4, <2>3
      <3> QED
        BY <3>1 DEF Shaped, Creates, NoVisit, Current
    <2>8. born' \in 0..MaxAddresses /\ born' >= born
      BY <1>2, <1>3, VisitFacts
    <2> QED
      BY <2>4, <2>5, <2>6, <2>7, <2>8, ReadStep
  <1>10. CASE RowsWritten(s) # {}
    <2>1. ASSUME ~clashed' PROVE Unclashed'
      <3>1. Unclashed /\ ~s.stale /\ Current(s)
        BY <1>1, <1>2, <1>3, <1>10, <2>1 DEF Unclashed
      <3>2. \/ Defaults' = {s.on}
            \/ /\ Defaults' = Defaults /\ Saved # {} /\ ~Successor(s)
               /\ ~(s.op = "delete" /\ s.copy = "default")
            \/ Defaults' = {} /\ unset' /\ ~(s.op = "delete" /\ s.copy = "default")
            \/ Defaults' = {} /\ s.op = "delete" /\ s.copy = "default"
        BY <1>1, <1>10, <3>1, CommitDefaults
      <3>3. \A a, b \in Defaults' : a = b
        BY <3>1, <3>2 DEF Unclashed
      <3>4. ASSUME Defaults' = {}
            PROVE  unset' \/ \E u \in Visits : Successor(visit[u])'
        <4>1. CASE Defaults' = {s.on}
          BY <3>4, <4>1
        <4>2. CASE Defaults' = Defaults /\ Saved # {} /\ ~Successor(s)
          <5>1. unset \/ \E u \in Visits : Successor(visit[u])
            BY <3>1, <3>4, <4>2 DEF Unclashed
          <5>2. ASSUME NEW u \in Visits, Successor(visit[u]) PROVE Successor(visit[u])'
            <6>1. u # v
              BY <1>1, <4>2, <5>2
            <6> QED
              BY <1>4, <5>2, <6>1 DEF Successor
          <5>3. unset => unset'
            <6>1. ToDefault(s) = {}
              <7>1. ASSUME ToDefault(s) # {} PROVE FALSE
                <8>1. ToDefault(s) = {s.on}
                  BY <7>1 DEF ToDefault
                <8>2. s.on \in AddressIds
                  BY <1>1, CommitRows
                <8>3. s.on \in Defaults'
                  BY <1>1, <8>1, <8>2, CommitRows
                <8> QED
                  BY <3>4, <8>3
              <7> QED
                BY <7>1
            <6> QED
              BY <1>3, <6>1
          <5> QED
            BY <5>1, <5>2, <5>3
        <4>3. CASE unset'
          BY <4>3
        <4>4. CASE s.op = "delete" /\ s.copy = "default"
          <5>1. Successor(visit[v])'
            BY <1>4, <4>4 DEF Successor
          <5> QED
            BY <5>1
        <4> QED
          BY <3>2, <4>1, <4>2, <4>3, <4>4
      <3>5. ASSUME NEW u \in Visits, ~visit'[u].stale PROVE Current(visit[u])'
        <4>1. CASE u = v
          <5>1. CASE visit'[v] = NoVisit
            BY <4>1, <5>1 DEF Current, NoVisit
          <5>2. CASE visit'[v] # NoVisit
            <6>1. s.op = "delete" /\ s.copy = "default" /\ visit'[v].op = "delete" /\ visit'[v].step = "promote"
              BY <1>4, <5>2
            <6>2. Defaults' = {}
              <7>1. s.on \in AddressIds /\ ToAbsent(s) = {s.on} /\ ToDefault(s) = {} /\ s.copy = address[s.on]
                BY <1>1, <1>3, <3>1, <6>1, CommitRows DEF ToAbsent, ToDefault, Current
              <7>2. s.on \in Defaults
                BY <6>1, <7>1 DEF Defaults
              <7>3. \A a \in AddressIds : a \in Defaults' => a \in Defaults /\ a # s.on
                BY <1>1, <7>1, CommitRows
              <7>4. Defaults' \subseteq AddressIds
                BY DEF Defaults
              <7> QED
                BY <3>1, <7>2, <7>3, <7>4 DEF Unclashed
            <6> QED
              BY <4>1, <6>1, <6>2 DEF Current
          <5> QED
            BY <5>1, <5>2
        <4>2. CASE u # v
          <5>1. ~HasRead(visit[u]) /\ visit'[u] = visit[u]
            BY <1>4, <1>10, <3>5, <4>2
          <5>2. visit'[u] = NoVisit \/ (visit'[u].op = "create" /\ visit'[u].step \in {"clear", "count"})
            BY <5>1 DEF HasRead
          <5> QED
            BY <5>2 DEF Current, NoVisit
        <4> QED
          BY <4>1, <4>2
      <3> QED
        BY <3>3, <3>4, <3>5 DEF Unclashed
    <2> QED
      BY <1>6, <1>7, <1>8, <2>1 DEF AddressInv
  <1> QED
    BY <1>9, <1>10

\* The invariant of the addresses holds initially, and every step keeps it.
LEMMA AddressInitially == AddressesInit /\ AddressAssumption => AddressInv
  <1> SUFFICES ASSUME AddressesInit, AddressAssumption PROVE AddressInv
    OBVIOUS
  <1>1. NoVisit \in AVisit /\ Shaped(NoVisit) /\ ~Creates(NoVisit) /\ Current(NoVisit)
    <2>1. NoVisit \in AVisit
      BY DEF NoVisit, AVisit, AddressStates, AddressAssumption
    <2> QED
      BY <2>1 DEF Shaped, Creates, NoVisit, Current
  <1>2. /\ address = [a \in AddressIds |-> "absent"] /\ born = 0 /\ visit = [v \in Visits |-> NoVisit]
        /\ unset = FALSE /\ clashed = FALSE
    BY DEF AddressesInit
  <1>3. AddressShapes
    <2>1. born \in 0..MaxAddresses
      BY <1>2 DEF AddressAssumption
    <2>2. address \in [AddressIds -> AddressStates]
      BY <1>2 DEF AddressStates
    <2>3. visit \in [Visits -> AVisit]
      BY <1>1, <1>2
    <2> QED
      BY <1>2, <2>1, <2>2, <2>3 DEF AddressShapes
  <1>4. Newborn
    BY <1>1, <1>2 DEF Newborn
  <1>5. Unclashed
    BY <1>1, <1>2 DEF Unclashed, Defaults, Saved
  <1> QED
    BY <1>1, <1>2, <1>3, <1>4, <1>5 DEF AddressInv

LEMMA AddressNext ==
  ASSUME AddressAssumption, AddressInv, [AddressesNext]_addressVars PROVE AddressInv'
  <1>1. CASE UNCHANGED addressVars
    <2>1. /\ AddressShapes' /\ Newborn' /\ (Unclashed => Unclashed') /\ clashed' = clashed
          /\ \A v \in Visits : Shaped(visit[v])'
      <3>1. Defaults' = Defaults /\ Saved' = Saved
        BY <1>1 DEF Defaults, Saved, addressVars
      <3>2. ASSUME Unclashed PROVE Unclashed'
        <4>1. \A v \in Visits : Current(visit[v]) => Current(visit[v])'
          BY <1>1, <3>1 DEF Current, addressVars
        <4>2. \A v \in Visits : Successor(visit[v]) => Successor(visit[v])'
          BY <1>1 DEF Successor, addressVars
        <4> QED
          BY <1>1, <3>1, <3>2, <4>1, <4>2 DEF Unclashed, addressVars
      <3> QED
        BY <1>1, <3>2 DEF AddressInv, AddressShapes, Newborn, Creates, Shaped, addressVars
    <2> QED
      BY <2>1 DEF AddressInv
  <1>2. ASSUME NEW v \in Visits, VisitStep(v) PROVE AddressInv'
    BY <1>2, BeginStep, LoadStep, CommitStep DEF VisitStep
  <1> QED
    BY <1>1, <1>2 DEF AddressesNext

\* The inductive invariant of the addresses.
THEOREM AddressesInvariant == AddressesSpec => []AddressInv
  <1>1. AddressesInit => AddressInv
    BY AddressInitially, AddressAssumption
  <1>2. AddressInv /\ [AddressesNext]_addressVars => AddressInv'
    BY AddressNext, AddressAssumption
  <1> QED
    BY <1>1, <1>2, PTL DEF AddressesSpec

\* The addresses of the user, and what the requests have read of them, keep their
\* types (address_service.py:37-109).
THEOREM AddressesTyped == AddressesSpec => []AddressesTypeOK
  <1>1. AddressInv => AddressesTypeOK
    BY DEF AddressInv, AddressShapes, AddressesTypeOK, AVisit, AddressStates
  <1> QED
    BY <1>1, AddressesInvariant, PTL

\* A user has one default address at most, and one as soon as there is an
\* address, unless it was given up or a deletion has not promoted another yet,
\* as long as no request wrote over what another had changed
\* (address_service.py:37-109).
THEOREM OneDefaultAddress == AddressesSpec => []OneDefault
  <1>1. AddressInv => OneDefault
    <2> SUFFICES ASSUME AddressInv, ~clashed
                 PROVE  Cardinality(Defaults) <= 1 /\ (Defaults = {} => Saved = {} \/ unset \/ Promoting)
      BY DEF OneDefault
    <2>1. Unclashed
      BY DEF AddressInv
    <2>2. Cardinality(Defaults) <= 1
      <3>1. CASE Defaults = {}
        BY <3>1, FS_EmptySet
      <3>2. CASE Defaults # {}
        <4>1. PICK a \in Defaults : Defaults = {a}
          BY <2>1, <3>2 DEF Unclashed
        <4>2. Cardinality({a}) = 1
          BY FS_Singleton
        <4> QED
          BY <4>1, <4>2
      <3> QED
        BY <3>1, <3>2
    <2>3. (\E v \in Visits : Successor(visit[v])) => Promoting
      BY DEF Successor, Promoting
    <2> QED
      BY <2>1, <2>2, <2>3 DEF Unclashed
  <1> QED
    BY <1>1, AddressesInvariant, PTL

-----------------------------------------------------------------------------
(* Invoices as documents.                                                  *)

InvoiceStatuses == {"absent", "inserted", "undone", "pending", "generated", "failed"}

Making == [on : CustomerInvoices, attempt : PdfAttempts, read : {"pending", "generated", "failed"}]

PdfShapes ==
  /\ invoice \in [CustomerInvoices -> InvoiceStatuses]
  /\ pdf_url \subseteq CustomerInvoices
  /\ pdf_task \in [CustomerInvoices -> [PdfAttempts -> Nat]]
  /\ maker \in [PdfWorkers -> {NoMaker} \cup Making]
  /\ forsaken \subseteq CustomerInvoices /\ repeated \subseteq CustomerInvoices

\* The task of an invoice is at the broker, or a worker has it.
Waiting(i) == \E k \in PdfAttempts : pdf_task[i][k] > 0
MadeBy(w, i) == maker[w].on = i

\* An invoice that is to be made and is not has a task that is not forgotten: at
\* the broker, or with a worker that has not read it as GENERATED and so will
\* write what it finds.
Pursued(i) ==
  /\ invoice[i] = "generated" => i \in pdf_url
  /\ invoice[i] \in {"inserted", "pending", "failed"} =>
       \/ i \in forsaken \/ Waiting(i)
       \/ \E w \in PdfWorkers : MadeBy(w, i) /\ maker[w].read # "generated"

\* Until its task is delivered twice there is one copy of it, which is gone when
\* the document is stored.
OneCopy(i) ==
  /\ \A k, l \in PdfAttempts : pdf_task[i][k] > 0 /\ pdf_task[i][l] > 0 => k = l
  /\ \A k \in PdfAttempts : pdf_task[i][k] <= 1
  /\ \A w \in PdfWorkers : MadeBy(w, i) => ~Waiting(i) /\ maker[w].read # "generated"
  /\ \A w, v \in PdfWorkers : MadeBy(w, i) /\ MadeBy(v, i) => w = v
  /\ i \in pdf_url => /\ invoice[i] = "generated" /\ ~Waiting(i)
                      /\ \A w \in PdfWorkers : ~MadeBy(w, i)

\* Nothing is done for an invoice that nobody has asked for.
NotAsked(i) ==
  invoice[i] = "absent" =>
    ~Waiting(i) /\ (\A w \in PdfWorkers : ~MadeBy(w, i)) /\ i \notin repeated

PdfOf(i) == Pursued(i) /\ NotAsked(i) /\ (i \notin repeated => OneCopy(i))

PdfInv == PdfShapes /\ \A i \in CustomerInvoices : PdfOf(i)

LEMMA PdfInit ==
  ASSUME InvoicePdfsAssumption, InvoicePdfsInit
  PROVE  PdfInv
  <1> USE DEF InvoicePdfsInit
  <1>1. PdfShapes
    BY DEF PdfShapes, InvoiceStatuses
  <1>2. ASSUME NEW i \in CustomerInvoices PROVE PdfOf(i)
    <2>1. ~Waiting(i) /\ \A w \in PdfWorkers : ~MadeBy(w, i)
      BY DEF Waiting, MadeBy, NoMaker, InvoicePdfsAssumption
    <2> QED
      BY <2>1, <1>2 DEF PdfOf, Pursued, NotAsked, OneCopy, Waiting
  <1> QED
    BY <1>1, <1>2 DEF PdfInv

\* A step on another invoice changes nothing of this one.
LEMMA PdfKept ==
  ASSUME NEW i \in CustomerInvoices, PdfOf(i),
         invoice'[i] = invoice[i], pdf_task'[i] = pdf_task[i],
         i \in pdf_url' <=> i \in pdf_url,
         i \in forsaken => i \in forsaken', i \in repeated <=> i \in repeated',
         \A w \in PdfWorkers : /\ MadeBy(w, i)' <=> MadeBy(w, i)
                               /\ MadeBy(w, i) => maker'[w] = maker[w]
  PROVE  PdfOf(i)'
  <1>1. Waiting(i)' <=> Waiting(i)
    BY DEF Waiting
  <1>2. Pursued(i)'
    BY <1>1 DEF PdfOf, Pursued
  <1>3. NotAsked(i)'
    BY <1>1 DEF PdfOf, NotAsked
  <1>4. OneCopy(i) => OneCopy(i)'
    BY <1>1 DEF OneCopy
  <1> QED
    BY <1>2, <1>3, <1>4 DEF PdfOf

\* What self.retry leaves: the task with one attempt more behind it, or an
\* invoice that is given up.
LEMMA RetryLeaves ==
  ASSUME InvoicePdfsAssumption, PdfShapes, NEW i \in CustomerInvoices, NEW k \in PdfAttempts,
         NEW taken \in BOOLEAN, taken => pdf_task[i][k] > 0, Retry(i, k, taken)
  PROVE  /\ pdf_task' \in [CustomerInvoices -> [PdfAttempts -> Nat]]
         /\ forsaken' \subseteq CustomerInvoices /\ forsaken \subseteq forsaken'
         /\ \A x \in CustomerInvoices : x # i => pdf_task'[x] = pdf_task[x]
         /\ pdf_task'[i][k] = IF taken THEN pdf_task[i][k] - 1 ELSE pdf_task[i][k]
         /\ \/ /\ i \in forsaken'
               /\ \A l \in PdfAttempts : l # k => pdf_task'[i][l] = pdf_task[i][l]
            \/ /\ k + 1 \in PdfAttempts /\ pdf_task'[i][k + 1] = pdf_task[i][k + 1] + 1
               /\ \A l \in PdfAttempts : l # k /\ l # k + 1 => pdf_task'[i][l] = pdf_task[i][l]
  <1> DEFINE t == Taken(i, k, taken)
  <1>1. /\ pdf_task \in [CustomerInvoices -> [PdfAttempts -> Nat]]
        /\ pdf_task[i] \in [PdfAttempts -> Nat]
        /\ forsaken \subseteq CustomerInvoices /\ MaxPdfRetries \in Nat
    BY DEF PdfShapes, InvoicePdfsAssumption
  <1>2. /\ t \in [PdfAttempts -> Nat]
        /\ t[k] = IF taken THEN pdf_task[i][k] - 1 ELSE pdf_task[i][k]
        /\ \A l \in PdfAttempts : l # k => t[l] = pdf_task[i][l]
    BY <1>1 DEF Taken
  <1> HIDE DEF t
  <1>3. CASE k = MaxPdfRetries
    <2>1. pdf_task' = [pdf_task EXCEPT ![i] = t] /\ forsaken' = forsaken \cup {i}
      BY <1>3 DEF Retry, t
    <2> QED
      BY <1>1, <1>2, <2>1
  <1>4. CASE k # MaxPdfRetries
    <2> DEFINE u == [t EXCEPT ![k + 1] = @ + 1]
    <2>1. pdf_task' = [pdf_task EXCEPT ![i] = u] /\ forsaken' = forsaken
      BY <1>4 DEF Retry, t
    <2>2. k + 1 \in PdfAttempts /\ k + 1 # k
      BY <1>1, <1>4 DEF PdfAttempts
    <2>3. /\ u \in [PdfAttempts -> Nat] /\ u[k] = t[k] /\ u[k + 1] = pdf_task[i][k + 1] + 1
          /\ \A l \in PdfAttempts : l # k /\ l # k + 1 => u[l] = pdf_task[i][l]
      BY <1>2, <2>2
    <2> HIDE DEF u
    <2> QED
      BY <1>1, <1>2, <2>1, <2>2, <2>3
  <1> QED
    BY <1>3, <1>4

\* A step on the tasks of one invoice keeps the invariant if that invoice keeps
\* its own.
LEMMA OnePdf ==
  ASSUME PdfInv, PdfShapes', NEW i \in CustomerInvoices, PdfOf(i)',
         \A x \in CustomerInvoices : x # i =>
            /\ invoice'[x] = invoice[x] /\ pdf_task'[x] = pdf_task[x]
            /\ x \in pdf_url' <=> x \in pdf_url
            /\ x \in repeated' <=> x \in repeated
            /\ \A w \in PdfWorkers : /\ MadeBy(w, x)' <=> MadeBy(w, x)
                                     /\ MadeBy(w, x) => maker'[w] = maker[w],
         forsaken \subseteq forsaken'
  PROVE  PdfInv'
  <1>1. ASSUME NEW x \in CustomerInvoices, x # i PROVE PdfOf(x)'
    BY <1>1, PdfKept DEF PdfInv
  <1> QED
    BY <1>1 DEF PdfInv

\* The request: the task is sent, and the row committed or not.
LEMMA RequestStep ==
  ASSUME InvoicePdfsAssumption, PdfInv, NEW i \in CustomerInvoices,
         create_invoice(i) \/ EndRequest(i)
  PROVE  PdfInv'
  <1>0. PdfShapes /\ PdfOf(i) /\ 0 \in PdfAttempts
    BY DEF PdfInv, PdfAttempts, InvoicePdfsAssumption
  <1>1. UNCHANGED <<pdf_url, maker, forsaken, repeated>>
    BY DEF create_invoice, EndRequest
  <1>2. /\ invoice' \in [CustomerInvoices -> InvoiceStatuses]
        /\ pdf_task' \in [CustomerInvoices -> [PdfAttempts -> Nat]]
        /\ \A x \in CustomerInvoices : x # i => invoice'[x] = invoice[x] /\ pdf_task'[x] = pdf_task[x]
    <2>1. /\ invoice \in [CustomerInvoices -> InvoiceStatuses]
          /\ pdf_task \in [CustomerInvoices -> [PdfAttempts -> Nat]] /\ pdf_task[i] \in [PdfAttempts -> Nat]
      BY <1>0 DEF PdfShapes
    <2>2. CASE create_invoice(i)
      BY <1>0, <2>1, <2>2 DEF create_invoice, InvoiceStatuses
    <2>3. CASE EndRequest(i)
      BY <2>1, <2>3 DEF EndRequest, InvoiceStatuses
    <2> QED
      BY <2>2, <2>3
  <1>3. PdfShapes'
    BY <1>0, <1>1, <1>2 DEF PdfShapes
  <1>4. \A w \in PdfWorkers, x \in CustomerInvoices : MadeBy(w, x)' <=> MadeBy(w, x)
    BY <1>1 DEF MadeBy
  <1>5. CASE create_invoice(i)
    <2>1. /\ invoice[i] = "absent" /\ invoice'[i] = "inserted"
          /\ pdf_task'[i][0] = pdf_task[i][0] + 1
          /\ \A l \in PdfAttempts : l # 0 => pdf_task'[i][l] = pdf_task[i][l]
      BY <1>0, <1>5 DEF create_invoice, PdfShapes
    <2>2. \A l \in PdfAttempts : pdf_task[i][l] = 0
      BY <1>0, <2>1 DEF PdfOf, NotAsked, Waiting, PdfShapes
    <2>3. pdf_task'[i][0] = 1 /\ \A l \in PdfAttempts : l # 0 => pdf_task'[i][l] = 0
      BY <1>0, <2>1, <2>2
    <2>4. i \notin repeated /\ \A w \in PdfWorkers : ~MadeBy(w, i)
      BY <1>0, <2>1 DEF PdfOf, NotAsked
    <2>5. i \notin pdf_url
      BY <1>0, <2>1, <2>4 DEF PdfOf, OneCopy
    <2>6. Waiting(i)'
      BY <1>0, <2>3 DEF Waiting
    <2>7. PdfOf(i)'
      BY <1>1, <1>4, <2>1, <2>3, <2>4, <2>5, <2>6 DEF PdfOf, Pursued, NotAsked, OneCopy
    <2> QED
      BY <1>1, <1>2, <1>3, <1>4, <2>7, OnePdf
  <1>6. CASE EndRequest(i)
    <2>1. /\ invoice[i] = "inserted" /\ invoice'[i] \in {"pending", "undone"}
          /\ pdf_task' = pdf_task
      BY <1>0, <1>6 DEF EndRequest, PdfShapes
    <2>2. Waiting(i)' <=> Waiting(i)
      BY <2>1 DEF Waiting
    <2>3. i \notin repeated => i \notin pdf_url
      BY <1>0, <2>1 DEF PdfOf, OneCopy
    <2>4. Pursued(i)'
      BY <1>0, <1>1, <1>4, <2>1, <2>2 DEF PdfOf, Pursued
    <2>5. i \notin repeated => OneCopy(i)'
      BY <1>0, <1>1, <1>4, <2>1, <2>2, <2>3 DEF PdfOf, OneCopy
    <2>6. PdfOf(i)'
      BY <1>1, <2>1, <2>4, <2>5 DEF PdfOf, NotAsked
    <2> QED
      BY <1>1, <1>2, <1>3, <1>4, <2>6, OnePdf
  <1> QED
    BY <1>5, <1>6

\* The task runs before the commit: it is sent again, or given up.
LEMMA NotFoundStep ==
  ASSUME InvoicePdfsAssumption, PdfInv, NEW i \in CustomerInvoices, NEW k \in PdfAttempts,
         InvoiceNotFound(i, k)
  PROVE  PdfInv'
  <1>0. PdfShapes /\ PdfOf(i)
    BY DEF PdfInv
  <1>1. /\ pdf_task[i][k] > 0 /\ ~InvoiceStored(i) /\ Retry(i, k, TRUE)
        /\ UNCHANGED <<invoice, pdf_url, maker, repeated>>
    BY DEF InvoiceNotFound
  <1>2. /\ pdf_task' \in [CustomerInvoices -> [PdfAttempts -> Nat]]
        /\ forsaken' \subseteq CustomerInvoices /\ forsaken \subseteq forsaken'
        /\ \A x \in CustomerInvoices : x # i => pdf_task'[x] = pdf_task[x]
        /\ pdf_task'[i][k] = pdf_task[i][k] - 1
        /\ \/ /\ i \in forsaken'
              /\ \A l \in PdfAttempts : l # k => pdf_task'[i][l] = pdf_task[i][l]
           \/ /\ k + 1 \in PdfAttempts /\ pdf_task'[i][k + 1] = pdf_task[i][k + 1] + 1
              /\ \A l \in PdfAttempts : l # k /\ l # k + 1 => pdf_task'[i][l] = pdf_task[i][l]
    BY <1>0, <1>1, RetryLeaves
  <1>3. PdfShapes'
    BY <1>0, <1>1, <1>2 DEF PdfShapes
  <1>4. \A w \in PdfWorkers, x \in CustomerInvoices : MadeBy(w, x)' <=> MadeBy(w, x)
    BY <1>1 DEF MadeBy
  <1>5. pdf_task[i] \in [PdfAttempts -> Nat] /\ Waiting(i)
    BY <1>0, <1>1 DEF PdfShapes, Waiting
  <1>6. i \in forsaken' \/ Waiting(i)'
    BY <1>2, <1>5 DEF Waiting
  <1>7. Pursued(i)'
    BY <1>0, <1>1, <1>6 DEF PdfOf, Pursued
  <1>8. invoice[i] # "absent"
    BY <1>0, <1>5 DEF PdfOf, NotAsked
  <1>9. ASSUME i \notin repeated PROVE OneCopy(i)'
    <2>1. OneCopy(i)
      BY <1>0, <1>9 DEF PdfOf
    <2>2. pdf_task[i][k] = 1 /\ \A l \in PdfAttempts : l # k => pdf_task[i][l] = 0
      BY <1>1, <1>5, <2>1 DEF OneCopy
    <2>3. pdf_task'[i][k] = 0 /\ k \in Nat
      BY <1>2, <2>2 DEF PdfAttempts, InvoicePdfsAssumption
    <2>5. \/ \A l \in PdfAttempts : pdf_task'[i][l] = 0
          \/ /\ k + 1 \in PdfAttempts /\ pdf_task'[i][k + 1] = 1
             /\ \A l \in PdfAttempts : l # k + 1 => pdf_task'[i][l] = 0
      BY <1>2, <2>2, <2>3
    <2>4. i \notin pdf_url /\ \A w \in PdfWorkers : ~MadeBy(w, i)
      BY <1>5, <2>1 DEF OneCopy
    <2> QED
      BY <1>1, <1>4, <2>4, <2>5 DEF OneCopy
  <1>10. PdfOf(i)'
    BY <1>1, <1>7, <1>8, <1>9 DEF PdfOf, NotAsked
  <1> QED
    BY <1>1, <1>2, <1>3, <1>4, <1>10, OnePdf

\* A worker takes the task and reads the status.
LEMMA TakeStep ==
  ASSUME InvoicePdfsAssumption, PdfInv, NEW i \in CustomerInvoices, NEW k \in PdfAttempts,
         NEW w \in PdfWorkers, BeginPdf(w, i, k)
  PROVE  PdfInv'
  <1>0. PdfShapes /\ PdfOf(i)
    BY DEF PdfInv
  <1>1. /\ maker[w] = NoMaker /\ pdf_task[i][k] > 0 /\ InvoiceStored(i)
        /\ UNCHANGED <<invoice, pdf_url, forsaken, repeated>>
        /\ pdf_task' = [pdf_task EXCEPT ![i][k] = @ - 1]
        /\ maker' = [maker EXCEPT ![w] = [on |-> i, attempt |-> k, read |-> invoice[i]]]
    BY DEF BeginPdf
  <1>2. pdf_task \in [CustomerInvoices -> [PdfAttempts -> Nat]] /\ pdf_task[i] \in [PdfAttempts -> Nat]
    BY <1>0 DEF PdfShapes
  <1>3. /\ pdf_task' \in [CustomerInvoices -> [PdfAttempts -> Nat]]
        /\ \A x \in CustomerInvoices : x # i => pdf_task'[x] = pdf_task[x]
        /\ pdf_task'[i][k] = pdf_task[i][k] - 1
        /\ \A l \in PdfAttempts : l # k => pdf_task'[i][l] = pdf_task[i][l]
    BY <1>1, <1>2
  <1>4. /\ maker' \in [PdfWorkers -> {NoMaker} \cup Making]
        /\ \A v \in PdfWorkers : v # w => maker'[v] = maker[v]
        /\ maker'[w] = [on |-> i, attempt |-> k, read |-> invoice[i]]
    <2>1. [on |-> i, attempt |-> k, read |-> invoice[i]] \in Making
      BY <1>1 DEF Making, InvoiceStored
    <2> QED
      BY <1>0, <1>1, <2>1 DEF PdfShapes
  <1>5. PdfShapes'
    BY <1>0, <1>1, <1>3, <1>4 DEF PdfShapes
  <1>6. /\ \A x \in CustomerInvoices : ~MadeBy(w, x)
        /\ MadeBy(w, i)' /\ maker'[w].read = invoice[i]
        /\ \A x \in CustomerInvoices : MadeBy(w, x)' => x = i
        /\ \A v \in PdfWorkers, x \in CustomerInvoices : v # w => (MadeBy(v, x)' <=> MadeBy(v, x))
    BY <1>1, <1>4 DEF MadeBy, NoMaker, InvoicePdfsAssumption
  <1>7. invoice[i] # "absent"
    BY <1>1 DEF InvoiceStored
  <1>8. Pursued(i)'
    BY <1>0, <1>1, <1>6 DEF PdfOf, Pursued
  <1>9. ASSUME i \notin repeated PROVE OneCopy(i)'
    <2>1. OneCopy(i)
      BY <1>0, <1>9 DEF PdfOf
    <2>2. Waiting(i)
      BY <1>1 DEF Waiting
    <2>3. i \notin pdf_url /\ \A v \in PdfWorkers : ~MadeBy(v, i)
      BY <2>1, <2>2 DEF OneCopy
    <2>4. pdf_task[i][k] = 1 /\ \A l \in PdfAttempts : l # k => pdf_task[i][l] = 0
      BY <1>1, <1>2, <2>1 DEF OneCopy
    <2>5. \A l \in PdfAttempts : pdf_task'[i][l] = 0
      BY <1>3, <2>4
    <2>6. \A v \in PdfWorkers : MadeBy(v, i)' => v = w
      BY <1>6, <2>3
    <2>7. maker'[w].read # "generated"
      BY <1>0, <1>6, <2>3 DEF PdfOf, Pursued
    <2> QED
      BY <1>1, <2>3, <2>5, <2>6, <2>7 DEF OneCopy, Waiting
  <1>10. PdfOf(i)'
    BY <1>1, <1>7, <1>8, <1>9 DEF PdfOf, NotAsked
  <1>11. \A x \in CustomerInvoices : x # i =>
           \A v \in PdfWorkers : (MadeBy(v, x)' <=> MadeBy(v, x)) /\ (MadeBy(v, x) => maker'[v] = maker[v])
    BY <1>4, <1>6
  <1> QED
    BY <1>1, <1>3, <1>5, <1>10, <1>11, OnePdf

\* The worker of a task: what it holds, and who makes what when it is done.
LEMMA MakerHolds ==
  ASSUME InvoicePdfsAssumption, PdfShapes, NEW w \in PdfWorkers, maker[w] # NoMaker
  PROVE  /\ maker[w] \in Making /\ maker[w].on \in CustomerInvoices
         /\ maker[w].attempt \in PdfAttempts
         /\ maker[w].read \in {"pending", "generated", "failed"}
         /\ MadeBy(w, maker[w].on)
         /\ \A x \in CustomerInvoices : MadeBy(w, x) => x = maker[w].on
         /\ Done(w) =>
              /\ maker' \in [PdfWorkers -> {NoMaker} \cup Making]
              /\ \A x \in CustomerInvoices : ~MadeBy(w, x)'
              /\ \A v \in PdfWorkers : v # w =>
                   /\ maker'[v] = maker[v]
                   /\ \A x \in CustomerInvoices : MadeBy(v, x)' <=> MadeBy(v, x)
  <1>1. maker \in [PdfWorkers -> {NoMaker} \cup Making] /\ maker[w] \in Making
    BY DEF PdfShapes
  <1>2. ASSUME Done(w)
        PROVE  /\ maker' \in [PdfWorkers -> {NoMaker} \cup Making]
               /\ maker'[w] = NoMaker
               /\ \A v \in PdfWorkers : v # w => maker'[v] = maker[v]
    BY <1>1, <1>2 DEF Done
  <1>3. NoMaker.on \notin CustomerInvoices
    BY DEF NoMaker, InvoicePdfsAssumption
  <1>4. Done(w) => \A x \in CustomerInvoices : ~MadeBy(w, x)'
    BY <1>2, <1>3 DEF MadeBy
  <1>5. Done(w) => \A v \in PdfWorkers : v # w =>
                     \A x \in CustomerInvoices : MadeBy(v, x)' <=> MadeBy(v, x)
    BY <1>2 DEF MadeBy
  <1>6. /\ maker[w].on \in CustomerInvoices /\ maker[w].attempt \in PdfAttempts
        /\ maker[w].read \in {"pending", "generated", "failed"}
    BY <1>1 DEF Making
  <1> QED
    BY <1>1, <1>2, <1>4, <1>5, <1>6 DEF MadeBy

\* The document is stored.
LEMMA GenerateStep ==
  ASSUME InvoicePdfsAssumption, PdfInv, NEW w \in PdfWorkers, _generate_and_store(w)
  PROVE  PdfInv'
  <1>0. PdfShapes /\ maker[w] # NoMaker
    BY DEF PdfInv, _generate_and_store
  <1>1. PICK i \in CustomerInvoices : i = maker[w].on
    BY <1>0, MakerHolds
  <1>2. /\ PdfOf(i) /\ MadeBy(w, i) /\ \A x \in CustomerInvoices : MadeBy(w, x) => x = i
        /\ maker[w].read \in {"pending", "generated", "failed"}
        /\ maker' \in [PdfWorkers -> {NoMaker} \cup Making]
        /\ \A x \in CustomerInvoices : ~MadeBy(w, x)'
        /\ \A v \in PdfWorkers : v # w =>
             /\ maker'[v] = maker[v] /\ \A x \in CustomerInvoices : MadeBy(v, x)' <=> MadeBy(v, x)
    BY <1>0, <1>1, MakerHolds DEF PdfInv, _generate_and_store
  <1>3. /\ UNCHANGED <<pdf_task, forsaken, repeated>> /\ pdf_url' = pdf_url \cup {i}
        /\ invoice' = IF maker[w].read = "generated" THEN invoice
                      ELSE [invoice EXCEPT ![i] = "generated"]
    BY <1>1 DEF _generate_and_store, WriteInvoiceStatus
  <1>4. /\ invoice' \in [CustomerInvoices -> InvoiceStatuses]
        /\ \A x \in CustomerInvoices : x # i => invoice'[x] = invoice[x]
        /\ invoice'[i] = IF maker[w].read = "generated" THEN invoice[i] ELSE "generated"
    BY <1>0, <1>3 DEF PdfShapes, InvoiceStatuses
  <1>5. PdfShapes'
    BY <1>0, <1>2, <1>3, <1>4 DEF PdfShapes
  <1>6. (Waiting(i)' <=> Waiting(i)) /\ invoice[i] # "absent"
    BY <1>2, <1>3 DEF Waiting, PdfOf, NotAsked
  <1>7. Pursued(i)'
    <2>1. CASE maker[w].read = "generated"
      <3>1. (\E v \in PdfWorkers : MadeBy(v, i) /\ maker[v].read # "generated") =>
              \E v \in PdfWorkers : MadeBy(v, i)' /\ maker'[v].read # "generated"
        BY <1>2, <2>1
      <3> QED
        BY <1>2, <1>3, <1>4, <1>6, <2>1, <3>1 DEF PdfOf, Pursued
    <2>2. CASE maker[w].read # "generated"
      BY <1>3, <1>4, <2>2 DEF Pursued
    <2> QED
      BY <2>1, <2>2
  <1>8. ASSUME i \notin repeated PROVE OneCopy(i)'
    <2>1. /\ OneCopy(i) /\ ~Waiting(i) /\ i \notin pdf_url
          /\ \A v \in PdfWorkers : MadeBy(v, i) => v = w
      BY <1>2, <1>8 DEF PdfOf, OneCopy
    <2>2. maker[w].read # "generated"
      BY <1>2, <2>1 DEF OneCopy
    <2>3. invoice'[i] = "generated"
      BY <1>4, <2>2
    <2> QED
      BY <1>2, <1>3, <1>6, <2>1, <2>3 DEF OneCopy, Waiting
  <1>9. PdfOf(i)'
    BY <1>3, <1>4, <1>6, <1>7, <1>8 DEF PdfOf, NotAsked
  <1> QED
    BY <1>2, <1>3, <1>4, <1>5, <1>9, OnePdf

\* The document or its upload fails: the task is sent again, or given up.
LEMMA FailStep ==
  ASSUME InvoicePdfsAssumption, PdfInv, NEW w \in PdfWorkers, PdfFails(w)
  PROVE  PdfInv'
  <1>0. PdfShapes /\ maker[w] # NoMaker
    BY DEF PdfInv, PdfFails
  <1>1. PICK i \in CustomerInvoices : i = maker[w].on
    BY <1>0, MakerHolds
  <1> DEFINE k == maker[w].attempt
  <1>2. /\ PdfOf(i) /\ MadeBy(w, i) /\ \A x \in CustomerInvoices : MadeBy(w, x) => x = i
        /\ maker[w].read \in {"pending", "generated", "failed"} /\ k \in PdfAttempts
        /\ maker' \in [PdfWorkers -> {NoMaker} \cup Making]
        /\ \A x \in CustomerInvoices : ~MadeBy(w, x)'
        /\ \A v \in PdfWorkers : v # w =>
             /\ maker'[v] = maker[v] /\ \A x \in CustomerInvoices : MadeBy(v, x)' <=> MadeBy(v, x)
    BY <1>0, <1>1, MakerHolds DEF PdfInv, PdfFails
  <1>3. /\ UNCHANGED <<pdf_url, repeated>> /\ Retry(i, k, FALSE)
        /\ invoice' = invoice \/ invoice' = [invoice EXCEPT ![i] = "failed"]
    BY <1>1 DEF PdfFails, WriteInvoiceStatus
  <1>4. /\ invoice' \in [CustomerInvoices -> InvoiceStatuses]
        /\ \A x \in CustomerInvoices : x # i => invoice'[x] = invoice[x]
        /\ invoice'[i] \in {invoice[i], "failed"}
    BY <1>0, <1>3 DEF PdfShapes, InvoiceStatuses
  <1>5. /\ pdf_task' \in [CustomerInvoices -> [PdfAttempts -> Nat]]
        /\ forsaken' \subseteq CustomerInvoices /\ forsaken \subseteq forsaken'
        /\ \A x \in CustomerInvoices : x # i => pdf_task'[x] = pdf_task[x]
        /\ pdf_task'[i][k] = pdf_task[i][k]
        /\ \/ /\ i \in forsaken'
              /\ \A l \in PdfAttempts : l # k => pdf_task'[i][l] = pdf_task[i][l]
           \/ /\ k + 1 \in PdfAttempts /\ pdf_task'[i][k + 1] = pdf_task[i][k + 1] + 1
              /\ \A l \in PdfAttempts : l # k /\ l # k + 1 => pdf_task'[i][l] = pdf_task[i][l]
    <2> HIDE DEF k
    <2> QED
      BY <1>0, <1>2, <1>3, RetryLeaves
  <1>6. PdfShapes'
    BY <1>0, <1>2, <1>3, <1>4, <1>5 DEF PdfShapes
  <1>7. pdf_task[i] \in [PdfAttempts -> Nat] /\ invoice[i] # "absent"
    BY <1>0, <1>2 DEF PdfShapes, PdfOf, NotAsked
  <1>8. i \in forsaken' \/ Waiting(i)'
    BY <1>5, <1>7 DEF Waiting
  <1>9. Pursued(i)'
    BY <1>2, <1>3, <1>4, <1>8 DEF PdfOf, Pursued
  <1>10. ASSUME i \notin repeated PROVE OneCopy(i)'
    <2>1. OneCopy(i)
      BY <1>2, <1>10 DEF PdfOf
    <2>2. ~Waiting(i) /\ i \notin pdf_url /\ \A v \in PdfWorkers : MadeBy(v, i) => v = w
      BY <1>2, <2>1 DEF OneCopy
    <2>3. \A l \in PdfAttempts : pdf_task[i][l] = 0
      BY <1>7, <2>2 DEF Waiting
    <2>4. \/ \A l \in PdfAttempts : pdf_task'[i][l] = 0
          \/ /\ k + 1 \in PdfAttempts /\ pdf_task'[i][k + 1] = 1
             /\ \A l \in PdfAttempts : l # k + 1 => pdf_task'[i][l] = 0
      BY <1>2, <1>5, <2>3
    <2>5. \A v \in PdfWorkers : ~MadeBy(v, i)'
      BY <1>2, <2>2
    <2> QED
      BY <1>3, <2>2, <2>4, <2>5 DEF OneCopy
  <1>11. PdfOf(i)'
    BY <1>3, <1>4, <1>7, <1>9, <1>10 DEF PdfOf, NotAsked
  <1> QED
    BY <1>2, <1>3, <1>4, <1>5, <1>6, <1>11, OnePdf

\* A worker dies: its task comes again, or is given up.
LEMMA LoseStep ==
  ASSUME InvoicePdfsAssumption, PdfInv, NEW w \in PdfWorkers, LoseMaker(w)
  PROVE  PdfInv'
  <1>0. PdfShapes /\ maker[w] # NoMaker
    BY DEF PdfInv, LoseMaker
  <1>1. PICK i \in CustomerInvoices : i = maker[w].on
    BY <1>0, MakerHolds
  <1> DEFINE k == maker[w].attempt
  <1>2. /\ PdfOf(i) /\ MadeBy(w, i) /\ \A x \in CustomerInvoices : MadeBy(w, x) => x = i
        /\ k \in PdfAttempts
        /\ maker' \in [PdfWorkers -> {NoMaker} \cup Making]
        /\ \A x \in CustomerInvoices : ~MadeBy(w, x)'
        /\ \A v \in PdfWorkers : v # w =>
             /\ maker'[v] = maker[v] /\ \A x \in CustomerInvoices : MadeBy(v, x)' <=> MadeBy(v, x)
    BY <1>0, <1>1, MakerHolds DEF PdfInv, LoseMaker
  <1>3. /\ UNCHANGED <<invoice, pdf_url, repeated>>
        /\ \/ pdf_task' = [pdf_task EXCEPT ![i][k] = @ + 1] /\ UNCHANGED forsaken
           \/ forsaken' = forsaken \cup {i} /\ UNCHANGED pdf_task
    BY <1>1 DEF LoseMaker
  <1>4. pdf_task \in [CustomerInvoices -> [PdfAttempts -> Nat]] /\ pdf_task[i] \in [PdfAttempts -> Nat]
    BY <1>0 DEF PdfShapes
  <1>5. /\ pdf_task' \in [CustomerInvoices -> [PdfAttempts -> Nat]]
        /\ forsaken \subseteq forsaken' /\ forsaken' \subseteq CustomerInvoices
        /\ \A x \in CustomerInvoices : x # i => pdf_task'[x] = pdf_task[x]
        /\ \A l \in PdfAttempts : l # k => pdf_task'[i][l] = pdf_task[i][l]
        /\ \/ pdf_task'[i][k] = pdf_task[i][k] + 1
           \/ pdf_task'[i][k] = pdf_task[i][k] /\ i \in forsaken'
    <2>1. forsaken \subseteq CustomerInvoices
      BY <1>0 DEF PdfShapes
    <2>2. k \in PdfAttempts
      BY <1>2
    <2> HIDE DEF k
    <2>3. CASE pdf_task' = [pdf_task EXCEPT ![i][k] = @ + 1] /\ UNCHANGED forsaken
      BY <1>4, <2>1, <2>2, <2>3
    <2>4. CASE forsaken' = forsaken \cup {i} /\ UNCHANGED pdf_task
      BY <1>4, <2>1, <2>4
    <2> QED
      BY <1>3, <2>3, <2>4
  <1>6. PdfShapes'
    BY <1>0, <1>2, <1>3, <1>5 DEF PdfShapes
  <1>7. i \in forsaken' \/ Waiting(i)'
    BY <1>2, <1>4, <1>5 DEF Waiting
  <1>8. invoice[i] # "absent" /\ Pursued(i)'
    BY <1>2, <1>3, <1>7 DEF PdfOf, Pursued, NotAsked
  <1>9. ASSUME i \notin repeated PROVE OneCopy(i)'
    <2>1. OneCopy(i)
      BY <1>2, <1>9 DEF PdfOf
    <2>2. ~Waiting(i) /\ i \notin pdf_url /\ \A v \in PdfWorkers : MadeBy(v, i) => v = w
      BY <1>2, <2>1 DEF OneCopy
    <2>3. \A l \in PdfAttempts : pdf_task[i][l] = 0
      BY <1>4, <2>2 DEF Waiting
    <2>4. pdf_task'[i][k] \in {0, 1} /\ \A l \in PdfAttempts : l # k => pdf_task'[i][l] = 0
      BY <1>2, <1>5, <2>3
    <2>5. \A v \in PdfWorkers : ~MadeBy(v, i)'
      BY <1>2, <2>2
    <2> QED
      BY <1>3, <2>2, <2>4, <2>5 DEF OneCopy
  <1>10. PdfOf(i)'
    BY <1>3, <1>8, <1>9 DEF PdfOf, NotAsked
  <1> QED
    BY <1>2, <1>3, <1>5, <1>6, <1>10, OnePdf

\* The broker delivers a task again: the invoice is one of those whose task came
\* twice.
LEMMA RedeliverStep ==
  ASSUME InvoicePdfsAssumption, PdfInv, NEW w \in PdfWorkers, RedeliverPdf(w)
  PROVE  PdfInv'
  <1>0. PdfShapes /\ maker[w] # NoMaker
    BY DEF PdfInv, RedeliverPdf
  <1>1. PICK i \in CustomerInvoices : i = maker[w].on
    BY <1>0, MakerHolds
  <1> DEFINE k == maker[w].attempt
  <1>2. PdfOf(i) /\ MadeBy(w, i) /\ k \in PdfAttempts
    BY <1>0, <1>1, MakerHolds DEF PdfInv
  <1>3. /\ UNCHANGED <<invoice, pdf_url, maker, forsaken>> /\ repeated' = repeated \cup {i}
        /\ pdf_task' = [pdf_task EXCEPT ![i][k] = @ + 1]
    BY <1>1 DEF RedeliverPdf
  <1>4. pdf_task \in [CustomerInvoices -> [PdfAttempts -> Nat]] /\ pdf_task[i] \in [PdfAttempts -> Nat]
    BY <1>0 DEF PdfShapes
  <1>5. /\ pdf_task' \in [CustomerInvoices -> [PdfAttempts -> Nat]]
        /\ \A x \in CustomerInvoices : x # i => pdf_task'[x] = pdf_task[x]
        /\ pdf_task'[i][k] = pdf_task[i][k] + 1
    <2> HIDE DEF k
    <2> QED
      BY <1>2, <1>3, <1>4
  <1>6. PdfShapes'
    BY <1>0, <1>3, <1>5 DEF PdfShapes
  <1>7. Waiting(i)' /\ invoice[i] # "absent"
    BY <1>2, <1>4, <1>5 DEF Waiting, PdfOf, NotAsked
  <1>8. PdfOf(i)'
    BY <1>2, <1>3, <1>7 DEF PdfOf, Pursued, NotAsked
  <1>9. \A v \in PdfWorkers, x \in CustomerInvoices : MadeBy(v, x)' <=> MadeBy(v, x)
    BY <1>3 DEF MadeBy
  <1> QED
    BY <1>3, <1>5, <1>6, <1>8, <1>9, OnePdf

LEMMA PdfNext ==
  ASSUME InvoicePdfsAssumption, PdfInv, [InvoicePdfsNext]_pdfVars
  PROVE  PdfInv'
  <1>1. CASE UNCHANGED pdfVars
    BY <1>1 DEF pdfVars, PdfInv, PdfShapes, PdfOf, Pursued, NotAsked, OneCopy, Waiting, MadeBy
  <1>2. CASE \E i \in CustomerInvoices : PdfRequest(i)
    BY <1>2, RequestStep, NotFoundStep, TakeStep DEF PdfRequest
  <1>3. CASE \E w \in PdfWorkers : MakerStep(w)
    BY <1>3, GenerateStep, FailStep, LoseStep, RedeliverStep DEF MakerStep
  <1> QED
    BY <1>1, <1>2, <1>3 DEF InvoicePdfsNext

\* An invoice whose task ran before its commit, or failed, or came twice, still
\* gets its document: when no task of a stored invoice is left it is generated,
\* unless it was given up; and one that has its document says FAILED only after
\* its task was delivered twice (invoice_service.py:30-66, invoice_tasks.py:20-59).
THEOREM PdfsAreAccounted == InvoicePdfsSpec => []PdfAccounted
  <1>1. InvoicePdfsInit => PdfInv
    BY PdfInit, InvoicePdfsAssumption
  <1>2. PdfInv /\ [InvoicePdfsNext]_pdfVars => PdfInv'
    BY PdfNext, InvoicePdfsAssumption
  <1>3. PdfInv => PdfAccounted
    <2> SUFFICES ASSUME PdfInv, NEW i \in CustomerInvoices
                 PROVE  /\ PdfAtRest(i) /\ InvoiceStored(i) /\ i \notin forsaken =>
                             invoice[i] = "generated" /\ i \in pdf_url
                        /\ i \in pdf_url /\ invoice[i] = "failed" => i \in repeated
      BY DEF PdfAccounted
    <2>1. PdfOf(i)
      BY DEF PdfInv
    <2>2. PdfAtRest(i) => ~Waiting(i) /\ \A w \in PdfWorkers : ~MadeBy(w, i)
      BY DEF PdfAtRest, Waiting, MadeBy
    <2> QED
      BY <2>1, <2>2 DEF PdfOf, Pursued, OneCopy, InvoiceStored
  <1> QED
    BY <1>1, <1>2, <1>3, PTL DEF InvoicePdfsSpec

-----------------------------------------------------------------------------
\* The workers that have the task of an invoice, and all the copies of it.
Makers(i) == {w \in PdfWorkers : MadeBy(w, i)}
AtBroker(i) == SumOver(pdf_task[i], PdfAttempts)

\* An attempt that fails is followed by at most one, so only the broker makes a
\* second copy of a task, and it does so once.
Copied(i) ==
  /\ AtBroker(i) + Cardinality(Makers(i)) <= IF i \in repeated THEN 2 ELSE 1
  /\ i \in repeated => MaxPdfCopies >= 1

LEMMA CopiesFacts ==
  ASSUME InvoicePdfsAssumption, PdfShapes, NEW i \in CustomerInvoices
  PROVE  /\ IsFiniteSet(PdfAttempts) /\ IsFiniteSet(Makers(i))
         /\ pdf_task[i] \in [PdfAttempts -> Nat]
         /\ AtBroker(i) \in Nat /\ Cardinality(Makers(i)) \in Nat
         /\ \A k \in PdfAttempts : pdf_task[i][k] <= AtBroker(i)
  <1>1. IsFiniteSet(PdfAttempts)
    BY FS_Interval DEF PdfAttempts, InvoicePdfsAssumption
  <1>2. pdf_task[i] \in [PdfAttempts -> Nat]
    BY DEF PdfShapes
  <1>3. IsFiniteSet(Makers(i))
    <2>1. Makers(i) \subseteq PdfWorkers
      BY DEF Makers
    <2> QED
      BY <2>1, FS_Subset DEF InvoicePdfsAssumption
  <1>4. \A k \in PdfAttempts : pdf_task[i][k] \in Nat
    BY <1>2
  <1>5. AtBroker(i) \in Nat
    BY <1>1, <1>4, SumNat DEF AtBroker
  <1>6. \A k \in PdfAttempts : pdf_task[i][k] <= AtBroker(i)
    BY <1>1, <1>4, SumMember DEF AtBroker
  <1> QED
    BY <1>1, <1>2, <1>3, <1>5, <1>6, FS_CardinalityType

\* One number of attempts with a task more or less.
LEMMA CopiesMove ==
  ASSUME InvoicePdfsAssumption, NEW f \in [PdfAttempts -> Nat], NEW g \in [PdfAttempts -> Nat],
         NEW k \in PdfAttempts, \A l \in PdfAttempts : l # k => g[l] = f[l]
  PROVE  SumOver(g, PdfAttempts) = SumOver(f, PdfAttempts) - f[k] + g[k]
  <1>1. IsFiniteSet(PdfAttempts)
    BY FS_Interval DEF PdfAttempts, InvoicePdfsAssumption
  <1>2. (\A l \in PdfAttempts : f[l] \in Int) /\ g[k] \in Int
    OBVIOUS
  <1> QED
    BY <1>1, <1>2, SumUpdate

\* self.retry puts back at most the one that the worker had.
LEMMA CopiesRetry ==
  ASSUME InvoicePdfsAssumption, PdfShapes, PdfShapes', NEW i \in CustomerInvoices,
         NEW k \in PdfAttempts, NEW taken \in BOOLEAN, taken => pdf_task[i][k] > 0,
         Retry(i, k, taken)
  PROVE  AtBroker(i)' <= IF taken THEN AtBroker(i) ELSE AtBroker(i) + 1
  <1> DEFINE f == pdf_task[i]
             g == pdf_task'[i]
             h == [f EXCEPT ![k] = g[k]]
  <1>1. /\ f \in [PdfAttempts -> Nat] /\ AtBroker(i) = SumOver(f, PdfAttempts) /\ AtBroker(i) \in Nat
    BY CopiesFacts DEF AtBroker
  <1>2. g \in [PdfAttempts -> Nat] /\ AtBroker(i)' = SumOver(g, PdfAttempts)
    BY DEF PdfShapes, AtBroker
  <1>3. /\ g[k] = IF taken THEN f[k] - 1 ELSE f[k]
        /\ \/ \A l \in PdfAttempts : l # k => g[l] = f[l]
           \/ /\ k + 1 \in PdfAttempts /\ g[k + 1] = f[k + 1] + 1
              /\ \A l \in PdfAttempts : l # k /\ l # k + 1 => g[l] = f[l]
    BY RetryLeaves
  <1> HIDE DEF f, g
  <1>4. h \in [PdfAttempts -> Nat] /\ h[k] = g[k] /\ \A l \in PdfAttempts : l # k => h[l] = f[l]
    BY <1>1, <1>2
  <1>5. SumOver(h, PdfAttempts) = SumOver(f, PdfAttempts) - f[k] + g[k]
    <2> HIDE DEF h
    <2> QED
      BY <1>1, <1>4, CopiesMove
  <1>6. f[k] \in Nat /\ k \in Nat
    BY <1>1 DEF PdfAttempts, InvoicePdfsAssumption
  <1> HIDE DEF h
  <1>7. CASE \A l \in PdfAttempts : l # k => g[l] = f[l]
    <2>1. SumOver(g, PdfAttempts) = SumOver(f, PdfAttempts) - f[k] + g[k]
      BY <1>1, <1>2, <1>7, CopiesMove
    <2> QED
      BY <1>1, <1>2, <1>3, <1>6, <2>1
  <1>8. CASE /\ k + 1 \in PdfAttempts /\ g[k + 1] = f[k + 1] + 1
             /\ \A l \in PdfAttempts : l # k /\ l # k + 1 => g[l] = f[l]
    <2>1. \A l \in PdfAttempts : l # k + 1 => g[l] = h[l]
      BY <1>4, <1>8
    <2>2. SumOver(g, PdfAttempts) = SumOver(h, PdfAttempts) - h[k + 1] + g[k + 1]
      BY <1>2, <1>4, <1>8, <2>1, CopiesMove
    <2>3. h[k + 1] = f[k + 1] /\ f[k + 1] \in Nat
      BY <1>1, <1>4, <1>6, <1>8
    <2> QED
      BY <1>1, <1>2, <1>3, <1>5, <1>6, <1>8, <2>2, <2>3
  <1> QED
    BY <1>3, <1>7, <1>8

\* A worker that takes the task, or ends with it.
LEMMA MakersMove ==
  ASSUME InvoicePdfsAssumption, PdfShapes, PdfShapes', NEW i \in CustomerInvoices,
         NEW w \in PdfWorkers, \A v \in PdfWorkers : v # w => (MadeBy(v, i)' <=> MadeBy(v, i))
  PROVE  /\ ~MadeBy(w, i) /\ MadeBy(w, i)' =>
              Cardinality(Makers(i))' = Cardinality(Makers(i)) + 1
         /\ MadeBy(w, i) /\ ~MadeBy(w, i)' =>
              Cardinality(Makers(i))' = Cardinality(Makers(i)) - 1
  <1>1. IsFiniteSet(Makers(i)) /\ Cardinality(Makers(i)) \in Nat
    BY CopiesFacts
  <1>2. ~MadeBy(w, i) /\ MadeBy(w, i)' => w \notin Makers(i) /\ Makers(i)' = Makers(i) \cup {w}
    BY DEF Makers
  <1>3. MadeBy(w, i) /\ ~MadeBy(w, i)' => w \in Makers(i) /\ Makers(i)' = Makers(i) \ {w}
    BY DEF Makers
  <1> QED
    BY <1>1, <1>2, <1>3, FS_AddElement, FS_RemoveElement

\* A step on the task of one invoice.
LEMMA CopiesElsewhere ==
  ASSUME NEW i \in CustomerInvoices, Copied(i)',
         \A x \in CustomerInvoices : x # i =>
            /\ Copied(x) /\ pdf_task'[x] = pdf_task[x] /\ (x \in repeated' <=> x \in repeated)
            /\ \A w \in PdfWorkers : MadeBy(w, x)' <=> MadeBy(w, x)
  PROVE  \A x \in CustomerInvoices : Copied(x)'
  <1> SUFFICES ASSUME NEW x \in CustomerInvoices, x # i PROVE Copied(x)'
    OBVIOUS
  <1>1. Makers(x)' = Makers(x)
    BY DEF Makers
  <1>2. AtBroker(x)' = AtBroker(x)
    BY DEF AtBroker
  <1> QED
    BY <1>1, <1>2 DEF Copied

LEMMA CopiesRequested ==
  ASSUME InvoicePdfsAssumption, PdfInv, PdfInv', NEW i \in CustomerInvoices,
         create_invoice(i) \/ EndRequest(i), \A x \in CustomerInvoices : Copied(x)
  PROVE  \A x \in CustomerInvoices : Copied(x)'
  <1>0. /\ PdfShapes /\ PdfShapes' /\ PdfOf(i) /\ Copied(i) /\ 0 \in PdfAttempts
        /\ pdf_task[i] \in [PdfAttempts -> Nat] /\ pdf_task'[i] \in [PdfAttempts -> Nat]
    BY DEF PdfInv, PdfShapes, PdfAttempts, InvoicePdfsAssumption
  <1>1. /\ repeated' = repeated /\ maker' = maker
        /\ \A x \in CustomerInvoices : x # i => pdf_task'[x] = pdf_task[x]
    BY <1>0 DEF create_invoice, EndRequest, PdfShapes
  <1>2. /\ \A w \in PdfWorkers, x \in CustomerInvoices : MadeBy(w, x)' <=> MadeBy(w, x)
        /\ Makers(i)' = Makers(i)
    BY <1>1 DEF MadeBy, Makers
  <1>3. CASE create_invoice(i)
    <2>1. /\ ~Waiting(i) /\ Makers(i) = {} /\ i \notin repeated
          /\ pdf_task' = [pdf_task EXCEPT ![i][0] = @ + 1]
      BY <1>0, <1>3 DEF create_invoice, PdfOf, NotAsked, Makers
    <2>2. \A k \in PdfAttempts : pdf_task[i][k] = 0
      BY <1>0, <2>1 DEF Waiting
    <2>3. AtBroker(i) = 0
      BY <1>0, <2>2, CopiesFacts, SumZero DEF AtBroker
    <2>4. pdf_task'[i][0] = 1 /\ \A k \in PdfAttempts : k # 0 => pdf_task'[i][k] = pdf_task[i][k]
      BY <1>0, <2>1, <2>2 DEF PdfShapes
    <2>5. AtBroker(i)' = AtBroker(i) - pdf_task[i][0] + pdf_task'[i][0]
      BY <1>0, <2>4, CopiesMove DEF AtBroker
    <2>6. AtBroker(i)' = 1 /\ Cardinality(Makers(i)') = 0
      BY <1>0, <1>2, <2>1, <2>2, <2>3, <2>4, <2>5, FS_EmptySet
    <2>7. Copied(i)'
      BY <1>1, <2>1, <2>6 DEF Copied
    <2> QED
      BY <1>1, <1>2, <2>7, CopiesElsewhere
  <1>4. CASE EndRequest(i)
    <2>1. AtBroker(i)' = AtBroker(i)
      BY <1>4 DEF EndRequest, AtBroker
    <2>2. Copied(i)'
      BY <1>0, <1>1, <1>2, <2>1 DEF Copied
    <2> QED
      BY <1>1, <1>2, <2>2, CopiesElsewhere
  <1> QED
    BY <1>3, <1>4

\* A worker finds no invoice, or takes the task.
LEMMA CopiesDelivered ==
  ASSUME InvoicePdfsAssumption, PdfInv, PdfInv', NEW i \in CustomerInvoices,
         NEW k \in PdfAttempts, InvoiceNotFound(i, k) \/ \E w \in PdfWorkers : BeginPdf(w, i, k),
         \A x \in CustomerInvoices : Copied(x)
  PROVE  \A x \in CustomerInvoices : Copied(x)'
  <1>0. /\ PdfShapes /\ PdfShapes' /\ Copied(i)
        /\ pdf_task \in [CustomerInvoices -> [PdfAttempts -> Nat]]
        /\ pdf_task[i] \in [PdfAttempts -> Nat] /\ pdf_task'[i] \in [PdfAttempts -> Nat]
    BY DEF PdfInv, PdfShapes
  <1>1. AtBroker(i) \in Nat /\ Cardinality(Makers(i)) \in Nat
    BY <1>0, CopiesFacts
  <1>2. AtBroker(i)' \in Nat
    <2>1. (\A l \in PdfAttempts : pdf_task'[i][l] \in Nat) /\ IsFiniteSet(PdfAttempts)
      BY <1>0, CopiesFacts
    <2> QED
      BY <2>1, SumNat DEF AtBroker
  <1>3. CASE InvoiceNotFound(i, k)
    <2>1. pdf_task[i][k] > 0 /\ Retry(i, k, TRUE) /\ UNCHANGED <<maker, repeated>>
      BY <1>3 DEF InvoiceNotFound
    <2>2. /\ \A w \in PdfWorkers, x \in CustomerInvoices : MadeBy(w, x)' <=> MadeBy(w, x)
          /\ Makers(i)' = Makers(i)
      BY <2>1 DEF MadeBy, Makers
    <2>3. \A x \in CustomerInvoices : x # i => pdf_task'[x] = pdf_task[x]
      BY <1>0, <2>1, RetryLeaves
    <2>4. AtBroker(i)' <= AtBroker(i)
      BY <1>0, <2>1, CopiesRetry
    <2>5. Copied(i)'
      BY <1>0, <1>1, <1>2, <2>1, <2>2, <2>4 DEF Copied
    <2> QED
      BY <2>1, <2>2, <2>3, <2>5, CopiesElsewhere
  <1>4. ASSUME NEW w \in PdfWorkers, BeginPdf(w, i, k)
        PROVE  \A x \in CustomerInvoices : Copied(x)'
    <2>1. /\ maker[w] = NoMaker /\ repeated' = repeated
          /\ pdf_task' = [pdf_task EXCEPT ![i][k] = @ - 1]
          /\ maker' = [maker EXCEPT ![w] = [on |-> i, attempt |-> k, read |-> invoice[i]]]
      BY <1>4 DEF BeginPdf
    <2>2. /\ \A x \in CustomerInvoices : ~MadeBy(w, x) /\ (MadeBy(w, x)' <=> x = i)
          /\ \A v \in PdfWorkers, x \in CustomerInvoices : v # w => (MadeBy(v, x)' <=> MadeBy(v, x))
      BY <1>0, <2>1 DEF PdfShapes, MadeBy, NoMaker, InvoicePdfsAssumption
    <2>3. Cardinality(Makers(i))' = Cardinality(Makers(i)) + 1
      BY <1>0, <2>2, MakersMove
    <2>4. /\ \A x \in CustomerInvoices : x # i => pdf_task'[x] = pdf_task[x]
          /\ pdf_task'[i][k] = pdf_task[i][k] - 1 /\ pdf_task[i][k] \in Nat
          /\ \A l \in PdfAttempts : l # k => pdf_task'[i][l] = pdf_task[i][l]
      BY <1>0, <2>1
    <2>5. AtBroker(i)' = AtBroker(i) - pdf_task[i][k] + pdf_task'[i][k]
      BY <1>0, <2>4, CopiesMove DEF AtBroker
    <2>6. AtBroker(i)' + Cardinality(Makers(i))' = AtBroker(i) + Cardinality(Makers(i))
      BY <1>1, <2>3, <2>4, <2>5
    <2>7. Copied(i)'
      BY <1>0, <2>1, <2>6 DEF Copied
    <2> QED
      BY <2>1, <2>2, <2>4, <2>7, CopiesElsewhere
  <1> QED
    BY <1>3, <1>4

\* The worker stores the document, fails, or dies; or its task comes again.
LEMMA CopiesMade ==
  ASSUME InvoicePdfsAssumption, PdfInv, PdfInv', NEW w \in PdfWorkers, MakerStep(w),
         \A x \in CustomerInvoices : Copied(x)
  PROVE  \A x \in CustomerInvoices : Copied(x)'
  <1>0. maker[w] # NoMaker /\ PdfShapes /\ PdfShapes'
    BY DEF PdfInv, MakerStep, _generate_and_store, PdfFails, LoseMaker, RedeliverPdf
  <1>1. PICK i \in CustomerInvoices : i = maker[w].on
    BY <1>0, MakerHolds
  <1> DEFINE k == maker[w].attempt
  <1>2. /\ MadeBy(w, i) /\ \A x \in CustomerInvoices : MadeBy(w, x) => x = i
        /\ k \in PdfAttempts /\ Copied(i)
        /\ pdf_task \in [CustomerInvoices -> [PdfAttempts -> Nat]]
        /\ pdf_task[i] \in [PdfAttempts -> Nat] /\ pdf_task'[i] \in [PdfAttempts -> Nat]
    BY <1>0, <1>1, MakerHolds DEF PdfShapes
  <1>3. AtBroker(i) \in Nat /\ Cardinality(Makers(i)) \in Nat
    BY <1>0, CopiesFacts
  <1>4. AtBroker(i)' \in Nat
    <2>1. (\A l \in PdfAttempts : pdf_task'[i][l] \in Nat) /\ IsFiniteSet(PdfAttempts)
      BY <1>0, <1>2, CopiesFacts
    <2> QED
      BY <2>1, SumNat DEF AtBroker
  <1>5. \A x \in CustomerInvoices : Done(w) => ~MadeBy(w, x)'
    BY <1>0, MakerHolds
  <1>6. \A v \in PdfWorkers, x \in CustomerInvoices : Done(w) /\ v # w => (MadeBy(v, x)' <=> MadeBy(v, x))
    BY <1>0, MakerHolds
  <1>7. Done(w) => Cardinality(Makers(i))' = Cardinality(Makers(i)) - 1
    BY <1>0, <1>2, <1>5, <1>6, MakersMove
  <1>8. ASSUME pdf_task' = [pdf_task EXCEPT ![i][k] = @ + 1]
        PROVE  /\ AtBroker(i)' = AtBroker(i) + 1
               /\ \A x \in CustomerInvoices : x # i => pdf_task'[x] = pdf_task[x]
    <2> HIDE DEF k
    <2>1. /\ pdf_task'[i][k] = pdf_task[i][k] + 1 /\ pdf_task[i][k] \in Nat
          /\ \A l \in PdfAttempts : l # k => pdf_task'[i][l] = pdf_task[i][l]
          /\ \A x \in CustomerInvoices : x # i => pdf_task'[x] = pdf_task[x]
      BY <1>2, <1>8
    <2>2. AtBroker(i)' = AtBroker(i) - pdf_task[i][k] + pdf_task'[i][k]
      BY <1>2, <2>1, CopiesMove DEF AtBroker
    <2> QED
      BY <1>3, <2>1, <2>2
  <1>9. ASSUME Done(w), repeated' = repeated, AtBroker(i)' <= AtBroker(i) + 1,
               \A x \in CustomerInvoices : x # i => pdf_task'[x] = pdf_task[x]
        PROVE  \A x \in CustomerInvoices : Copied(x)'
    <2>1. AtBroker(i)' + Cardinality(Makers(i))' <= AtBroker(i) + Cardinality(Makers(i))
      BY <1>3, <1>4, <1>7, <1>9
    <2>2. Cardinality(Makers(i))' \in Int
      BY <1>3, <1>7, <1>9
    <2>3. Copied(i)'
      BY <1>2, <1>3, <1>4, <1>9, <2>1, <2>2 DEF Copied
    <2>4. \A x \in CustomerInvoices : x # i =>
             /\ Copied(x) /\ pdf_task'[x] = pdf_task[x] /\ (x \in repeated' <=> x \in repeated)
             /\ \A v \in PdfWorkers : MadeBy(v, x)' <=> MadeBy(v, x)
      BY <1>2, <1>5, <1>6, <1>9
    <2> QED
      BY <2>3, <2>4, CopiesElsewhere
  <1>10. CASE _generate_and_store(w)
    <2>1. Done(w) /\ UNCHANGED <<pdf_task, repeated>>
      BY <1>10 DEF _generate_and_store
    <2>2. AtBroker(i)' = AtBroker(i)
      BY <2>1 DEF AtBroker
    <2> QED
      BY <1>3, <1>9, <2>1, <2>2
  <1>11. CASE PdfFails(w)
    <2>1. Done(w) /\ repeated' = repeated /\ Retry(i, k, FALSE)
      BY <1>1, <1>11 DEF PdfFails
    <2> HIDE DEF k
    <2>2. AtBroker(i)' <= AtBroker(i) + 1
      BY <1>0, <1>2, <2>1, CopiesRetry
    <2>3. \A x \in CustomerInvoices : x # i => pdf_task'[x] = pdf_task[x]
      BY <1>0, <1>2, <2>1, RetryLeaves
    <2> QED
      BY <1>9, <2>1, <2>2, <2>3
  <1>12. CASE LoseMaker(w)
    <2>1. /\ Done(w) /\ repeated' = repeated
          /\ pdf_task' = [pdf_task EXCEPT ![i][k] = @ + 1] \/ UNCHANGED pdf_task
      BY <1>1, <1>12 DEF LoseMaker
    <2>2. UNCHANGED pdf_task => AtBroker(i)' = AtBroker(i)
      BY DEF AtBroker
    <2>3. /\ AtBroker(i)' <= AtBroker(i) + 1
          /\ \A x \in CustomerInvoices : x # i => pdf_task'[x] = pdf_task[x]
      BY <1>3, <1>8, <2>1, <2>2
    <2> QED
      BY <1>9, <2>1, <2>3
  <1>13. CASE RedeliverPdf(w)
    <2>1. /\ pdf_task[i][k] < MaxPdfCopies /\ i \notin repeated
          /\ repeated' = repeated \cup {i} /\ maker' = maker
          /\ pdf_task' = [pdf_task EXCEPT ![i][k] = @ + 1]
      BY <1>1, <1>13 DEF RedeliverPdf
    <2>2. MaxPdfCopies >= 1
      BY <1>2, <2>1 DEF InvoicePdfsAssumption
    <2>3. /\ AtBroker(i)' = AtBroker(i) + 1
          /\ \A x \in CustomerInvoices : x # i => pdf_task'[x] = pdf_task[x]
      BY <1>8, <2>1
    <2>4. /\ \A v \in PdfWorkers, x \in CustomerInvoices : MadeBy(v, x)' <=> MadeBy(v, x)
          /\ Makers(i)' = Makers(i)
      BY <2>1 DEF MadeBy, Makers
    <2>5. AtBroker(i) + Cardinality(Makers(i)) <= 1
      BY <1>2, <2>1 DEF Copied
    <2>6. Copied(i)'
      BY <1>3, <2>1, <2>2, <2>3, <2>4, <2>5 DEF Copied
    <2> QED
      BY <2>1, <2>3, <2>4, <2>6, CopiesElsewhere
  <1> QED
    BY <1>10, <1>11, <1>12, <1>13 DEF MakerStep

\* Invoices, their tasks and the workers keep their types: no number of attempts
\* is ever behind more than two tasks of an invoice (invoice_tasks.py:20-59).
THEOREM InvoicePdfsTyped == InvoicePdfsSpec => []InvoicePdfsTypeOK
  <1> DEFINE Inv == PdfInv /\ \A i \in CustomerInvoices : Copied(i)
  <1>1. InvoicePdfsInit => Inv
    <2> SUFFICES ASSUME InvoicePdfsInit, NEW i \in CustomerInvoices PROVE Copied(i)
      BY PdfInit, InvoicePdfsAssumption
    <2>1. \A k \in PdfAttempts : pdf_task[i][k] = 0
      BY DEF InvoicePdfsInit
    <2>2. Makers(i) = {} /\ i \notin repeated
      BY InvoicePdfsAssumption DEF InvoicePdfsInit, Makers, MadeBy, NoMaker, InvoicePdfsAssumption
    <2>3. IsFiniteSet(PdfAttempts)
      BY InvoicePdfsAssumption, FS_Interval DEF PdfAttempts, InvoicePdfsAssumption
    <2>4. AtBroker(i) = 0 /\ Cardinality(Makers(i)) = 0
      BY <2>1, <2>2, <2>3, SumZero, FS_EmptySet DEF AtBroker
    <2> QED
      BY <2>2, <2>4 DEF Copied
  <1>2. Inv /\ [InvoicePdfsNext]_pdfVars => Inv'
    <2> SUFFICES ASSUME Inv, [InvoicePdfsNext]_pdfVars PROVE Inv'
      OBVIOUS
    <2>1. PdfInv'
      BY PdfNext, InvoicePdfsAssumption
    <2>2. \A i \in CustomerInvoices : Copied(i)'
      <3>1. CASE UNCHANGED pdfVars
        BY <3>1 DEF pdfVars, Copied, AtBroker, Makers, MadeBy
      <3>2. ASSUME NEW i \in CustomerInvoices, PdfRequest(i)
            PROVE  \A x \in CustomerInvoices : Copied(x)'
        BY <2>1, <3>2, CopiesRequested, CopiesDelivered, InvoicePdfsAssumption DEF PdfRequest
      <3>3. ASSUME NEW w \in PdfWorkers, MakerStep(w)
            PROVE  \A x \in CustomerInvoices : Copied(x)'
        BY <2>1, <3>3, CopiesMade, InvoicePdfsAssumption
      <3> QED
        BY <3>1, <3>2, <3>3 DEF InvoicePdfsNext
    <2> QED
      BY <2>1, <2>2
  <1>3. Inv => InvoicePdfsTypeOK
    <2> SUFFICES ASSUME Inv PROVE InvoicePdfsTypeOK
      OBVIOUS
    <2>1. PdfShapes
      BY DEF PdfInv
    <2>2. ASSUME NEW i \in CustomerInvoices, NEW k \in PdfAttempts
          PROVE  pdf_task[i][k] \in 0..(MaxPdfCopies + 1)
      <3>1. /\ pdf_task[i][k] \in Nat /\ pdf_task[i][k] <= AtBroker(i)
            /\ AtBroker(i) \in Nat /\ Cardinality(Makers(i)) \in Nat
        BY <2>1, <2>2, CopiesFacts, InvoicePdfsAssumption DEF PdfShapes
      <3>2. Copied(i)
        OBVIOUS
      <3>3. pdf_task[i][k] <= MaxPdfCopies + 1
        BY <3>1, <3>2, InvoicePdfsAssumption DEF Copied, InvoicePdfsAssumption
      <3> QED
        BY <3>1, <3>3, InvoicePdfsAssumption DEF InvoicePdfsAssumption
    <2>3. pdf_task \in [CustomerInvoices -> [PdfAttempts -> 0..(MaxPdfCopies + 1)]]
      <3>1. pdf_task \in [CustomerInvoices -> [PdfAttempts -> Nat]]
        BY <2>1 DEF PdfShapes
      <3>2. \A i \in CustomerInvoices : pdf_task[i] \in [PdfAttempts -> 0..(MaxPdfCopies + 1)]
        BY <2>2, <3>1
      <3> QED
        BY <3>1, <3>2
    <2> QED
      BY <2>1, <2>3 DEF PdfShapes, InvoicePdfsTypeOK, InvoiceStatuses, Making
  <1> QED
    BY <1>1, <1>2, <1>3, PTL DEF InvoicePdfsSpec

-----------------------------------------------------------------------------
(* The rating of a product.                                                *)

Statuses == {"pending", "approved", "rejected"}

ReviewShapes ==
  /\ review_status \in [ReviewIds -> {"absent", "pending", "approved", "rejected"}]
  /\ aggregate \in RatingRows \cup {Unrated}
  /\ session \in [Raters -> RatingSession]
  /\ recompute \in [Attempts -> Nat]
  /\ astray \in BOOLEAN

\* What a session has read, by its step.
HasSelected(t, w) ==
  /\ t.step \in {"load", "commit"} => t.stats # Unrated
  /\ t.step = "commit" /\ t.copy # Unrated => aggregate # Unrated
  /\ w \in RatingWorkers => t = NoRating \/ t.step \in {"count", "load", "commit"}

\* There are tasks only after a first decision, which has published a rating.
Unpublished ==
  aggregate = Unrated =>
    /\ \A k \in Attempts : recompute[k] = 0
    /\ \A s \in Raters : session[s].step # "send"
    /\ \A w \in RatingWorkers : session[w] = NoRating

Published == Statistics({r \in ReviewIds : review_status[r] = "approved"})

\* The task will publish the rating of the reviews that are approved, or leave
\* astray behind it, or another task.
Repairs(t) ==
  \/ t.step = "count"
  \/ /\ t.step \in {"load", "commit"}
     /\ t.old \/ (t.stats = Published /\ (t.step = "commit" => t.copy = aggregate))

Repairing ==
  \/ astray \/ aggregate = Unrated
  \/ \E k \in Attempts : recompute[k] > 0
  \/ \E s \in Raters : session[s].step = "send"
  \/ \E w \in RatingWorkers : Repairs(session[w])
  \/ aggregate = Published /\ \A w \in RatingWorkers : session[w] = NoRating

ReviewInv ==
  /\ ReviewShapes
  /\ \A s \in Raters : HasSelected(session[s], s)
  /\ Unpublished
  /\ Repairing

-----------------------------------------------------------------------------
\* The statistics of some of the reviews are a row of the rating.
LEMMA StatisticsRow ==
  ASSUME ReviewsAssumption, NEW X \in SUBSET ReviewIds
  PROVE  Statistics(X) \in RatingRows
  <1>1. IsFiniteSet(X) /\ \A x \in X : Rating[x] \in Int
    BY FS_Subset DEF ReviewsAssumption
  <1>2. SumOver(Rating, X) \in Int
    BY <1>1, SumInt
  <1>3. Cardinality(X) \in Nat
    BY <1>1, FS_CardinalityType
  <1> DEFINE n == Cardinality(X)
             stars == SumOver(Rating, X)
  <1>4. (IF n = 0 THEN 0 ELSE (200 * stars + n) \div (2 * n)) \in Int
    <2> HIDE DEF n, stars
    <2>1. n \in Nat /\ stars \in Int
      BY <1>2, <1>3 DEF n, stars
    <2>2. CASE n # 0
      <3>1. 200 * stars + n \in Int /\ 2 * n \in Nat /\ 2 * n > 0
        BY <2>1, <2>2
      <3> DEFINE p == 200 * stars + n
                 q == 2 * n
      <3>2. p \div q \in Int
        <4> HIDE DEF p, q
        <4> QED
          BY <3>1 DEF p, q
      <3> QED
        BY <2>2, <3>2
    <2> QED
      BY <2>1, <2>2
  <1> QED
    BY <1>3, <1>4 DEF Statistics, RatingRows

\* The row that a commit leaves: what it has computed, if the row is still the
\* one that was selected.
LEMMA WrittenRow ==
  ASSUME NEW s, session[s].stats \in RatingRows, aggregate \in RatingRows \cup {Unrated},
         session[s].copy # Unrated => aggregate # Unrated
  PROVE  /\ Written(s) \in RatingRows
         /\ session[s].copy = aggregate => Written(s) = session[s].stats
  <1> DEFINE st == session[s].stats
             copy == session[s].copy
             mixed == [c \in DOMAIN st |-> IF st[c] = copy[c] THEN aggregate[c] ELSE st[c]]
  <1>1. CASE copy = Unrated
    BY <1>1 DEF Written
  <1>2. CASE copy # Unrated
    <2>1. Written(s) = mixed
      BY <1>2 DEF Written
    <2>2. aggregate \in RatingRows
      BY <1>2
    <2>3. st = [average_rating |-> st.average_rating, review_count |-> st.review_count]
      BY DEF RatingRows
    <2>4. DOMAIN st = {"average_rating", "review_count"}
      BY DEF RatingRows
    <2>5. mixed \in RatingRows
      BY <2>2, <2>4 DEF RatingRows
    <2>6. copy = aggregate => mixed = st
      BY <2>2, <2>4 DEF RatingRows
    <2> QED
      BY <2>1, <2>5, <2>6
  <1> QED
    BY <1>1, <1>2

\* A step of one session that neither decides nor publishes anything.
LEMMA SessionStep ==
  ASSUME ReviewInv, NEW s \in Raters, NEW t \in RatingSession, NEW x \in RatingSession,
         t = session[s], session' = [session EXCEPT ![s] = x],
         UNCHANGED <<review_status, aggregate>>,
         recompute' \in [Attempts -> Nat], astray' \in BOOLEAN, astray => astray',
         HasSelected(x, s),
         aggregate = Unrated =>
           recompute' = recompute /\ x.step # "send" /\ (s \in RatingWorkers => x = NoRating),
         (\E k \in Attempts : recompute[k] > 0) =>
           \/ \E k \in Attempts : recompute'[k] > 0
           \/ s \in RatingWorkers /\ Repairs(x),
         t.step = "send" \/ (s \in RatingWorkers /\ Repairs(t)) =>
           \/ astray' \/ \E k \in Attempts : recompute'[k] > 0
           \/ s \in RatingWorkers /\ Repairs(x),
         s \in RatingWorkers /\ t = NoRating => x = NoRating \/ Repairs(x)
  PROVE  ReviewInv'
  <1>1. /\ ReviewShapes /\ Unpublished /\ Repairing /\ \A u \in Raters : HasSelected(session[u], u)
    BY DEF ReviewInv
  <1>2. /\ session' \in [Raters -> RatingSession] /\ session'[s] = x
        /\ \A u \in Raters : u # s => session'[u] = session[u]
        /\ RatingWorkers \subseteq Raters
    BY <1>1 DEF ReviewShapes, Raters
  <1>3. ReviewShapes'
    BY <1>1, <1>2 DEF ReviewShapes
  <1>4. ASSUME NEW u \in Raters PROVE HasSelected(session[u], u)'
    <2>1. HasSelected(session'[u], u)
      BY <1>1, <1>2
    <2> QED
      BY <2>1 DEF HasSelected
  <1>5. Unpublished'
    BY <1>1, <1>2 DEF Unpublished
  <1>6. Published' = Published
    BY DEF Published
  <1>7. \A u \in RatingWorkers : Repairs(session'[u]) => Repairs(session[u])'
    BY <1>6 DEF Repairs
  <1>8. Repairing'
    <2>1. CASE astray \/ aggregate = Unrated
      BY <2>1 DEF Repairing
    <2>2. CASE \E k \in Attempts : recompute[k] > 0
      BY <1>2, <1>7, <2>2 DEF Repairing
    <2>3. ASSUME NEW u \in Raters, session[u].step = "send" PROVE Repairing'
      <3>1. CASE u = s
        BY <1>2, <1>7, <2>3, <3>1 DEF Repairing
      <3>2. CASE u # s
        BY <1>2, <2>3, <3>2 DEF Repairing
      <3> QED
        BY <3>1, <3>2
    <2>4. ASSUME NEW u \in RatingWorkers, Repairs(session[u]) PROVE Repairing'
      <3>1. CASE u = s
        BY <1>2, <1>7, <2>4, <3>1 DEF Repairing
      <3>2. CASE u # s
        BY <1>2, <1>7, <2>4, <3>2 DEF Repairing
      <3> QED
        BY <3>1, <3>2
    <2>5. CASE aggregate = Published /\ \A w \in RatingWorkers : session[w] = NoRating
      <3>1. CASE s \in RatingWorkers /\ Repairs(x)
        BY <1>2, <1>7, <3>1 DEF Repairing
      <3>2. CASE s \notin RatingWorkers \/ x = NoRating
        <4>1. \A w \in RatingWorkers : session'[w] = NoRating
          BY <1>2, <2>5, <3>2
        <4> QED
          BY <1>6, <2>5, <4>1 DEF Repairing
      <3> QED
        BY <2>5, <3>1, <3>2
    <2> QED
      BY <1>1, <2>1, <2>2, <2>3, <2>4, <2>5 DEF Repairing
  <1> QED
    BY <1>3, <1>4, <1>5, <1>8 DEF ReviewInv

\* What every session holds, and the assumptions on the constants.
LEMMA SessionFacts ==
  ASSUME ReviewsAssumption, ReviewInv, NEW s \in Raters
  PROVE  /\ session \in [Raters -> RatingSession] /\ session[s] \in RatingSession
         /\ HasSelected(session[s], s) /\ Unpublished
         /\ review_status \in [ReviewIds -> {"absent", "pending", "approved", "rejected"}]
         /\ aggregate \in RatingRows \cup {Unrated}
         /\ recompute \in [Attempts -> Nat] /\ astray \in BOOLEAN
         /\ NoRating \in RatingSession
         /\ MaxRecomputeRetries \in Nat /\ 0 \in Attempts /\ Attempts \subseteq Nat
         /\ (s \in Moderators => s \notin RatingWorkers)
  <1>1. MaxRecomputeRetries \in Nat /\ Moderators \cap RatingWorkers = {} /\ Unrated \notin RatingRows
    BY DEF ReviewsAssumption
  <1>2. 0 \in Attempts /\ Attempts \subseteq Nat
    BY <1>1 DEF Attempts
  <1>3. NoRating \in RatingSession
    BY <1>2 DEF NoRating, RatingSession
  <1> QED
    BY <1>1, <1>2, <1>3 DEF ReviewInv, ReviewShapes

LEMMA CreateReviewStep ==
  ASSUME ReviewInv, NEW r \in ReviewIds, create_review(r) PROVE ReviewInv'
  <1>1. /\ review_status[r] = "absent" /\ review_status' = [review_status EXCEPT ![r] = "pending"]
        /\ UNCHANGED <<aggregate, session, recompute, astray>>
    BY DEF create_review
  <1>2. ReviewShapes'
    BY <1>1 DEF ReviewInv, ReviewShapes
  <1>3. {u \in ReviewIds : review_status'[u] = "approved"} = {u \in ReviewIds : review_status[u] = "approved"}
    BY <1>1 DEF ReviewInv, ReviewShapes
  <1>4. Published' = Published
    BY <1>3 DEF Published
  <1>5. Repairing'
    <2>1. \A u \in RatingWorkers : Repairs(session[u]) => Repairs(session[u])'
      BY <1>1, <1>4 DEF Repairs
    <2> QED
      BY <1>1, <1>4, <2>1 DEF ReviewInv, Repairing
  <1>6. Unpublished' /\ \A u \in Raters : HasSelected(session[u], u)'
    BY <1>1 DEF ReviewInv, Unpublished, HasSelected
  <1> QED
    BY <1>2, <1>5, <1>6 DEF ReviewInv

\* A moderator's request reads a review, and writes what it has decided.
LEMMA DecideStep ==
  ASSUME ReviewsAssumption, ReviewInv, NEW m \in Moderators,
         \/ \E r \in ReviewIds, status \in Statuses : get_review(m, r, status)
         \/ moderate_review(m)
  PROVE  ReviewInv'
  <1>1. m \in Raters
    BY DEF Raters
  <1>2. PICK t \in RatingSession : t = session[m]
    BY <1>1, SessionFacts
  <1>3. m \notin RatingWorkers /\ recompute \in [Attempts -> Nat] /\ astray \in BOOLEAN
    BY <1>1, SessionFacts
  <1>4. ASSUME NEW p \in {"flush", "count"}, NEW d \in SUBSET (ReviewIds \X Statuses), NEW x,
               x = [t EXCEPT !.step = p, !.writes = d] \/ x = [t EXCEPT !.step = p]
        PROVE  x \in RatingSession /\ x.step = p
    BY <1>4 DEF RatingSession, Statuses
  <1>5. ASSUME NEW x \in RatingSession, x.step \in {"flush", "count"}, t.step \in {"none", "flush"},
               session' = [session EXCEPT ![m] = x],
               UNCHANGED <<review_status, aggregate, recompute, astray>>
        PROVE  ReviewInv'
    <2>1. HasSelected(x, m)
      BY <1>3, <1>5 DEF HasSelected
    <2> QED
      BY <1>1, <1>2, <1>3, <1>5, <2>1, SessionStep
  <1>6. ASSUME NEW r \in ReviewIds, NEW status \in Statuses, get_review(m, r, status)
        PROVE  ReviewInv'
    <2> DEFINE d == {<<r, status>>} \ {<<r, review_status[r]>>}
               x == [t EXCEPT !.step = "flush", !.writes = d]
    <2>1. t = NoRating /\ session' = [session EXCEPT ![m] = x]
          /\ UNCHANGED <<review_status, aggregate, recompute, astray>>
      BY <1>1, <1>2, <1>6, SessionFacts DEF get_review
    <2>2. d \in SUBSET (ReviewIds \X Statuses) /\ t.step = "none"
      BY <2>1 DEF NoRating
    <2>3. x \in RatingSession /\ x.step = "flush"
      <3> HIDE DEF d
      <3> QED
        BY <1>4, <2>2
    <2> HIDE DEF x
    <2> QED
      BY <1>5, <2>1, <2>2, <2>3
  <1>7. CASE moderate_review(m)
    <2> DEFINE x == [t EXCEPT !.step = "count"]
    <2>1. t.step = "flush" /\ session' = [session EXCEPT ![m] = x]
          /\ UNCHANGED <<review_status, aggregate, recompute, astray>>
      BY <1>1, <1>2, <1>7, SessionFacts DEF moderate_review
    <2>3. x \in RatingSession /\ x.step = "count"
      BY <1>4
    <2> HIDE DEF x
    <2> QED
      BY <1>5, <2>1, <2>3
  <1> QED
    BY <1>6, <1>7

\* The statistics of the session are of the reviews that are approved, with its
\* own decision; a task has none.
LEMMA SeenReviews ==
  ASSUME ReviewsAssumption, ReviewInv, NEW s \in Raters
  PROVE  /\ Approved(s) \in SUBSET ReviewIds
         /\ s \in RatingWorkers => \A r \in ReviewIds : StatusSeen(s, r) = review_status[r]
         /\ s \in RatingWorkers => Statistics(Approved(s)) = Published
         /\ \A r \in ReviewIds : StatusSeen(s, r) \in {"absent", "pending", "approved", "rejected"}
  <1>1. ASSUME s \in RatingWorkers, NEW r \in ReviewIds PROVE StatusSeen(s, r) = review_status[r]
    BY <1>1, SessionFacts DEF StatusSeen, HasDecided
  <1>2. ASSUME s \in RatingWorkers PROVE Statistics(Approved(s)) = Published
    <2>1. Approved(s) = {r \in ReviewIds : review_status[r] = "approved"}
      BY <1>1, <1>2 DEF Approved
    <2> QED
      BY <2>1 DEF Published
  <1>3. ASSUME NEW r \in ReviewIds PROVE StatusSeen(s, r) \in {"absent", "pending", "approved", "rejected"}
    <2>1. CASE HasDecided(s, r)
      <3> DEFINE W == session[s].writes
                 d == CHOOSE e \in W : e[1] = r
      <3>1. W \in SUBSET (ReviewIds \X Statuses)
        BY SessionFacts DEF RatingSession, Statuses
      <3>2. d \in W
        <4>1. \E e \in W : e[1] = r
          BY <2>1 DEF HasDecided
        <4> QED
          BY <4>1
      <3>3. d[2] \in Statuses
        BY <3>1, <3>2
      <3>4. StatusSeen(s, r) = d[2]
        BY <2>1 DEF StatusSeen
      <3> QED
        BY <3>3, <3>4 DEF Statuses
    <2>2. CASE ~HasDecided(s, r)
      BY <2>2, SessionFacts DEF StatusSeen
    <2> QED
      BY <2>1, <2>2
  <1>4. Approved(s) \in SUBSET ReviewIds
    BY DEF Approved
  <1> QED
    BY <1>1, <1>2, <1>3, <1>4

\* A session selects what it computes the rating from, and the row of it.
LEMMA SelectStep ==
  ASSUME ReviewsAssumption, ReviewInv, NEW s \in Raters, SelectStatistics(s) \/ SelectAggregate(s)
  PROVE  ReviewInv'
  <1>1. PICK t \in RatingSession : t = session[s]
    BY SessionFacts
  <1>2. /\ HasSelected(t, s) /\ Unpublished /\ aggregate \in RatingRows \cup {Unrated}
        /\ recompute \in [Attempts -> Nat] /\ astray \in BOOLEAN
    BY <1>1, SessionFacts
  <1>3. ASSUME t # NoRating, s \in RatingWorkers PROVE aggregate # Unrated
    BY <1>1, <1>2, <1>3 DEF Unpublished
  <1>4. CASE SelectStatistics(s)
    <2>1. PICK c \in RatingRows : c = Statistics(Approved(s))
      BY SeenReviews, StatisticsRow
    <2> DEFINE x == [t EXCEPT !.step = "load", !.stats = c]
    <2>2. /\ t.step = "count" /\ session' = [session EXCEPT ![s] = x]
          /\ UNCHANGED <<review_status, aggregate, recompute, astray>>
      BY <1>1, <1>4, <2>1, SessionFacts DEF SelectStatistics
    <2>3. x \in RatingSession /\ x.step = "load" /\ x.stats = c
      BY DEF RatingSession
    <2> HIDE DEF x
    <2>4. t # NoRating
      BY <2>2 DEF NoRating
    <2>5. HasSelected(x, s)
      BY <2>3 DEF HasSelected, ReviewsAssumption
    <2>6. s \in RatingWorkers => Repairs(x)
      BY <2>1, <2>3, SeenReviews DEF Repairs
    <2> QED
      BY <1>1, <1>2, <1>3, <2>2, <2>3, <2>4, <2>5, <2>6, SessionStep
  <1>5. CASE SelectAggregate(s)
    <2> DEFINE x == [t EXCEPT !.step = "commit", !.copy = aggregate]
    <2>2. /\ t.step = "load" /\ session' = [session EXCEPT ![s] = x]
          /\ UNCHANGED <<review_status, aggregate, recompute, astray>>
      BY <1>1, <1>5, SessionFacts DEF SelectAggregate
    <2>3. /\ x \in RatingSession /\ x.step = "commit" /\ x.copy = aggregate
          /\ x.stats = t.stats /\ x.old = t.old
      BY <1>2 DEF RatingSession
    <2> HIDE DEF x
    <2>4. t # NoRating
      BY <2>2 DEF NoRating
    <2>5. HasSelected(x, s)
      BY <1>2, <2>2, <2>3 DEF HasSelected
    <2>6. Repairs(t) => Repairs(x)
      BY <2>2, <2>3 DEF Repairs
    <2> QED
      BY <1>1, <1>2, <1>3, <2>2, <2>3, <2>4, <2>5, <2>6, SessionStep
  <1> QED
    BY <1>4, <1>5

\* Tasks are sent, taken, sent again, or lost.
LEMMA TaskStep ==
  ASSUME ReviewsAssumption, ReviewInv, NEW s \in Raters,
         \/ s \in Moderators /\ SendRecompute(s)
         \/ s \in RatingWorkers /\ \E k \in Attempts : BeginRecompute(s, k)
         \/ FailRating(s) \/ LoseRecompute(s)
  PROVE  ReviewInv'
  <1>1. PICK t \in RatingSession : t = session[s]
    BY SessionFacts
  <1>2. /\ HasSelected(t, s) /\ Unpublished /\ recompute \in [Attempts -> Nat] /\ astray \in BOOLEAN
        /\ NoRating \in RatingSession /\ 0 \in Attempts /\ MaxRecomputeRetries \in Nat
        /\ (s \in Moderators => s \notin RatingWorkers)
        /\ session \in [Raters -> RatingSession]
    BY <1>1, SessionFacts
  <1>3. (t # NoRating /\ s \in RatingWorkers) \/ t.step = "send" => aggregate # Unrated
    BY <1>1, <1>2 DEF Unpublished
  <1>4. HasSelected(NoRating, s) /\ NoRating.step = "none"
    BY DEF HasSelected, NoRating
  <1>5. CASE s \in Moderators /\ SendRecompute(s)
    <2>1. /\ t.step = "send" /\ session' = [session EXCEPT ![s] = NoRating]
          /\ recompute' = [recompute EXCEPT ![0] = @ + 1]
          /\ UNCHANGED <<review_status, aggregate, astray>>
      BY <1>1, <1>5 DEF SendRecompute
    <2>2. recompute' \in [Attempts -> Nat] /\ recompute'[0] > 0
      BY <1>2, <2>1
    <2> QED
      BY <1>1, <1>2, <1>3, <1>4, <1>5, <2>1, <2>2, SessionStep
  <1>6. ASSUME s \in RatingWorkers, NEW k \in Attempts, BeginRecompute(s, k) PROVE ReviewInv'
    <2> DEFINE x == [t EXCEPT !.step = "count", !.attempt = k]
    <2>1. /\ t = NoRating /\ recompute[k] > 0 /\ session' = [session EXCEPT ![s] = x]
          /\ recompute' = [recompute EXCEPT ![k] = @ - 1]
          /\ UNCHANGED <<review_status, aggregate, astray>>
      BY <1>1, <1>2, <1>6 DEF BeginRecompute
    <2>2. recompute' \in [Attempts -> Nat]
      BY <1>2, <2>1
    <2>3. x \in RatingSession /\ x.step = "count"
      BY DEF RatingSession
    <2> HIDE DEF x
    <2>4. HasSelected(x, s) /\ Repairs(x)
      BY <1>6, <2>3 DEF HasSelected, Repairs
    <2>5. aggregate # Unrated
      BY <1>2, <2>1 DEF Unpublished
    <2>6. t.step = "none"
      BY <2>1 DEF NoRating
    <2> QED
      BY <1>1, <1>2, <1>6, <2>1, <2>2, <2>3, <2>4, <2>5, <2>6, SessionStep
  <1>7. CASE LoseRecompute(s)
    <2>1. /\ session' = [session EXCEPT ![s] = NoRating] /\ astray' = TRUE
          /\ UNCHANGED <<review_status, aggregate, recompute>>
      BY <1>7 DEF LoseRecompute
    <2> QED
      BY <1>1, <1>2, <1>4, <2>1, SessionStep
  <1>8. CASE FailRating(s)
    <2>1. /\ t # NoRating /\ t.step # "send" /\ session' = [session EXCEPT ![s] = NoRating]
          /\ UNCHANGED <<review_status, aggregate>>
      BY <1>1, <1>8 DEF FailRating
    <2>2. CASE s \in Moderators
      <3>1. UNCHANGED <<recompute, astray>>
        BY <1>8, <2>2 DEF FailRating
      <3> QED
        BY <1>1, <1>2, <1>4, <2>1, <2>2, <3>1, SessionStep
    <2>3. CASE s \notin Moderators /\ t.attempt < MaxRecomputeRetries
      <3>1. recompute' = [recompute EXCEPT ![t.attempt + 1] = @ + 1] /\ astray' = astray
        BY <1>1, <1>8, <2>3 DEF FailRating
      <3>2. t.attempt + 1 \in Attempts
        BY <1>2, <2>3 DEF RatingSession, Attempts
      <3> DEFINE k == t.attempt + 1
      <3>3. recompute'[k] > 0 /\ recompute' \in [Attempts -> Nat]
        <4>1. k \in Attempts /\ recompute' = [recompute EXCEPT ![k] = @ + 1]
          BY <3>1, <3>2
        <4> HIDE DEF k
        <4> QED
          BY <1>2, <4>1
      <3> HIDE DEF k
      <3>4. s \in RatingWorkers /\ k \in Attempts
        BY <2>3, <3>2 DEF Raters, k
      <3> QED
        BY <1>1, <1>2, <1>3, <1>4, <2>1, <3>1, <3>3, <3>4, SessionStep
    <2>4. CASE s \notin Moderators /\ ~(t.attempt < MaxRecomputeRetries)
      <3>1. UNCHANGED recompute /\ astray' = TRUE
        BY <1>1, <1>8, <2>4 DEF FailRating
      <3> QED
        BY <1>1, <1>2, <1>4, <2>1, <3>1, SessionStep
    <2> QED
      BY <2>2, <2>3, <2>4
  <1> QED
    BY <1>5, <1>6, <1>7, <1>8

\* A commit leaves every session typed, and the tasks of others outdated.
LEMMA CommitSessions ==
  ASSUME ReviewsAssumption, ReviewInv, NEW s \in Raters, CommitRating(s)
  PROVE  /\ session' \in [Raters -> RatingSession]
         /\ s \in Moderators => session'[s].step = "send" /\ session'[s] \in RatingSession
         /\ s \in RatingWorkers => session'[s] = NoRating
         /\ \A u \in Raters : u # s =>
              /\ session'[u].step = session[u].step /\ session'[u].stats = session[u].stats
              /\ session'[u].copy = session[u].copy
              /\ session[u] = NoRating => session'[u] = NoRating
              /\ s \in RatingWorkers /\ u \in RatingWorkers /\ session[u].step \in {"load", "commit"} =>
                   session'[u].old
  <1> DEFINE own == IF s \in Moderators THEN [NoRating EXCEPT !.step = "send"] ELSE NoRating
             other(u) == IF s \in RatingWorkers THEN Outdated(u) ELSE session[u]
  <1>1. session' = [u \in Raters |-> IF u = s THEN own ELSE other(u)]
    BY DEF CommitRating
  <1>2. /\ own \in RatingSession /\ (s \in Moderators => own.step = "send")
        /\ (s \in RatingWorkers => own = NoRating)
    <2>1. NoRating \in RatingSession /\ (s \in Moderators => s \notin RatingWorkers)
      BY SessionFacts
    <2>2. [NoRating EXCEPT !.step = "send"] \in RatingSession
          /\ [NoRating EXCEPT !.step = "send"].step = "send"
      BY <2>1 DEF RatingSession
    <2> QED
      BY <2>1, <2>2
  <1>3. ASSUME NEW u \in Raters
        PROVE  /\ other(u) \in RatingSession
               /\ other(u).step = session[u].step /\ other(u).stats = session[u].stats
               /\ other(u).copy = session[u].copy
               /\ session[u] = NoRating => other(u) = NoRating
               /\ s \in RatingWorkers /\ u \in RatingWorkers /\ session[u].step \in {"load", "commit"} =>
                    other(u).old
    <2>1. PICK t \in RatingSession : t = session[u]
      BY SessionFacts
    <2>2. CASE s \in RatingWorkers /\ u \in RatingWorkers /\ t.step \in {"load", "commit"}
      <3> DEFINE x == [t EXCEPT !.old = TRUE]
      <3>1. other(u) = x
        BY <2>1, <2>2 DEF Outdated
      <3>2. x \in RatingSession /\ x.step = t.step /\ x.stats = t.stats /\ x.copy = t.copy /\ x.old
        BY DEF RatingSession
      <3>3. t # NoRating
        BY <2>2 DEF NoRating
      <3> HIDE DEF x, other
      <3> QED
        BY <2>1, <3>1, <3>2, <3>3
    <2>3. CASE ~(s \in RatingWorkers /\ u \in RatingWorkers /\ t.step \in {"load", "commit"})
      <3>1. other(u) = t
        BY <2>1, <2>3 DEF Outdated
      <3> HIDE DEF other
      <3> QED
        BY <2>1, <2>3, <3>1
    <2> QED
      BY <2>2, <2>3
  <1> HIDE DEF own, other
  <1>4. session'[s] = own /\ \A u \in Raters : u # s => session'[u] = other(u)
    BY <1>1
  <1>5. session' \in [Raters -> RatingSession]
    BY <1>1, <1>2, <1>3
  <1> QED
    BY <1>2, <1>3, <1>4, <1>5

\* A request or a task commits the rating it has computed.
LEMMA CommitRatingStep ==
  ASSUME ReviewsAssumption, ReviewInv, NEW s \in Raters, CommitRating(s)
  PROVE  ReviewInv'
  <1>1. PICK t \in RatingSession : t = session[s]
    BY SessionFacts
  <1>2. /\ HasSelected(t, s) /\ Unpublished /\ aggregate \in RatingRows \cup {Unrated}
        /\ recompute \in [Attempts -> Nat] /\ astray \in BOOLEAN
        /\ (s \in Moderators => s \notin RatingWorkers) /\ RatingWorkers \subseteq Raters
    BY <1>1, SessionFacts DEF Raters
  <1>3. /\ t.step = "commit" /\ aggregate' = Written(s) /\ recompute' = recompute
        /\ astray' = (astray \/ (s \in RatingWorkers /\ t.old))
        /\ review_status' = [r \in ReviewIds |-> StatusSeen(s, r)]
    BY <1>1 DEF CommitRating
  <1>4. /\ session' \in [Raters -> RatingSession]
        /\ s \in Moderators => session'[s].step = "send"
        /\ s \in RatingWorkers => session'[s] = NoRating
        /\ \A u \in Raters : u # s =>
              /\ session'[u].step = session[u].step /\ session'[u].stats = session[u].stats
              /\ session'[u].copy = session[u].copy
              /\ session[u] = NoRating => session'[u] = NoRating
              /\ s \in RatingWorkers /\ u \in RatingWorkers /\ session[u].step \in {"load", "commit"} =>
                   session'[u].old
    BY CommitSessions
  <1>5. /\ aggregate' \in RatingRows /\ aggregate' # Unrated
        /\ (t.copy = aggregate => aggregate' = t.stats)
    <2>1. t.stats \in RatingRows
      BY <1>2, <1>3 DEF HasSelected, RatingSession
    <2>2. t.copy # Unrated => aggregate # Unrated
      BY <1>2, <1>3 DEF HasSelected
    <2>3. Written(s) \in RatingRows /\ (t.copy = aggregate => Written(s) = t.stats)
      BY <1>1, <1>2, <2>1, <2>2, WrittenRow
    <2> QED
      BY <1>3, <2>3 DEF ReviewsAssumption
  <1>6. ReviewShapes'
    <2>1. \A r \in ReviewIds : StatusSeen(s, r) \in {"absent", "pending", "approved", "rejected"}
      BY SeenReviews
    <2>2. review_status' \in [ReviewIds -> {"absent", "pending", "approved", "rejected"}]
      BY <1>3, <2>1
    <2>3. astray' \in BOOLEAN
      BY <1>2, <1>3 DEF RatingSession
    <2> QED
      BY <1>2, <1>3, <1>4, <1>5, <2>2, <2>3 DEF ReviewShapes
  <1>7. ASSUME NEW u \in Raters PROVE HasSelected(session[u], u)'
    <2>1. HasSelected(session[u], u)
      BY SessionFacts
    <2>2. CASE u # s
      BY <1>4, <1>5, <2>1, <2>2 DEF HasSelected
    <2>3. CASE u = s
      <3>1. u \in RatingWorkers => session'[u] = NoRating
        BY <1>4, <2>3
      <3>2. session'[u].step \in {"none", "send"}
        BY <1>4, <2>3 DEF Raters, NoRating
      <3> QED
        BY <3>1, <3>2 DEF HasSelected
    <2> QED
      BY <2>2, <2>3
  <1>8. Unpublished'
    BY <1>5 DEF Unpublished
  <1>9. Repairing'
    <2>1. CASE s \in Moderators
      BY <1>4, <2>1 DEF Repairing
    <2>2. CASE s \notin Moderators
      <3>1. s \in RatingWorkers
        BY <2>2 DEF Raters
      <3>2. CASE astray'
        BY <3>2 DEF Repairing
      <3>3. CASE ~astray'
        <4>1. ~astray /\ ~t.old
          BY <1>2, <1>3, <3>1, <3>3 DEF RatingSession
        <4>2. aggregate # Unrated
          BY <1>1, <1>2, <1>3, <3>1 DEF Unpublished, NoRating
        <4>3. Published' = Published
          <5>1. \A r \in ReviewIds : review_status'[r] = review_status[r]
            BY <1>3, <3>1, SeenReviews
          <5> QED
            BY <5>1 DEF Published
        <4>4. CASE \E k \in Attempts : recompute[k] > 0
          BY <1>3, <4>4 DEF Repairing
        <4>5. ASSUME NEW u \in Raters, session[u].step = "send" PROVE Repairing'
          <5>1. u # s
            BY <1>1, <1>3, <4>5
          <5> QED
            BY <1>4, <4>5, <5>1 DEF Repairing
        <4>6. ASSUME NEW u \in RatingWorkers, u # s, session[u] # NoRating PROVE Repairing'
          <5>1. session[u].step \in {"count", "load", "commit"}
            BY <1>2, <4>6, SessionFacts DEF HasSelected
          <5>2. Repairs(session[u])'
            BY <1>2, <1>4, <3>1, <4>6, <5>1 DEF Repairs
          <5> QED
            BY <4>6, <5>2 DEF Repairing
        <4>7. CASE Repairs(t) /\ \A u \in RatingWorkers : u # s => session[u] = NoRating
          <5>1. t.stats = Published /\ t.copy = aggregate
            BY <1>3, <4>1, <4>7 DEF Repairs
          <5>2. aggregate' = Published'
            BY <1>5, <4>3, <5>1
          <5>3. \A u \in RatingWorkers : session'[u] = NoRating
            BY <1>2, <1>4, <3>1, <4>7
          <5> QED
            BY <5>2, <5>3 DEF Repairing
        <4>8. t # NoRating
          BY <1>3 DEF NoRating
        <4>9. \A u \in RatingWorkers : ~Repairs(NoRating)
          BY DEF Repairs, NoRating
        <4> QED
          BY <1>1, <3>1, <4>1, <4>2, <4>4, <4>5, <4>6, <4>7, <4>8, <4>9 DEF ReviewInv, Repairing
      <3> QED
        BY <3>2, <3>3
    <2> QED
      BY <2>1, <2>2
  <1> QED
    BY <1>6, <1>7, <1>8, <1>9 DEF ReviewInv

LEMMA ReviewInitially == ReviewsInit /\ ReviewsAssumption => ReviewInv
  <1> SUFFICES ASSUME ReviewsInit, ReviewsAssumption PROVE ReviewInv
    OBVIOUS
  <1>1. MaxRecomputeRetries \in Nat
    BY DEF ReviewsAssumption
  <1>2. NoRating \in RatingSession
    <2>1. 0 \in Attempts
      BY <1>1 DEF Attempts
    <2> QED
      BY <2>1 DEF NoRating, RatingSession
  <1>3. ReviewShapes
    BY <1>2 DEF ReviewsInit, ReviewShapes
  <1>4. \A s \in Raters : HasSelected(session[s], s)
    BY DEF ReviewsInit, HasSelected, NoRating
  <1>5. Unpublished
    <2>1. \A s \in Raters : session[s] = NoRating
      BY DEF ReviewsInit
    <2>2. \A k \in Attempts : recompute[k] = 0
      BY DEF ReviewsInit
    <2>3. RatingWorkers \subseteq Raters /\ NoRating.step # "send"
      BY DEF Raters, NoRating
    <2> QED
      BY <2>1, <2>2, <2>3 DEF Unpublished
  <1>6. Repairing
    BY DEF ReviewsInit, Repairing
  <1> QED
    BY <1>3, <1>4, <1>5, <1>6 DEF ReviewInv

LEMMA ReviewNext ==
  ASSUME ReviewsAssumption, ReviewInv, [ReviewsNext]_reviewVars PROVE ReviewInv'
  <1>1. CASE UNCHANGED reviewVars
    <2>1. UNCHANGED <<review_status, aggregate, session, recompute, astray>>
      BY <1>1 DEF reviewVars
    <2>2. Published' = Published
      BY <2>1 DEF Published
    <2>3. ReviewShapes' /\ Unpublished' /\ \A s \in Raters : HasSelected(session[s], s)'
      BY <2>1 DEF ReviewInv, ReviewShapes, Unpublished, HasSelected
    <2>4. Repairing'
      <3>1. \A s \in RatingWorkers : Repairs(session[s]) => Repairs(session[s])'
        BY <2>1, <2>2 DEF Repairs
      <3> QED
        BY <2>1, <2>2, <3>1 DEF ReviewInv, Repairing
    <2> QED
      BY <2>3, <2>4 DEF ReviewInv
  <1>2. ASSUME NEW r \in ReviewIds, create_review(r) PROVE ReviewInv'
    BY <1>2, CreateReviewStep
  <1>3. ASSUME NEW m \in Moderators, ModeratorStep(m) PROVE ReviewInv'
    <2>1. m \in Raters
      BY DEF Raters
    <2>2. CASE SendRecompute(m)
      BY <2>1, <2>2, TaskStep
    <2>3. CASE ~SendRecompute(m)
      BY <1>3, <2>3, DecideStep DEF ModeratorStep, Statuses
    <2> QED
      BY <2>2, <2>3
  <1>4. ASSUME NEW w \in RatingWorkers, NEW k \in Attempts, BeginRecompute(w, k) PROVE ReviewInv'
    <2>1. w \in Raters
      BY DEF Raters
    <2> QED
      BY <1>4, <2>1, TaskStep
  <1>5. ASSUME NEW s \in Raters, RaterStep(s) PROVE ReviewInv'
    BY <1>5, SelectStep, CommitRatingStep, TaskStep DEF RaterStep
  <1> QED
    BY <1>1, <1>2, <1>3, <1>4, <1>5 DEF ReviewsNext

\* When no request or task is left, the published rating is that of the
\* approved reviews, unless a task was lost, gave up, or overlapped another
\* (review_service.py:51-96, moderation_tasks.py:12-33).
THEOREM RatingIsRepaired == ReviewsSpec => []RatingRepaired
  <1>1. ReviewInv => RatingRepaired
    <2> SUFFICES ASSUME ReviewInv, AtRest, ~astray, aggregate # Unrated
                 PROVE  aggregate = Published
      BY DEF RatingRepaired, Published
    <2>1. \A s \in Raters : session[s] = NoRating
      BY DEF AtRest
    <2>2. ~Repairs(NoRating) /\ NoRating.step # "send" /\ RatingWorkers \subseteq Raters
      BY DEF Repairs, NoRating, Raters
    <2>3. \A k \in Attempts : ~(recompute[k] > 0)
      BY DEF AtRest
    <2> QED
      BY <2>1, <2>2, <2>3 DEF ReviewInv, Repairing
  <1>2. ReviewsInit => ReviewInv
    BY ReviewInitially, ReviewsAssumption
  <1>3. ReviewInv /\ [ReviewsNext]_reviewVars => ReviewInv'
    BY ReviewNext, ReviewsAssumption
  <1> QED
    BY <1>1, <1>2, <1>3, PTL DEF ReviewsSpec
-----------------------------------------------------------------------------
\* A rating that someone has given: an average of one to five stars in
\* hundredths, or zero of none, and no more reviews than there are.
GivenRatings == [average_rating : 0..500, review_count : 0..Cardinality(ReviewIds)]

\* What is published, and what sessions are about to publish.
RatingsGiven ==
  /\ aggregate \in GivenRatings \cup {Unrated}
  /\ \A s \in Raters : session[s].stats \in GivenRatings \cup {Unrated}

\* What the rounded quotient can be.
LEMMA RoundedQuotient ==
  ASSUME NEW n \in Nat, n > 0, NEW stars \in Nat, stars <= 5 * n
  PROVE  (200 * stars + n) \div (2 * n) \in 0..500
  <1> DEFINE p == 200 * stars + n
             m == 2 * n
             q == p \div m
  <1>1. /\ p \in Nat /\ m \in Nat /\ m > 0 /\ p < 501 * m
    OBVIOUS
  <1>2. q \in Int /\ m * q <= p /\ p < m * (q + 1)
    <2> HIDE DEF p, m
    <2> QED
      BY <1>1
  <1> HIDE DEF p, m, q
  <1>3. q <= 500
    <2> SUFFICES ASSUME q >= 501 PROVE FALSE
      BY <1>2
    <2>1. m * q >= m * 501
      BY <1>1, <1>2
    <2> QED
      BY <1>1, <1>2, <2>1
  <1>4. q >= 0
    <2> SUFFICES ASSUME q + 1 <= 0 PROVE FALSE
      BY <1>2
    <2>1. m * (q + 1) <= 0
      BY <1>1, <1>2
    <2> QED
      BY <1>1, <1>2, <2>1
  <1> QED
    BY <1>2, <1>3, <1>4 DEF p, m, q

LEMMA StatisticsGiven ==
  ASSUME ReviewsAssumption, NEW X \in SUBSET ReviewIds
  PROVE  Statistics(X) \in GivenRatings
  <1> DEFINE n == Cardinality(X)
             stars == SumOver(Rating, X)
  <1>1. /\ IsFiniteSet(X) /\ IsFiniteSet(ReviewIds)
        /\ \A x \in X : Rating[x] \in Nat /\ Rating[x] \in Int /\ Rating[x] <= 5
    BY FS_Subset DEF ReviewsAssumption
  <1>2. n \in Nat /\ stars \in Nat /\ stars <= 5 * n
    BY <1>1, FS_CardinalityType, SumNat, SumBound
  <1>3. n \in 0..Cardinality(ReviewIds)
    BY <1>1, <1>2, FS_Subset, FS_CardinalityType
  <1>4. (IF n = 0 THEN 0 ELSE (200 * stars + n) \div (2 * n)) \in 0..500
    <2> HIDE DEF n, stars
    <2>1. CASE n = 0
      BY <2>1
    <2>2. CASE n # 0
      <3>1. (200 * stars + n) \div (2 * n) \in 0..500
        BY <1>2, <2>2, RoundedQuotient
      <3> QED
        BY <2>2, <3>1
    <2> QED
      BY <2>1, <2>2
  <1>5. Statistics(X) = [average_rating |-> IF n = 0 THEN 0 ELSE (200 * stars + n) \div (2 * n),
                         review_count |-> n]
    BY DEF Statistics
  <1> HIDE DEF n, stars
  <1> QED
    BY <1>3, <1>4, <1>5 DEF GivenRatings

\* A session that is given other statistics, or none.
LEMMA GivenStep ==
  ASSUME ReviewsAssumption, ReviewInv, RatingsGiven, NEW s \in Raters, NEW x,
         session' = [session EXCEPT ![s] = x], aggregate' = aggregate,
         x.stats \in GivenRatings \cup {Unrated}
  PROVE  RatingsGiven'
  <1>1. session'[s] = x /\ \A u \in Raters : u # s => session'[u] = session[u]
    BY SessionFacts
  <1>2. GivenRatings' = GivenRatings
    BY DEF GivenRatings
  <1> QED
    BY <1>1, <1>2 DEF RatingsGiven

\* Each column of a row that is published was computed from reviews, if not
\* both from the same ones.
LEMMA GivenCommit ==
  ASSUME ReviewsAssumption, ReviewInv, RatingsGiven, NEW s \in Raters, CommitRating(s)
  PROVE  RatingsGiven'
  <1>1. PICK t \in RatingSession : t = session[s]
    BY SessionFacts
  <1>2. /\ t.step = "commit" /\ aggregate' = Written(s)
        /\ t.stats \in GivenRatings /\ aggregate \in GivenRatings \cup {Unrated}
        /\ t.copy # Unrated => aggregate # Unrated
    BY <1>1, SessionFacts DEF CommitRating, HasSelected, RatingsGiven
  <1>3. Written(s) \in GivenRatings
    <2>1. CASE t.copy = Unrated
      BY <1>1, <1>2, <2>1 DEF Written
    <2>2. CASE t.copy # Unrated
      <3> DEFINE st == t.stats
                 mixed == [c \in DOMAIN st |-> IF st[c] = t.copy[c] THEN aggregate[c] ELSE st[c]]
      <3>1. Written(s) = mixed
        BY <1>1, <2>2 DEF Written
      <3>2. aggregate \in GivenRatings /\ DOMAIN st = {"average_rating", "review_count"}
        BY <1>2, <2>2 DEF GivenRatings
      <3>3. mixed \in GivenRatings
        BY <1>2, <3>2 DEF GivenRatings
      <3> QED
        BY <3>1, <3>3
    <2> QED
      BY <2>1, <2>2
  <1>4. ASSUME NEW u \in Raters PROVE session'[u].stats \in GivenRatings \cup {Unrated}
    <2>1. CASE u # s
      BY <2>1, CommitSessions DEF RatingsGiven
    <2>2. CASE u = s
      <3>1. session'[u] = IF s \in Moderators THEN [NoRating EXCEPT !.step = "send"] ELSE NoRating
        BY <2>2 DEF CommitRating
      <3>2. session'[u].stats = Unrated
        BY <3>1 DEF NoRating
      <3> QED
        BY <3>2
    <2> QED
      BY <2>1, <2>2
  <1>5. GivenRatings' = GivenRatings
    BY DEF GivenRatings
  <1> QED
    BY <1>2, <1>3, <1>4, <1>5 DEF RatingsGiven

LEMMA GivenNext ==
  ASSUME ReviewsAssumption, ReviewInv, RatingsGiven, [ReviewsNext]_reviewVars
  PROVE  RatingsGiven'
  <1>0. GivenRatings' = GivenRatings
    BY DEF GivenRatings
  <1>1. CASE UNCHANGED reviewVars
    BY <1>0, <1>1 DEF reviewVars, RatingsGiven
  <1>2. ASSUME NEW r \in ReviewIds, create_review(r) PROVE RatingsGiven'
    BY <1>0, <1>2 DEF create_review, RatingsGiven
  <1>3. ASSUME NEW s \in Raters PROVE session[s].stats \in GivenRatings \cup {Unrated}
    BY <1>3 DEF RatingsGiven
  <1>4. NoRating.stats = Unrated
    BY DEF NoRating
  <1>5. ASSUME NEW m \in Moderators, ModeratorStep(m) PROVE RatingsGiven'
    <2>1. m \in Raters
      BY DEF Raters
    <2>2. PICK t \in RatingSession : t = session[m]
      BY <2>1, SessionFacts
    <2>3. ASSUME NEW r \in ReviewIds, NEW status \in Statuses, get_review(m, r, status)
          PROVE  RatingsGiven'
      <3> DEFINE d == {<<r, status>>} \ {<<r, review_status[r]>>}
                 x == [t EXCEPT !.step = "flush", !.writes = d]
      <3>1. session' = [session EXCEPT ![m] = x] /\ aggregate' = aggregate
        BY <2>1, <2>2, <2>3, SessionFacts DEF get_review
      <3>2. x.stats = t.stats
        BY DEF RatingSession
      <3> HIDE DEF x
      <3> QED
        BY <1>3, <2>1, <2>2, <3>1, <3>2, GivenStep
    <2>4. CASE moderate_review(m)
      <3> DEFINE x == [t EXCEPT !.step = "count"]
      <3>1. session' = [session EXCEPT ![m] = x] /\ aggregate' = aggregate
        BY <2>1, <2>2, <2>4, SessionFacts DEF moderate_review
      <3>2. x.stats = t.stats
        BY DEF RatingSession
      <3> HIDE DEF x
      <3> QED
        BY <1>3, <2>1, <2>2, <3>1, <3>2, GivenStep
    <2>5. CASE SendRecompute(m)
      <3>1. session' = [session EXCEPT ![m] = NoRating] /\ aggregate' = aggregate
        BY <2>5 DEF SendRecompute
      <3> QED
        BY <1>4, <2>1, <3>1, GivenStep
    <2> QED
      BY <1>5, <2>3, <2>4, <2>5 DEF ModeratorStep, Statuses
  <1>6. ASSUME NEW w \in RatingWorkers, NEW k \in Attempts, BeginRecompute(w, k) PROVE RatingsGiven'
    <2>1. w \in Raters
      BY DEF Raters
    <2>2. PICK t \in RatingSession : t = session[w]
      BY <2>1, SessionFacts
    <2> DEFINE x == [t EXCEPT !.step = "count", !.attempt = k]
    <2>3. session' = [session EXCEPT ![w] = x] /\ aggregate' = aggregate
      BY <1>6, <2>1, <2>2, SessionFacts DEF BeginRecompute
    <2>4. x.stats = t.stats
      BY DEF RatingSession
    <2> HIDE DEF x
    <2> QED
      BY <1>3, <2>1, <2>2, <2>3, <2>4, GivenStep
  <1>7. ASSUME NEW s \in Raters, RaterStep(s) PROVE RatingsGiven'
    <2>1. PICK t \in RatingSession : t = session[s]
      BY SessionFacts
    <2>2. CASE SelectStatistics(s)
      <3>1. PICK c \in GivenRatings : c = Statistics(Approved(s))
        BY SeenReviews, StatisticsGiven
      <3> DEFINE x == [t EXCEPT !.step = "load", !.stats = c]
      <3>2. session' = [session EXCEPT ![s] = x] /\ aggregate' = aggregate
        BY <2>1, <2>2, <3>1, SessionFacts DEF SelectStatistics
      <3>3. x.stats = c
        BY DEF RatingSession
      <3> HIDE DEF x
      <3> QED
        BY <3>1, <3>2, <3>3, GivenStep
    <2>3. CASE SelectAggregate(s)
      <3> DEFINE x == [t EXCEPT !.step = "commit", !.copy = aggregate]
      <3>1. session' = [session EXCEPT ![s] = x] /\ aggregate' = aggregate
        BY <2>1, <2>3, SessionFacts DEF SelectAggregate
      <3>2. x.stats = t.stats
        BY DEF RatingSession
      <3> HIDE DEF x
      <3> QED
        BY <1>3, <2>1, <3>1, <3>2, GivenStep
    <2>4. CASE CommitRating(s)
      BY <2>4, GivenCommit
    <2>5. CASE FailRating(s) \/ LoseRecompute(s)
      <3>1. session' = [session EXCEPT ![s] = NoRating] /\ aggregate' = aggregate
        BY <2>5 DEF FailRating, LoseRecompute
      <3> QED
        BY <1>4, <3>1, GivenStep
    <2> QED
      BY <1>7, <2>2, <2>3, <2>4, <2>5 DEF RaterStep
  <1> QED
    BY <1>1, <1>2, <1>5, <1>6, <1>7 DEF ReviewsNext

-----------------------------------------------------------------------------
\* The requests and tasks that are under way, and the tasks at the broker.
Busy == {s \in Raters : session[s] # NoRating}
Sent == SumOver(recompute, Attempts)

\* A request sends one task, a task that fails one attempt: only the beginning
\* of a request adds to them, and it looks at the bound.
FewRecomputes == Sent + Cardinality(Busy) <= MaxRecomputes

LEMMA RecomputeFacts ==
  ASSUME ReviewsAssumption, ReviewShapes
  PROVE  /\ IsFiniteSet(Attempts) /\ IsFiniteSet(Raters) /\ IsFiniteSet(Busy)
         /\ Sent \in Nat /\ Cardinality(Busy) \in Nat
         /\ \A k \in Attempts : recompute[k] \in Nat /\ recompute[k] <= Sent
  <1>1. IsFiniteSet(Attempts) /\ IsFiniteSet(Raters)
    <2>1. MaxRecomputeRetries \in Int /\ IsFiniteSet(Moderators) /\ IsFiniteSet(RatingWorkers)
      BY DEF ReviewsAssumption
    <2>2. IsFiniteSet(Attempts)
      BY <2>1, FS_Interval DEF Attempts
    <2> QED
      BY <2>1, <2>2, FS_Union DEF Raters
  <1>2. IsFiniteSet(Busy)
    <2>1. Busy \subseteq Raters
      BY DEF Busy
    <2> QED
      BY <1>1, <2>1, FS_Subset
  <1>3. \A k \in Attempts : recompute[k] \in Nat
    BY DEF ReviewShapes
  <1>4. Sent \in Nat
    BY <1>1, <1>3, SumNat DEF Sent
  <1>5. \A k \in Attempts : recompute[k] <= Sent
    BY <1>1, <1>3, SumMember DEF Sent
  <1> QED
    BY <1>1, <1>2, <1>3, <1>4, <1>5, FS_CardinalityType

\* One number of attempts with a task more or less.
LEMMA SentMove ==
  ASSUME ReviewsAssumption, ReviewShapes, ReviewShapes', NEW k \in Attempts, NEW x \in Int,
         recompute' = [recompute EXCEPT ![k] = x]
  PROVE  Sent' = Sent - recompute[k] + x
  <1>1. /\ \A l \in Attempts : recompute[l] \in Int
        /\ recompute'[k] = x /\ \A l \in Attempts : l # k => recompute'[l] = recompute[l]
    BY DEF ReviewShapes
  <1>2. recompute'[k] \in Int /\ IsFiniteSet(Attempts)
    BY <1>1, RecomputeFacts
  <1> DEFINE f == recompute
             g == recompute'
  <1>3. /\ \A l \in Attempts : f[l] \in Int
        /\ g[k] \in Int /\ \A l \in Attempts : l # k => g[l] = f[l]
    BY <1>1, <1>2
  <1>4. Sent = SumOver(f, Attempts) /\ Sent' = SumOver(g, Attempts) /\ g[k] = x /\ f[k] = recompute[k]
    BY <1>1 DEF Sent
  <1> HIDE DEF f, g
  <1>5. SumOver(g, Attempts) = SumOver(f, Attempts) - f[k] + g[k]
    BY <1>2, <1>3, SumUpdate
  <1> QED
    BY <1>4, <1>5

\* A session that begins, goes on, or ends.
LEMMA BusyMove ==
  ASSUME ReviewsAssumption, ReviewInv, NEW s \in Raters, NEW x, session' = [session EXCEPT ![s] = x]
  PROVE  /\ Cardinality(Busy)' \in Nat
         /\ session[s] # NoRating => Cardinality(Busy)' <= Cardinality(Busy)
         /\ session[s] # NoRating /\ x = NoRating => Cardinality(Busy)' = Cardinality(Busy) - 1
         /\ session[s] = NoRating => Cardinality(Busy)' <= Cardinality(Busy) + 1
  <1>1. IsFiniteSet(Busy) /\ Cardinality(Busy) \in Nat
    BY RecomputeFacts DEF ReviewInv
  <1>2. session'[s] = x /\ \A u \in Raters : u # s => session'[u] = session[u]
    BY SessionFacts
  <1>3. Busy' \subseteq Busy \cup {s} /\ (x = NoRating => Busy' = Busy \ {s})
    BY <1>2 DEF Busy
  <1>4. s \in Busy <=> session[s] # NoRating
    BY DEF Busy
  <1>5. /\ IsFiniteSet(Busy \cup {s})
        /\ Cardinality(Busy \cup {s}) = IF s \in Busy THEN Cardinality(Busy) ELSE Cardinality(Busy) + 1
    BY <1>1, FS_AddElement
  <1>6. Cardinality(Busy \ {s}) = IF s \in Busy THEN Cardinality(Busy) - 1 ELSE Cardinality(Busy)
    BY <1>1, FS_RemoveElement
  <1>7. IsFiniteSet(Busy') /\ Cardinality(Busy') <= Cardinality(Busy \cup {s}) /\ Cardinality(Busy') \in Nat
    BY <1>3, <1>5, FS_Subset, FS_CardinalityType
  <1> QED
    BY <1>1, <1>3, <1>4, <1>5, <1>6, <1>7

LEMMA FewNext ==
  ASSUME ReviewsAssumption, ReviewInv, ReviewInv', FewRecomputes, [ReviewsNext]_reviewVars
  PROVE  FewRecomputes'
  <1> USE DEF FewRecomputes
  <1>0. /\ ReviewShapes /\ ReviewShapes' /\ MaxRecomputes \in Nat
        /\ Sent \in Nat /\ Cardinality(Busy) \in Nat /\ Sent' \in Nat /\ Cardinality(Busy') \in Nat
        /\ \A k \in Attempts : recompute[k] \in Nat
    <2>1. ReviewShapes /\ ReviewShapes' /\ MaxRecomputes \in Nat
      BY DEF ReviewInv, ReviewsAssumption
    <2>2. /\ Sent \in Nat /\ Cardinality(Busy) \in Nat /\ IsFiniteSet(Attempts) /\ IsFiniteSet(Raters)
          /\ \A k \in Attempts : recompute[k] \in Nat
      BY <2>1, RecomputeFacts
    <2>3. Sent' \in Nat
      <3>1. \A k \in Attempts : recompute'[k] \in Nat
        BY <2>1 DEF ReviewShapes
      <3> QED
        BY <2>2, <3>1, SumNat DEF Sent
    <2>4. Cardinality(Busy') \in Nat
      <3>1. Busy' \subseteq Raters
        BY DEF Busy
      <3> QED
        BY <2>2, <3>1, FS_Subset, FS_CardinalityType
    <2> QED
      BY <2>1, <2>2, <2>3, <2>4
  <1>1. recompute' = recompute => Sent' = Sent
    BY DEF Sent
  <1>2. CASE UNCHANGED reviewVars \/ \E r \in ReviewIds : create_review(r)
    <2>1. recompute' = recompute /\ Busy' = Busy
      BY <1>2 DEF reviewVars, create_review, Busy
    <2> QED
      BY <1>1, <2>1
  <1>3. ASSUME NEW m \in Moderators, NEW r \in ReviewIds, NEW status \in Statuses,
               get_review(m, r, status)
        PROVE  FewRecomputes'
    <2>1. m \in Raters
      BY DEF Raters
    <2>2. /\ session[m] = NoRating /\ Sent + Cardinality(Busy) < MaxRecomputes
          /\ recompute' = recompute
      BY <1>3 DEF get_review, Sent, Busy
    <2>3. Cardinality(Busy)' <= Cardinality(Busy) + 1
      <3> DEFINE d == {<<r, status>>} \ {<<r, review_status[r]>>}
                 x == [session[m] EXCEPT !.step = "flush", !.writes = d]
      <3>1. session' = [session EXCEPT ![m] = x]
        BY <1>3, <2>1, SessionFacts DEF get_review
      <3> HIDE DEF x
      <3> QED
        BY <2>1, <2>2, <3>1, BusyMove
    <2> QED
      BY <1>0, <1>1, <2>2, <2>3
  <1>4. ASSUME NEW s \in Raters, NEW x, session' = [session EXCEPT ![s] = x], session[s] # NoRating,
               recompute' = recompute
        PROVE  FewRecomputes'
    <2>1. Cardinality(Busy)' <= Cardinality(Busy)
      BY <1>4, BusyMove
    <2> QED
      BY <1>0, <1>1, <1>4, <2>1
  <1>5. ASSUME NEW m \in Moderators, moderate_review(m) PROVE FewRecomputes'
    <2>1. m \in Raters /\ session[m] # NoRating /\ recompute' = recompute
      BY <1>5 DEF moderate_review, NoRating, Raters
    <2>2. session' = [session EXCEPT ![m] = [session[m] EXCEPT !.step = "count"]]
      BY <1>5, <2>1, SessionFacts DEF moderate_review
    <2> QED
      BY <1>4, <2>1, <2>2
  <1>6. ASSUME NEW m \in Moderators, SendRecompute(m) PROVE FewRecomputes'
    <2>1. /\ m \in Raters /\ session[m] # NoRating /\ 0 \in Attempts
          /\ session' = [session EXCEPT ![m] = NoRating]
          /\ recompute' = [recompute EXCEPT ![0] = recompute[0] + 1]
      BY <1>6, SessionFacts DEF SendRecompute, NoRating, Raters
    <2>2. Cardinality(Busy)' = Cardinality(Busy) - 1
      BY <2>1, BusyMove
    <2> DEFINE y == recompute[0] + 1
    <2>3. Sent' = Sent - recompute[0] + y
      <3>1. y \in Int /\ recompute' = [recompute EXCEPT ![0] = y]
        BY <1>0, <2>1
      <3> HIDE DEF y
      <3> QED
        BY <1>0, <2>1, <3>1, SentMove
    <2> QED
      BY <1>0, <2>1, <2>2, <2>3
  <1>7. ASSUME NEW w \in RatingWorkers, NEW k \in Attempts, BeginRecompute(w, k) PROVE FewRecomputes'
    <2>1. w \in Raters
      BY DEF Raters
    <2>2. /\ session[w] = NoRating
          /\ session' = [session EXCEPT ![w] = [session[w] EXCEPT !.step = "count", !.attempt = k]]
          /\ recompute' = [recompute EXCEPT ![k] = recompute[k] - 1]
      BY <1>0, <1>7, <2>1, SessionFacts DEF BeginRecompute
    <2>3. Cardinality(Busy)' <= Cardinality(Busy) + 1
      BY <2>1, <2>2, BusyMove
    <2> DEFINE y == recompute[k] - 1
    <2>4. Sent' = Sent - recompute[k] + y
      <3>1. y \in Int /\ recompute' = [recompute EXCEPT ![k] = y]
        BY <1>0, <2>2
      <3> HIDE DEF y
      <3> QED
        BY <1>0, <3>1, SentMove
    <2> QED
      BY <1>0, <2>3, <2>4
  <1>8. ASSUME NEW s \in Raters, SelectStatistics(s) \/ SelectAggregate(s) PROVE FewRecomputes'
    <2>1. session[s] # NoRating /\ recompute' = recompute
      BY <1>8 DEF SelectStatistics, SelectAggregate, NoRating
    <2>2. \E x : session' = [session EXCEPT ![s] = x]
      <3>1. CASE SelectStatistics(s)
        <4>1. session' = [session EXCEPT ![s] =
                            [session[s] EXCEPT !.step = "load", !.stats = Statistics(Approved(s))]]
          BY <3>1, SessionFacts DEF SelectStatistics
        <4> QED
          BY <4>1
      <3>2. CASE SelectAggregate(s)
        <4>1. session' = [session EXCEPT ![s] =
                            [session[s] EXCEPT !.step = "commit", !.copy = aggregate]]
          BY <3>2, SessionFacts DEF SelectAggregate
        <4> QED
          BY <4>1
      <3> QED
        BY <1>8, <3>1, <3>2
    <2> QED
      BY <1>4, <2>1, <2>2
  <1>9. ASSUME NEW s \in Raters, CommitRating(s) PROVE FewRecomputes'
    <2>1. session[s] # NoRating /\ recompute' = recompute
      BY <1>9 DEF CommitRating, NoRating
    <2>2. \A u \in Raters : u # s /\ session[u] = NoRating => session'[u] = NoRating
      BY <1>9, CommitSessions
    <2>3. Busy' \subseteq Busy
      BY <2>1, <2>2 DEF Busy
    <2>4. Cardinality(Busy') <= Cardinality(Busy)
      BY <1>0, <2>3, RecomputeFacts, FS_Subset
    <2> QED
      BY <1>0, <1>1, <2>1, <2>4
  <1>10. ASSUME NEW s \in Raters, FailRating(s) PROVE FewRecomputes'
    <2>1. session[s] # NoRating /\ session' = [session EXCEPT ![s] = NoRating]
      BY <1>10 DEF FailRating
    <2>2. CASE recompute' = recompute
      BY <1>4, <2>1, <2>2
    <2>3. CASE s \notin Moderators /\ session[s].attempt < MaxRecomputeRetries
      <3> DEFINE k == session[s].attempt + 1
      <3>1. k \in Attempts
        BY <2>3, SessionFacts DEF RatingSession, Attempts
      <3>2. recompute' = [recompute EXCEPT ![k] = recompute[k] + 1]
        BY <1>10, <2>3 DEF FailRating
      <3>3. Cardinality(Busy)' = Cardinality(Busy) - 1
        BY <2>1, BusyMove
      <3> HIDE DEF k
      <3> DEFINE y == recompute[k] + 1
      <3>4. Sent' = Sent - recompute[k] + y
        <4>1. y \in Int /\ recompute' = [recompute EXCEPT ![k] = y]
          BY <1>0, <3>1, <3>2
        <4> HIDE DEF y
        <4> QED
          BY <1>0, <3>1, <4>1, SentMove
      <3> QED
        BY <1>0, <3>1, <3>3, <3>4
    <2> QED
      BY <1>10, <2>2, <2>3 DEF FailRating
  <1>11. ASSUME NEW s \in Raters, LoseRecompute(s) PROVE FewRecomputes'
    BY <1>4, <1>11 DEF LoseRecompute
  <1> QED
    BY <1>2, <1>3, <1>5, <1>6, <1>7, <1>8, <1>9, <1>10, <1>11
    DEF ReviewsNext, ModeratorStep, RaterStep, Statuses

\* Reviews, the rating and the tasks keep their types: what is published is an
\* average and a count that ratings of one to five stars can have, even where
\* two sessions wrote a column each (review_service.py:51-96).
THEOREM ReviewsTyped == ReviewsSpec => []ReviewsTypeOK
  <1> DEFINE Inv == ReviewInv /\ RatingsGiven /\ FewRecomputes
  <1>1. ReviewsInit => Inv
    <2> SUFFICES ASSUME ReviewsInit PROVE RatingsGiven /\ FewRecomputes
      BY ReviewInitially, ReviewsAssumption
    <2>1. RatingsGiven
      BY DEF ReviewsInit, RatingsGiven, NoRating
    <2>2. Busy = {} /\ \A k \in Attempts : recompute[k] = 0
      BY DEF ReviewsInit, Busy
    <2>3. IsFiniteSet(Attempts) /\ MaxRecomputes \in Nat
      BY ReviewsAssumption, FS_Interval DEF Attempts, ReviewsAssumption
    <2>4. Sent = 0 /\ Cardinality(Busy) = 0
      BY <2>2, <2>3, SumZero, FS_EmptySet DEF Sent
    <2> QED
      BY <2>1, <2>3, <2>4 DEF FewRecomputes
  <1>2. Inv /\ [ReviewsNext]_reviewVars => Inv'
    BY ReviewNext, GivenNext, FewNext, ReviewsAssumption
  <1>3. Inv => ReviewsTypeOK
    <2> SUFFICES ASSUME Inv PROVE ReviewsTypeOK
      OBVIOUS
    <2>1. ReviewShapes
      BY DEF ReviewInv
    <2>2. \A k \in Attempts : recompute[k] \in 0..MaxRecomputes
      <3>1. /\ Sent \in Nat /\ Cardinality(Busy) \in Nat
            /\ \A k \in Attempts : recompute[k] \in Nat /\ recompute[k] <= Sent
        BY <2>1, RecomputeFacts, ReviewsAssumption
      <3> QED
        BY <3>1, ReviewsAssumption DEF FewRecomputes, ReviewsAssumption
    <2>3. recompute \in [Attempts -> 0..MaxRecomputes]
      BY <2>1, <2>2 DEF ReviewShapes
    <2>4. aggregate \in GivenRatings \cup {Unrated}
      BY DEF RatingsGiven
    <2> QED
      BY <2>1, <2>3, <2>4 DEF ReviewShapes, GivenRatings, ReviewsTypeOK
  <1> QED
    BY <1>1, <1>2, <1>3, PTL DEF ReviewsSpec
=============================================================================
