------------------------------- MODULE Payments -------------------------------
(***************************************************************************)
(* The payment service: payments and their fallback gateways                *)
(* (payment_service.py), the gateway's webhooks, refunds (refund_service.py)*)
(* and settlements (settlement_service.py).  The gateway is any that meets  *)
(* the interface PaymentProvider (providers/base.py): it opens sessions,    *)
(* charges or declines, sends webhooks more than once and in any order, and *)
(* grants or refuses refunds.                                               *)
(***************************************************************************)
EXTENDS Integers, FiniteSets, FiniteSums

CONSTANTS
  Orders,      \* orders that are paid through the service
  Price,       \* the amount of each
  Checkouts,   \* requests POST /payments/create
  Refunds,     \* requests POST /refunds, ids of their rows
  Share,       \* the amount each asks back
  Deliveries,  \* webhook calls under way
  NoOrder,
  MaxSessions  \* bound: gateway sessions opened for an order

ASSUME PaymentAssumption ==
  /\ IsFiniteSet(Refunds)
  /\ Price \in [Orders -> Nat \ {0}] /\ Share \in [Refunds -> Nat \ {0}]
  /\ NoOrder \notin Orders
  /\ MaxSessions \in Nat

VARIABLES
  payment,     \* the row of payments of each order's idempotency key
  sessions,    \* gateway sessions opened for each order
  charge,      \* what the gateway has done with the customer's money
  hooks,       \* statuses the gateway has sent, or sends again, for each order
  checkout,    \* the requests that create payments
  delivery,    \* the webhook calls: the order, the status read, the status to write
  refund,      \* the refund requests, and the rows of refunds
  paid_back,   \* what the gateway has returned of each payment
  settled,     \* rows of settlements, by the order whose charge they report
  concurrent   \* history: orders whose refunds overlapped, or died half-way

paymentVars == <<payment, sessions, charge, hooks, checkout, delivery, refund,
                 paid_back, settled, concurrent>>

NoPayment == [status |-> "absent", reference |-> "none"]
NewCheckout == [step |-> "new", order |-> NoOrder]
NoDelivery == [order |-> NoOrder, read |-> "absent", update |-> "absent"]
NewRefund == [step |-> "new", order |-> NoOrder, before |-> 0]

PaymentsInit ==
  /\ payment = [o \in Orders |-> NoPayment]
  /\ sessions = [o \in Orders |-> 0]
  /\ charge = [o \in Orders |-> "none"]
  /\ hooks = [o \in Orders |-> {}]
  /\ checkout = [c \in Checkouts |-> NewCheckout]
  /\ delivery = [d \in Deliveries |-> NoDelivery]
  /\ refund = [f \in Refunds |-> NewRefund]
  /\ paid_back = [o \in Orders |-> 0]
  /\ settled = [o \in Orders |-> "absent"]
  /\ concurrent = {}

providerVars == <<charge, hooks>>
refundVars == <<refund, paid_back, concurrent>>

-----------------------------------------------------------------------------
\* create_payment finds no payment under the idempotency key.  (If it finds one
\* it returns it and changes nothing.)
BeginPayment(c, o) ==
  /\ checkout[c].step = "new"
  /\ payment[o] = NoPayment
  /\ checkout' = [checkout EXCEPT ![c] = [step |-> "open", order |-> o]]
  /\ UNCHANGED <<payment, sessions, providerVars, delivery, refundVars, settled>>

\* The gateway, or a fallback once those before it failed, opens a session.  A
\* gateway may have opened one although its answer was lost.
OpenSession(c) ==
  LET o == checkout[c].order
  IN  /\ checkout[c].step = "open"
      /\ sessions[o] < MaxSessions
      /\ sessions' = [sessions EXCEPT ![o] = @ + 1]
      /\ charge' = [charge EXCEPT ![o] = IF @ = "none" THEN "open" ELSE @]
      /\ checkout' \in {[checkout EXCEPT ![c].step = "insert"], checkout}
      /\ UNCHANGED <<payment, hooks, delivery, refundVars, settled>>

\* "All payment providers failed."
AllGatewaysFail(c) ==
  /\ checkout[c].step = "open"
  /\ checkout' = [checkout EXCEPT ![c].step = "done"]
  /\ UNCHANGED <<payment, sessions, providerVars, delivery, refundVars, settled>>

\* The row is committed unless another request took the key; PAYMENT_CREATED is
\* published, or is not and the client sees an error.
InsertPayment(c) ==
  LET o == checkout[c].order
  IN  /\ checkout[c].step = "insert"
      /\ payment' = IF payment[o] = NoPayment
                    THEN [payment EXCEPT ![o] = [status |-> "pending", reference |-> "session"]]
                    ELSE payment
      /\ checkout' = [checkout EXCEPT ![c].step = "done"]
      /\ UNCHANGED <<sessions, providerVars, delivery, refundVars, settled>>

-----------------------------------------------------------------------------
\* The customer pays, or a payment is declined and may be tried again; the
\* gateway reports it, and reports sessions that are still open.
Charge(o) ==
  /\ charge[o] \in {"open", "declined"}
  /\ charge' = [charge EXCEPT ![o] = "charged"]
  /\ hooks' = [hooks EXCEPT ![o] = @ \cup {"success"}]

Decline(o) ==
  /\ charge[o] = "open"
  /\ charge' = [charge EXCEPT ![o] = "declined"]
  /\ hooks' = [hooks EXCEPT ![o] = @ \cup {"failed"}]

ReportPending(o) ==
  /\ charge[o] = "open"
  /\ hooks' = [hooks EXCEPT ![o] = @ \cup {"pending"}]
  /\ UNCHANGED charge

Gateway(o) ==
  /\ Charge(o) \/ Decline(o) \/ ReportPending(o)
  /\ UNCHANGED <<payment, sessions, checkout, delivery, refundVars, settled>>

\* Mutant: any status that is not FAILED is taken for a success.
HookSucceeds(d, o, status) ==
  /\ delivery[d] = NoDelivery
  /\ status \in hooks[o]
  /\ payment[o] # NoPayment
  /\ delivery' = [delivery EXCEPT ![d] =
       [order  |-> o, read |-> payment[o].status,
        update |-> IF status = "failed" THEN "failed" ELSE "success"]]
  /\ UNCHANGED <<payment, sessions, providerVars, checkout, refundVars, settled>>

\* handle_webhook: a verified call, for an order that has a payment.  (For one
\* that has none yet it answers 200 and forgets it.)  The event goes out ...
ReceiveHook(d, o, status) ==
  /\ delivery[d] = NoDelivery
  /\ status \in hooks[o]
  /\ payment[o] # NoPayment
  /\ delivery' = [delivery EXCEPT ![d] = [order |-> o, read |-> payment[o].status,
                                          update |-> status]]
  /\ UNCHANGED <<payment, sessions, providerVars, checkout, refundVars, settled>>

\* ... and the status is committed if it is not the one that was read.
CommitHook(d) ==
  LET o == delivery[d].order
      w == delivery[d]
  IN  /\ o # NoOrder
      /\ payment' = [payment EXCEPT ![o] =
           [status    |-> IF w.update = w.read THEN @.status ELSE w.update,
            reference |-> "transaction"]]
      /\ delivery' = [delivery EXCEPT ![d] = NoDelivery]
      /\ UNCHANGED <<sessions, providerVars, checkout, refundVars, settled>>

\* The event cannot be published, or the commit fails after it was.
FailHook(d) ==
  /\ delivery[d] # NoDelivery
  /\ delivery' = [delivery EXCEPT ![d] = NoDelivery]
  /\ UNCHANGED <<payment, sessions, providerVars, checkout, refundVars, settled>>

-----------------------------------------------------------------------------
RowsOf(o) == {f \in Refunds : refund[f].step = "committed" /\ refund[f].order = o}

Refunded(o) == SumOver(Share, RowsOf(o))

Refunding(f, o) == refund[f].order = o /\ refund[f].step \in {"call", "insert"}

\* Mutant: the refunds before this one are not counted.
BeginWhole(f, o) ==
  /\ refund[f].step = "new"
  /\ payment[o].status \in {"success", "refunded"}
  /\ Share[f] <= Price[o]
  /\ refund' = [refund EXCEPT ![f] = [step |-> "call", order |-> o, before |-> Refunded(o)]]
  /\ concurrent' = IF \E g \in Refunds : Refunding(g, o) THEN concurrent \cup {o}
                   ELSE concurrent
  /\ UNCHANGED <<payment, sessions, providerVars, checkout, delivery, paid_back, settled>>

\* create_refund: the payment was paid, and the refunds of it that are rows
\* leave room for this one.
BeginRefund(f, o) ==
  /\ refund[f].step = "new"
  /\ payment[o].status \in {"success", "refunded"}
  /\ Refunded(o) + Share[f] <= Price[o]
  /\ refund' = [refund EXCEPT ![f] = [step |-> "call", order |-> o, before |-> Refunded(o)]]
  /\ concurrent' = IF \E g \in Refunds : Refunding(g, o) THEN concurrent \cup {o}
                   ELSE concurrent
  /\ UNCHANGED <<payment, sessions, providerVars, checkout, delivery, paid_back, settled>>

\* The gateway returns the money before the row is added ...
ReturnMoney(f) ==
  /\ refund[f].step = "call"
  /\ paid_back' = [paid_back EXCEPT ![refund[f].order] = @ + Share[f]]
  /\ refund' = [refund EXCEPT ![f].step = "insert"]
  /\ UNCHANGED <<payment, sessions, providerVars, checkout, delivery, settled, concurrent>>

RefuseRefund(f) ==
  /\ refund[f].step = "call"
  /\ refund' = [refund EXCEPT ![f] = [NewRefund EXCEPT !.step = "refused"]]
  /\ UNCHANGED <<payment, sessions, providerVars, checkout, delivery, paid_back,
                 settled, concurrent>>

\* ... which is committed, with the status REFUNDED when the sum it read and
\* this one make the whole amount.
CommitRefund(f) ==
  LET o == refund[f].order
  IN  /\ refund[f].step = "insert"
      /\ refund' = [refund EXCEPT ![f].step = "committed"]
      /\ payment' = IF refund[f].before + Share[f] = Price[o]
                    THEN [payment EXCEPT ![o].status = "refunded"] ELSE payment
      /\ UNCHANGED <<sessions, providerVars, checkout, delivery, paid_back, settled, concurrent>>

\* The process dies, or the gateway's answer is lost, after the money went.
LoseRefund(f) ==
  /\ refund[f].step = "insert"
  /\ refund' = [refund EXCEPT ![f] = [NewRefund EXCEPT !.step = "refused"]]
  /\ concurrent' = concurrent \cup {refund[f].order}
  /\ UNCHANGED <<payment, sessions, providerVars, checkout, delivery, paid_back, settled>>

-----------------------------------------------------------------------------
\* import_settlements adds those of the report that are not there yet.
import_settlements(report) ==
  /\ report # {} /\ \A o \in report : charge[o] = "charged" /\ settled[o] = "absent"
  /\ settled' = [o \in Orders |-> IF o \in report THEN "pending" ELSE settled[o]]
  /\ UNCHANGED <<payment, sessions, providerVars, checkout, delivery, refundVars>>

\* reconcile looks for the payment with the settlement's reference, which is the
\* transaction that a webhook has told; both amounts are the order's price.
reconcile(o) ==
  /\ settled[o] # "absent"
  /\ settled' = [settled EXCEPT ![o] = IF payment[o].reference = "transaction"
                                       THEN "reconciled" ELSE "mismatch"]
  /\ UNCHANGED <<payment, sessions, providerVars, checkout, delivery, refundVars>>

CreatePayment(c) ==
  /\ \/ \E o \in Orders : BeginPayment(c, o)
     \/ OpenSession(c) \/ AllGatewaysFail(c) \/ InsertPayment(c)

Webhook(d) ==
  \/ \E o \in Orders, status \in {"success", "failed", "pending"} : ReceiveHook(d, o, status)
  \/ CommitHook(d) \/ FailHook(d)

Refund(f) ==
  \/ \E o \in Orders : BeginRefund(f, o)
  \/ ReturnMoney(f) \/ RefuseRefund(f) \/ CommitRefund(f) \/ LoseRefund(f)

PaymentsNext ==
  \/ \E c \in Checkouts : CreatePayment(c)
  \/ \E o \in Orders : Gateway(o) \/ reconcile(o)
  \/ \E d \in Deliveries : Webhook(d)
  \/ \E f \in Refunds : Refund(f)
  \/ \E report \in SUBSET Orders : import_settlements(report)

PaymentsSpec == PaymentsInit /\ [][PaymentsNext]_paymentVars

-----------------------------------------------------------------------------
PaymentStatuses == {"absent", "pending", "success", "failed", "refunded"}

PaymentsTypeOK ==
  /\ payment \in [Orders -> [status : PaymentStatuses,
                             reference : {"none", "session", "transaction"}]]
  /\ sessions \in [Orders -> Nat]
  /\ charge \in [Orders -> {"none", "open", "declined", "charged"}]
  /\ hooks \in [Orders -> SUBSET {"success", "failed", "pending"}]
  /\ checkout \in [Checkouts -> [step : {"new", "open", "insert", "done"},
                                 order : Orders \cup {NoOrder}]]
  /\ delivery \in [Deliveries -> [order : Orders \cup {NoOrder}, read : PaymentStatuses,
                                  update : PaymentStatuses]]
  /\ refund \in [Refunds -> [step : {"new", "call", "insert", "committed", "refused"},
                             order : Orders \cup {NoOrder}, before : Nat]]
  /\ paid_back \in [Orders -> Nat]
  /\ settled \in [Orders -> {"absent", "pending", "reconciled", "mismatch"}]
  /\ concurrent \subseteq Orders

\* A payment counts as paid, and is refunded, only for an order the gateway has
\* charged, whatever webhooks come twice, late, or before the payment's row
\* ("Only a verified webhook from the provider triggers that transition").
PaidIsCharged ==
  \A o \in Orders :
    payment[o].status \in {"success", "refunded"} \/ paid_back[o] > 0 => charge[o] = "charged"

\* Each refund on record was paid back; and while the refunds of a payment came
\* one after the other and none died half-way, what was paid back is on record
\* and never more than the payment.
RefundsCovered ==
  \A o \in Orders :
    /\ Refunded(o) <= paid_back[o]
    /\ o \notin concurrent =>
         /\ paid_back[o] <= Price[o]
         /\ payment[o].status = "refunded" => Refunded(o) = Price[o]
=============================================================================
