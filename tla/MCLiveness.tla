------------------------------ MODULE MCLiveness ------------------------------
(* What four services, that share no state, must do in the end: instances    *)
(* for TLC.                                                                  *)
EXTENDS NotificationOutbox, PurchaseInvoices, Shipments, Subscriptions, TLC
CONSTANTS v1, p1, c1, c2

Amounts == [j \in Jobs |-> -4]
Ranks == {<<c1, c2>>}
NoReverse == <<>>
Scans == p1 :> 2

\* The service of a behaviour, chosen at the start; the others are at rest,
\* where nothing that their fairness is about can be done.
VARIABLE service

livenessVars == <<vars, allVars, shipmentVars, subVars, service>>

LivenessInit ==
  /\ Init /\ InvoicesInit /\ ShipmentsInit /\ SubscriptionsInit
  /\ service \in {"notification", "procurement", "logistics", "checkout"}

OutboxMoves ==
  /\ service = "notification" /\ Unattended
  /\ UNCHANGED <<allVars, shipmentVars, subVars, service>>

InvoicesMove ==
  /\ service = "procurement" /\ InvoiceNext
  /\ UNCHANGED <<vars, shipmentVars, subVars, service>>

ParcelsMove ==
  /\ service = "logistics" /\ ShipmentsNext
  /\ UNCHANGED <<vars, allVars, subVars, service>>

SubscriptionsMove ==
  /\ service = "checkout" /\ SubscriptionsNext
  /\ UNCHANGED <<vars, allVars, shipmentVars, service>>

LivenessNext == OutboxMoves \/ InvoicesMove \/ ParcelsMove \/ SubscriptionsMove

LivenessSpec == LivenessInit /\ [][LivenessNext]_livenessVars

\* What must happen in the end, given the fairness of the service it is about.
\* The fairness is part of the property, as TLC multiplies its cases otherwise.

\* A message that was committed ends up sent or dead-lettered.
FairMessageSettles == Fairness => MessageSettles

\* An entry of a vendor's ledger reaches Finance, and an invoice its match.
FairEntryIsMirrored == RetryFairness => EntryIsMirrored
FairInvoiceIsMatched == MatchFairness => InvoiceIsMatched

\* A parcel the carrier has delivered is seen to be delivered.
FairDeliveredIsSeen == ShipmentsFairness => DeliveredIsSeen

\* A subscription that is due is renewed, stopped or past due.
FairDueIsSettled == SubscriptionsFairness => DueIsSettled
=============================================================================
