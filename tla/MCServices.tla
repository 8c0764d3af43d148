------------------------------ MODULE MCServices ------------------------------
(* Instances for TLC of nine parts of services that share no state.          *)
EXTENDS Services, TLC
CONSTANTS f1, p1, r1, c1, c2, k1, k2, b1, b2, m1, v1, v2, w2, w3

\* Payments: a refund of the whole price, and two of half of it.
Prices == [o \in Orders |-> 2]
Shares == [f \in Refunds |-> IF f = f1 THEN 2 ELSE 1]

\* Shipments: a parcel with three scans, and its reverse pickup.
Ranks == {<<c1, c2>>}
Original == r1 :> p1
Scans == p1 :> 3 @@ r1 :> 0

\* Manufacturing: the bill of b1 has two lines of one material.
Bills ==
  LET line == [material |-> m1, quantity |-> 1]
  IN  b1 :> <<line, line>> @@ b2 :> <<line>>

\* Reviews: two ratings whose average has a fraction.
Stars == v1 :> 5 @@ v2 :> 4

\* Two of the requests or workers of each service are interchangeable.
Symmetries == Permutations({k1, k2}) \cup Permutations({w2, w3})

\* The service of a behaviour, chosen at the start; the others are at rest.
VARIABLE service

mcVars ==
  <<paymentVars, shipmentVars, subVars, gatewayVars, mfgVars, returnsVars,
    addressVars, reviewVars, pdfVars, service>>

MCInit ==
  /\ PaymentsInit /\ ShipmentsInit /\ SubscriptionsInit
  /\ GatewayInit /\ ManufacturingInit /\ ReturnsInit
  /\ AddressesInit /\ ReviewsInit /\ InvoicePdfsInit
  /\ service \in {"payments", "shipments", "subscriptions", "gateway", "manufacturing",
                  "returns", "addresses", "reviews", "invoices"}

PaymentsApart ==
  /\ service = "payments" /\ PaymentsNext
  /\ UNCHANGED <<shipmentVars, subVars, gatewayVars, mfgVars, returnsVars,
                 addressVars, reviewVars, pdfVars, service>>

\* The parcel has a third scan, or a second, only where no reverse pickup is asked for.
NoReversal == ~Present(r1) /\ booked[r1] = {} /\ booking[r1].at = "idle"

ShipmentsApart ==
  /\ service = "shipments" /\ ShipmentsNext
  /\ Len(scans'[p1]) <= 1 \/ NoReversal'
  /\ UNCHANGED <<paymentVars, subVars, gatewayVars, mfgVars, returnsVars,
                 addressVars, reviewVars, pdfVars, service>>

SubscriptionsApart ==
  /\ service = "subscriptions" /\ SubscriptionsNext
  /\ UNCHANGED <<paymentVars, shipmentVars, gatewayVars, mfgVars, returnsVars,
                 addressVars, reviewVars, pdfVars, service>>

GatewayApart ==
  /\ service = "gateway" /\ GatewayNext
  /\ UNCHANGED <<paymentVars, shipmentVars, subVars, mfgVars, returnsVars,
                 addressVars, reviewVars, pdfVars, service>>

ManufacturingApart ==
  /\ service = "manufacturing" /\ ManufacturingNext
  /\ UNCHANGED <<paymentVars, shipmentVars, subVars, gatewayVars, returnsVars,
                 addressVars, reviewVars, pdfVars, service>>

ReturnsApart ==
  /\ service = "returns" /\ ReturnsNext
  /\ UNCHANGED <<paymentVars, shipmentVars, subVars, gatewayVars, mfgVars,
                 addressVars, reviewVars, pdfVars, service>>

AddressesApart ==
  /\ service = "addresses" /\ AddressesNext
  /\ UNCHANGED <<paymentVars, shipmentVars, subVars, gatewayVars, mfgVars,
                 returnsVars, reviewVars, pdfVars, service>>

ReviewsApart ==
  /\ service = "reviews" /\ ReviewsNext
  /\ UNCHANGED <<paymentVars, shipmentVars, subVars, gatewayVars, mfgVars,
                 returnsVars, addressVars, pdfVars, service>>

InvoicePdfsApart ==
  /\ service = "invoices" /\ InvoicePdfsNext
  /\ UNCHANGED <<paymentVars, shipmentVars, subVars, gatewayVars, mfgVars,
                 returnsVars, addressVars, reviewVars, service>>

MCNext ==
  \/ PaymentsApart \/ ShipmentsApart \/ SubscriptionsApart
  \/ GatewayApart \/ ManufacturingApart \/ ReturnsApart
  \/ AddressesApart \/ ReviewsApart \/ InvoicePdfsApart

MCSpec == MCInit /\ [][MCNext]_mcVars
=============================================================================
