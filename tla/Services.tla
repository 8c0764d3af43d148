------------------------------ MODULE Services ------------------------------
(***************************************************************************)
(* Nine parts of services, side by side: payments and refunds, shipments,   *)
(* meal subscriptions, the rate limiter, raw materials, returns, addresses, *)
(* the rating of a product, and invoices as documents.  Each keeps its own  *)
(* tables and they share no row.                                           *)
(***************************************************************************)
EXTENDS Payments, Shipments, Subscriptions, Gateway, Manufacturing, Returns,
  Addresses, ProductReviews, InvoicePdfs

ServicesSpec ==
  /\ PaymentsSpec /\ ShipmentsSpec /\ SubscriptionsSpec
  /\ GatewaySpec /\ ManufacturingSpec /\ ReturnsSpec
  /\ AddressesSpec /\ ReviewsSpec /\ InvoicePdfsSpec

\* Rows, and what requests, tasks and outside parties hold, keep their types.
ServicesTypeOK ==
  /\ PaymentsTypeOK /\ ShipmentsTypeOK /\ SubscriptionsTypeOK
  /\ GatewayTypeOK /\ ManufacturingTypeOK /\ ReturnsTypeOK
  /\ AddressesTypeOK /\ ReviewsTypeOK /\ InvoicePdfsTypeOK
=============================================================================
