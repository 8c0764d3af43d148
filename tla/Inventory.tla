------------------------------ MODULE Inventory ------------------------------
(***************************************************************************)
(* The inventory service's stock as the Orders service and the warehouse    *)
(* staff see it: reservations (StockReservation), adjustments and transfers *)
(* (WarehouseStock) over the same rows.                                     *)
(***************************************************************************)
EXTENDS StockReservation, WarehouseStock

vars == <<rowVars, reservationVars, route>>

Init == RowsInit /\ ReservationInit /\ WarehouseInit

Next ==
  \/ ReservationNext /\ UNCHANGED route
  \/ WarehouseNext /\ UNCHANGED reservationVars

Spec == Init /\ [][Next]_vars

\* A handler runs to its end once it has its rows: commits, rejections.
EndHandler(s) ==
  \/ \E r \in Reservations, q \in Quantities :
       CreateReservation(s, r, q) /\ UNCHANGED route
  \/ \E r \in Reservations : ConfirmReservation(s, r) /\ UNCHANGED route
  \/ (RejectCreate(s) \/ ScheduleRelease(s)) /\ UNCHANGED route
  \/ \E d \in -MaxDelta..MaxDelta : AdjustStock(s, d) /\ UNCHANGED reservationVars
  \/ \E q \in TransferQuantities : TransferStock(s, q) /\ UNCHANGED reservationVars
  \/ (RejectAdjust(s) \/ RejectTransfer(s)) /\ UNCHANGED reservationVars

\* The beat schedule keeps sending sweeps, PostgreSQL grants a row lock in the
\* order of requests and finds deadlocks, and failures of the reservation
\* handlers do not go on for ever.  That one fails is never assumed.
Fairness ==
  /\ \A s \in Sessions :
       /\ WF_vars(EndHandler(s))
       /\ SF_vars(LockDestination(s) /\ UNCHANGED reservationVars)
       /\ WF_vars(AbortDeadlockVictim(s) /\ UNCHANGED reservationVars)
       /\ SF_vars(\E r \in Reservations : LockStock(s, r) /\ UNCHANGED route)
       /\ WF_vars(\E r \in Reservations : ReleaseReservation(s, r) /\ UNCHANGED route)
  /\ \A s \in WorkerSessions : SF_vars(BeginSweep(s) /\ UNCHANGED route)
  /\ <>[][\A s \in Sessions : ~FailReservation(s)]_vars

FairSpec == Spec /\ Fairness

\* What a session is about to settle.
Claimed(s) == IF handler[s] \in Settling THEN todo[s] ELSE {}

\* No two sessions settle one reservation at the same time.  The code does not
\* enforce it: it is what the callers (the Orders service, the two Celery
\* tasks) would have to guarantee.
OneSettler == \A s, t \in Sessions : s # t => Claimed(s) \cap Claimed(t) = {}

SpecOneSettler == Init /\ [][Next /\ OneSettler']_vars

-----------------------------------------------------------------------------
TypeOK == RowsTypeOK /\ ReservationTypeOK /\ WarehouseTypeOK

\* A row never promises stock it does not have (the StockLevel docstring:
\* "split into available vs reserved so reservations never oversell stock").
NeverOversold ==
  \A row \in Rows :
    /\ stock[row].quantity_reserved >= 0
    /\ stock[row].quantity_reserved <= stock[row].quantity_on_hand

\* quantity_reserved is exactly what the active reservations of the row hold.
HoldsBacked == \A row \in Rows : stock[row].quantity_reserved = Reserved(row)

\* Whatever the interleaving, no row keeps units reserved for nobody: a race
\* can free units twice, it can never strand them.
NoPhantomHold == \A row \in Rows : stock[row].quantity_reserved <= Reserved(row)

\* A reservation that was confirmed (paid) is never released afterwards, nor a
\* released one confirmed.
SettledIsFinal ==
  [][\A r \in Reservations :
       reservation[r].status \in {"confirmed", "released"} =>
         reservation'[r].status = reservation[r].status]_vars

\* A reservation that was paid for stays confirmed: release_reservation_task
\* frees stock only "if payment hasn't confirmed the reservation by then".
PaidStaysPaid ==
  [][\A r \in Reservations :
       reservation[r].status = "confirmed" => reservation'[r].status = "confirmed"]_vars

\* The sweep is a safety net: an expired reservation does not keep its stock,
\* even when its own release task is lost or was never scheduled.
ExpiredIsSettled ==
  \A r \in Reservations :
    (Active(r) /\ reservation[r].expired) ~> ~Active(r)

\* A transfer ends, also when two of them wait for each other's row.
TransferEnds ==
  \A s \in ApiSessions : (handler[s] = "transfer") ~> (handler[s] = "idle")

\* What the sessions know of the tables between their steps: the inductive
\* part that Balanced and NoPhantomHold rest on.
SessionInv ==
  /\ Exclusion
  /\ FreshCopies
  /\ TransferHoldsSource
  /\ RowsOfReservations
  /\ SettlesExisting
  /\ CreatesFresh

\* With one settler a reservation, what a handler read before it had the row
\* lock still holds when it commits: the reservation is active.
SettlersAlone == OneSettler /\ SettlesActive

\* The promise of HoldLedger, read off the tables.
Free == [row \in Rows |-> quantity_available(stock[row])]

HoldState == [absent |-> "none", active |-> "held",
              confirmed |-> "consumed", released |-> "returned"]

Hold == [r \in Reservations |->
           [state |-> HoldState[reservation[r].status],
            row |-> reservation[r].row, quantity |-> reservation[r].quantity]]

Ledger == INSTANCE HoldLedger WITH free <- Free, hold <- Hold, InitFree <- InitOnHand

\* Every step of the tables is a step of the promise or no step of it.
KeepsLedger == Ledger!LedgerSpec
=============================================================================
