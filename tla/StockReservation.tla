--------------------------- MODULE StockReservation ---------------------------
(***************************************************************************)
(* reservation_service.py and the two Celery tasks that release expired     *)
(* reservations.  confirm_reservation and release_reservation read the      *)
(* reservation's status with a plain SELECT, before they lock the stock row *)
(* and without locking the reservation; the status they act on may be stale *)
(* when they commit.  The sweep reads a whole list of reservations first    *)
(* and finds the listed objects, not the table's rows, when it comes to     *)
(* release each of them (expire_on_commit=False).                           *)
(***************************************************************************)
EXTENDS StockRows

CONSTANTS
  Reservations,   \* ids of stock_reservations
  MaxQuantity     \* largest quantity a reservation asks for

ASSUME ReservationsAssumption ==
  /\ IsFiniteSet(Reservations)
  /\ MaxQuantity \in Nat

VARIABLES
  reservation,  \* committed rows of stock_reservations
  timer,        \* release_reservation_task messages the broker holds
  todo          \* reservations the session's handler has read and has yet to settle

reservationVars == <<reservation, timer, todo>>

Quantities == 1..MaxQuantity

Releasing == {"release", "release_task", "sweep"}
Settling == {"confirm"} \cup Releasing

Reservation == [status : {"absent", "active", "confirmed", "released"},
                row : Rows \cup {NoRow}, quantity : 0..MaxQuantity, expired : BOOLEAN]

Absent == [status |-> "absent", row |-> NoRow, quantity |-> 0, expired |-> FALSE]

ReservationInit ==
  /\ reservation = [r \in Reservations |-> Absent]
  /\ timer = {}
  /\ todo = [s \in Sessions |-> {}]

Active(r) == reservation[r].status = "active"

\* The session keeps its handler and rows, and reads nothing more.
Begin(s, h, rids) ==
  /\ Idle(s)
  /\ Run(s, h)
  /\ todo' = [todo EXCEPT ![s] = rids]
  /\ UNCHANGED <<stock, moved, held, copy, reservation>>

Finish(s) == Run(s, "idle") /\ todo' = [todo EXCEPT ![s] = {}]

SetStatus(r, st) == reservation' = [reservation EXCEPT ![r].status = st]

NoDelta == [row \in Rows |-> 0]

-----------------------------------------------------------------------------
\* An id nothing has used: a reservation's id is a fresh uuid.
Fresh(r) == reservation[r] = Absent /\ \A t \in Sessions : r \notin todo[t]

\* POST /reservations
BeginCreate(s, row, r) ==
  /\ Idle(s)
  /\ Fresh(r)
  /\ SelectForUpdate(s, row)
  /\ Run(s, "create")
  /\ todo' = [todo EXCEPT ![s] = {r}]
  /\ UNCHANGED <<reservation, timer>>

CreateReservation(s, r, q) ==
  /\ handler[s] = "create"
  /\ r \in todo[s]
  /\ \E row \in held[s] :
       /\ q <= quantity_available(copy[s][row])
       /\ Commit(s, [copy[s] EXCEPT ![row].quantity_reserved = @ + q], NoDelta)
       /\ reservation' = [reservation EXCEPT ![r] =
            [status |-> "active", row |-> row, quantity |-> q, expired |-> FALSE]]
  /\ Run(s, "schedule")
  /\ UNCHANGED <<timer, todo>>

RejectCreate(s) ==
  /\ handler[s] = "create"
  /\ \E row \in held[s], q \in Quantities : q > quantity_available(copy[s][row])
  /\ Rollback(s)
  /\ Finish(s)
  /\ UNCHANGED <<reservation, timer>>

\* apply_async comes after the commit: a crash in between loses the timer.
ScheduleRelease(s) ==
  /\ handler[s] = "schedule"
  /\ timer' = timer \cup todo[s]
  /\ Finish(s)
  /\ UNCHANGED <<stock, moved, held, copy, reservation>>

-----------------------------------------------------------------------------
\* POST /reservations/{id}/confirm
BeginConfirm(s, r) ==
  /\ Active(r)
  /\ Begin(s, "confirm", {r})
  /\ UNCHANGED timer

\* The FOR UPDATE select of confirm_reservation and release_reservation.
LockStock(s, r) ==
  /\ handler[s] \in Settling
  /\ r \in todo[s]
  /\ held[s] = {}
  /\ SelectForUpdate(s, reservation[r].row)
  /\ UNCHANGED <<handler, reservation, timer, todo>>

\* Mutant: consumes the units and leaves them reserved.
ConfirmKeepingHold(s, r) ==
  /\ handler[s] = "confirm"
  /\ r \in todo[s]
  /\ LET row == reservation[r].row
         q == reservation[r].quantity
     IN /\ row \in held[s]
        /\ Commit(s, [copy[s] EXCEPT ![row].quantity_on_hand = @ - q],
                     [NoDelta EXCEPT ![row] = -q])
  /\ SetStatus(r, "confirmed")
  /\ Finish(s)
  /\ UNCHANGED timer

ConfirmReservation(s, r) ==
  /\ handler[s] = "confirm"
  /\ r \in todo[s]
  /\ LET row == reservation[r].row
         q == reservation[r].quantity
     IN /\ row \in held[s]
        /\ Commit(s, [copy[s] EXCEPT ![row] =
                        [quantity_on_hand |-> @.quantity_on_hand - q,
                         quantity_reserved |-> @.quantity_reserved - q]],
                     [NoDelta EXCEPT ![row] = -q])
  /\ SetStatus(r, "confirmed")
  /\ Finish(s)
  /\ UNCHANGED timer

-----------------------------------------------------------------------------
\* Mutant: a settled reservation is released again.
ReleaseAnyway(s, r) ==
  /\ reservation[r].status # "absent"
  /\ Begin(s, "release", {r})
  /\ UNCHANGED timer

\* POST /reservations/{id}/release; a reservation that is not active is a no-op.
BeginRelease(s, r) ==
  /\ Active(r)
  /\ Begin(s, "release", {r})
  /\ UNCHANGED timer

\* release_reservation_task: the message stays with the broker until the task
\* is over (acks_late), so that it may be delivered more than once.
BeginReleaseTask(s, r) ==
  /\ r \in timer
  /\ reservation[r].expired
  /\ Active(r)
  /\ Begin(s, "release_task", {r})
  /\ UNCHANGED timer

SkipReleaseTask(s, r) ==
  /\ Idle(s)
  /\ r \in timer
  /\ reservation[r].expired
  /\ ~Active(r)
  /\ timer' = timer \ {r}
  /\ UNCHANGED <<rowVars, reservation, todo>>

\* Mutant: the comparison with now the wrong way round.
NotYetExpired == {r \in Reservations : Active(r) /\ ~reservation[r].expired}

Expired == {r \in Reservations : Active(r) /\ reservation[r].expired}

\* release_expired_reservations: one SELECT lists what the loop will release.
BeginSweep(s) ==
  /\ Expired # {}
  /\ Begin(s, "sweep", Expired)
  /\ UNCHANGED timer

Floor0(n) == IF n < 0 THEN 0 ELSE n

ReleaseReservation(s, r) ==
  /\ handler[s] \in Releasing
  /\ r \in todo[s]
  /\ LET row == reservation[r].row
     IN /\ row \in held[s]
        /\ Commit(s, [copy[s] EXCEPT ![row].quantity_reserved =
                        Floor0(@ - reservation[r].quantity)], NoDelta)
  /\ SetStatus(r, "released")
  /\ timer' = IF handler[s] = "release_task" THEN timer \ {r} ELSE timer
  /\ todo' = [todo EXCEPT ![s] = @ \ {r}]
  /\ IF todo[s] = {r} THEN Run(s, "idle") ELSE UNCHANGED handler

-----------------------------------------------------------------------------
\* expires_at passes.
Expire(r) ==
  /\ reservation[r].status # "absent"
  /\ ~reservation[r].expired
  /\ reservation' = [reservation EXCEPT ![r].expired = TRUE]
  /\ UNCHANGED <<rowVars, timer, todo>>

\* The broker drops a message: eviction, a lost worker, or retries exhausted.
LoseTimer(r) ==
  /\ r \in timer
  /\ timer' = timer \ {r}
  /\ UNCHANGED <<rowVars, reservation, todo>>

\* A handler of this module stops with its transaction rolled back.
FailReservation(s) ==
  /\ handler[s] \in {"create", "schedule"} \cup Settling
  /\ Rollback(s)
  /\ Finish(s)
  /\ UNCHANGED <<reservation, timer>>

ReservationApi(s) ==
  \/ \E row \in Rows, r \in Reservations : BeginCreate(s, row, r)
  \/ \E r \in Reservations, q \in Quantities : CreateReservation(s, r, q)
  \/ RejectCreate(s)
  \/ ScheduleRelease(s)
  \/ \E r \in Reservations : BeginConfirm(s, r) \/ BeginRelease(s, r)
  \/ \E r \in Reservations : ConfirmReservation(s, r)

ReservationWorker(s) ==
  \/ \E r \in Reservations : BeginReleaseTask(s, r) \/ SkipReleaseTask(s, r)
  \/ BeginSweep(s)

ReservationEither(s) ==
  \/ \E r \in Reservations : LockStock(s, r) \/ ReleaseReservation(s, r)
  \/ FailReservation(s)

ReservationNext ==
  \/ \E s \in ApiSessions : ReservationApi(s)
  \/ \E s \in WorkerSessions : ReservationWorker(s)
  \/ \E s \in Sessions : ReservationEither(s)
  \/ \E r \in Reservations : Expire(r) \/ LoseTimer(r)

ReservationTypeOK ==
  /\ reservation \in [Reservations -> Reservation]
  /\ timer \in SUBSET Reservations
  /\ todo \in [Sessions -> SUBSET Reservations]

\* The id of a reservation being created is nobody else's.
CreatesFresh ==
  \A s \in Sessions : handler[s] = "create" =>
    \A r \in todo[s] :
      /\ reservation[r] = Absent
      /\ \A t \in Sessions \ {s} : r \notin todo[t]

\* What a handler is to settle exists, and has a row.
SettlesExisting ==
  \A s \in Sessions : handler[s] \in Settling =>
    \A r \in todo[s] : reservation[r].status # "absent" /\ reservation[r].row \in Rows

\* Only reservations that exist have a row.
RowsOfReservations ==
  \A r \in Reservations :
    (reservation[r].row \in Rows) <=> (reservation[r].status # "absent")

\* A handler about to settle a reservation finds it active when it does.
SettlesActive ==
  \A s \in Sessions : handler[s] \in Settling =>
    \A r \in todo[s] : Active(r)

-----------------------------------------------------------------------------
\* The units of a row that the committed active reservations hold.
HeldUnits(row) ==
  {u \in Reservations \X Quantities :
     /\ Active(u[1])
     /\ reservation[u[1]].row = row
     /\ u[2] <= reservation[u[1]].quantity}

Reserved(row) == Cardinality(HeldUnits(row))
=============================================================================
