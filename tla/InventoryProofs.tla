--------------------------- MODULE InventoryProofs ---------------------------
(***************************************************************************)
(* Proofs about Inventory, for any rows, sessions, reservations and         *)
(* quantities.                                                              *)
(***************************************************************************)
EXTENDS Plant, SumTheorems, FiniteSetTheorems, TLAPS

USE DEF Sessions

-----------------------------------------------------------------------------
(* Every action does one of four things to the rows of a session.            *)

\* A commit whose log accounts for the change of each row it writes.
LoggedCommit(s) ==
  \E levels \in [Rows -> Level], delta \in [Rows -> Int] :
    /\ Commit(s, levels, delta)
    /\ \A row \in held[s] :
         levels[row].quantity_on_hand = copy[s][row].quantity_on_hand + delta[row]

RowStep ==
  \/ \E s \in Sessions :
       \/ \E row \in Rows : SelectForUpdate(s, row)
       \/ LoggedCommit(s)
       \/ Rollback(s)
  \/ UNCHANGED <<stock, moved, held, copy>>

LEMMA SetReserved ==
  ASSUME NEW c \in [Rows -> Level], NEW row \in Rows, NEW n \in Int
  PROVE  /\ [c EXCEPT ![row].quantity_reserved = n] \in [Rows -> Level]
         /\ \A x \in Rows : [c EXCEPT ![row].quantity_reserved = n][x] =
              IF x = row THEN [quantity_on_hand |-> c[x].quantity_on_hand,
                               quantity_reserved |-> n] ELSE c[x]
BY DEF Level

LEMMA SetOnHand ==
  ASSUME NEW c \in [Rows -> Level], NEW row \in Rows, NEW n \in Int
  PROVE  /\ [c EXCEPT ![row].quantity_on_hand = n] \in [Rows -> Level]
         /\ \A x \in Rows : [c EXCEPT ![row].quantity_on_hand = n][x] =
              IF x = row THEN [quantity_on_hand |-> n,
                               quantity_reserved |-> c[x].quantity_reserved] ELSE c[x]
BY DEF Level

LEMMA CreateLogged ==
  ASSUME TypeOK, NEW s \in Sessions, NEW r \in Reservations, NEW q \in Quantities,
         CreateReservation(s, r, q)
  PROVE  LoggedCommit(s)
<1>1. PICK row \in held[s] :
        Commit(s, [copy[s] EXCEPT ![row].quantity_reserved = @ + q], NoDelta)
  BY DEF CreateReservation
<1>2. [copy[s] EXCEPT ![row].quantity_reserved = @ + q] \in [Rows -> Level]
  BY DEF TypeOK, RowsTypeOK, Level, Quantities
<1>3. NoDelta \in [Rows -> Int]
  BY DEF NoDelta
<1>4. \A x \in held[s] : [copy[s] EXCEPT ![row].quantity_reserved = @ + q][x].quantity_on_hand
                           = copy[s][x].quantity_on_hand + NoDelta[x]
  BY DEF TypeOK, RowsTypeOK, Level, NoDelta
<1>. QED  BY <1>1, <1>2, <1>3, <1>4 DEF LoggedCommit

LEMMA ConfirmLogged ==
  ASSUME TypeOK, NEW s \in Sessions, NEW r \in Reservations, ConfirmReservation(s, r)
  PROVE  LoggedCommit(s)
<1>. DEFINE row == reservation[r].row
            q == reservation[r].quantity
            levels == [copy[s] EXCEPT ![row] =
                         [quantity_on_hand |-> @.quantity_on_hand - q,
                          quantity_reserved |-> @.quantity_reserved - q]]
            delta == [NoDelta EXCEPT ![row] = -q]
<1>1. row \in held[s] /\ Commit(s, levels, delta)
  BY DEF ConfirmReservation
<1>2. row \in Rows /\ q \in Int
  BY <1>1, ReservationsAssumption DEF TypeOK, RowsTypeOK, ReservationTypeOK, Reservation
<1>3. levels \in [Rows -> Level] /\ delta \in [Rows -> Int]
  BY <1>2 DEF TypeOK, RowsTypeOK, Level, NoDelta
<1>4. \A x \in held[s] :
        levels[x].quantity_on_hand = copy[s][x].quantity_on_hand + delta[x]
  BY <1>2 DEF TypeOK, RowsTypeOK, Level, NoDelta
<1>. QED  BY <1>1, <1>3, <1>4 DEF LoggedCommit

LEMMA ReleaseLogged ==
  ASSUME TypeOK, NEW s \in Sessions, NEW r \in Reservations, ReleaseReservation(s, r)
  PROVE  LoggedCommit(s)
<1>. DEFINE row == reservation[r].row
            levels == [copy[s] EXCEPT ![row].quantity_reserved =
                         Floor0(@ - reservation[r].quantity)]
<1>1. row \in held[s] /\ Commit(s, levels, NoDelta)
  BY DEF ReleaseReservation
<1>2. row \in Rows /\ reservation[r].quantity \in Int
  BY <1>1, ReservationsAssumption DEF TypeOK, RowsTypeOK, ReservationTypeOK, Reservation
<1>3. levels \in [Rows -> Level] /\ NoDelta \in [Rows -> Int]
  <2>1. Floor0(copy[s][row].quantity_reserved - reservation[r].quantity) \in Int
    BY <1>2 DEF TypeOK, RowsTypeOK, Level, Floor0
  <2>2. copy[s] \in [Rows -> Level]
    BY DEF TypeOK, RowsTypeOK
  <2>. QED  BY <1>2, <2>1, <2>2, SetReserved DEF NoDelta
<1>4. \A x \in held[s] :
        levels[x].quantity_on_hand = copy[s][x].quantity_on_hand + NoDelta[x]
  BY <1>2 DEF TypeOK, RowsTypeOK, Level, NoDelta
<1>. QED  BY <1>1, <1>3, <1>4 DEF LoggedCommit

LEMMA AdjustLogged ==
  ASSUME TypeOK, NEW s \in Sessions, NEW d \in -MaxDelta..MaxDelta, AdjustStock(s, d)
  PROVE  LoggedCommit(s)
<1>1. PICK row \in held[s] :
        Commit(s, [copy[s] EXCEPT ![row].quantity_on_hand =
                     copy[s][row].quantity_on_hand + d], LogOne(row, d))
  BY DEF AdjustStock
<1>. DEFINE levels == [copy[s] EXCEPT ![row].quantity_on_hand =
                         copy[s][row].quantity_on_hand + d]
<1>2. row \in Rows /\ d \in Int
  BY WarehouseAssumption DEF TypeOK, RowsTypeOK
<1>3. levels \in [Rows -> Level] /\ LogOne(row, d) \in [Rows -> Int]
  BY <1>2 DEF TypeOK, RowsTypeOK, Level, LogOne
<1>4. \A x \in held[s] :
        levels[x].quantity_on_hand = copy[s][x].quantity_on_hand + LogOne(row, d)[x]
  BY <1>2 DEF TypeOK, RowsTypeOK, Level, LogOne
<1>. QED  BY <1>1, <1>3, <1>4 DEF LoggedCommit

LEMMA TransferLogged ==
  ASSUME TypeOK, NEW s \in Sessions, NEW q \in TransferQuantities, TransferStock(s, q),
         route[s].from \in held[s], route[s].from # route[s].to
  PROVE  LoggedCommit(s)
<1>. DEFINE from == route[s].from
            to == route[s].to
            levels == [copy[s] EXCEPT ![from].quantity_on_hand = @ - q,
                                      ![to].quantity_on_hand = @ + q]
            delta == [row \in Rows |-> LogOne(from, -q)[row] + LogOne(to, q)[row]]
<1>1. to \in held[s] /\ Commit(s, levels, delta)
  BY DEF TransferStock
<1>2. from \in Rows /\ to \in Rows /\ q \in Int
  BY <1>1 DEF TypeOK, RowsTypeOK, TransferQuantities
<1>. DEFINE sent == [copy[s] EXCEPT ![from].quantity_on_hand = @ - q]
<1>3. levels \in [Rows -> Level] /\ delta \in [Rows -> Int]
  <2>1. copy[s] \in [Rows -> Level] /\ copy[s][from].quantity_on_hand - q \in Int
    BY <1>2 DEF TypeOK, RowsTypeOK, Level
  <2>2. sent \in [Rows -> Level]
    BY <1>2, <2>1, SetOnHand
  <2>3. sent[to].quantity_on_hand + q \in Int
    BY <1>2, <2>2 DEF Level
  <2>4. [sent EXCEPT ![to].quantity_on_hand = sent[to].quantity_on_hand + q] \in [Rows -> Level]
    BY <1>2, <2>2, <2>3, SetOnHand
  <2>5. levels = [sent EXCEPT ![to].quantity_on_hand = @ + q]
    OBVIOUS
  <2>6. delta \in [Rows -> Int]
    BY <1>2 DEF LogOne
  <2>. QED  BY <2>4, <2>5, <2>6
<1>4. \A x \in held[s] :
        levels[x].quantity_on_hand = copy[s][x].quantity_on_hand + delta[x]
  BY <1>2 DEF TypeOK, RowsTypeOK, Level, LogOne
<1>. QED  BY <1>1, <1>3, <1>4 DEF LoggedCommit

LEMMA NextRowStep ==
  ASSUME TypeOK, TransferHoldsSource, SettlesExisting, [Next]_vars
  PROVE  RowStep
<1>1. CASE \E s \in ApiSessions : ReservationApi(s)
  <2>. PICK s \in ApiSessions : ReservationApi(s)
    BY <1>1
  <2>1. ASSUME NEW row \in Rows, NEW r \in Reservations, BeginCreate(s, row, r)
        PROVE  RowStep
    BY <2>1 DEF BeginCreate, RowStep
  <2>2. ASSUME NEW r \in Reservations, NEW q \in Quantities, CreateReservation(s, r, q)
        PROVE  RowStep
    BY <2>2, CreateLogged DEF RowStep
  <2>3. CASE RejectCreate(s)
    BY <2>3 DEF RejectCreate, RowStep
  <2>4. CASE ScheduleRelease(s)
    BY <2>4 DEF ScheduleRelease, RowStep
  <2>5. ASSUME NEW r \in Reservations, BeginConfirm(s, r) \/ BeginRelease(s, r)
        PROVE  RowStep
    BY <2>5 DEF BeginConfirm, BeginRelease, Begin, RowStep
  <2>6. ASSUME NEW r \in Reservations, ConfirmReservation(s, r)
        PROVE  RowStep
    BY <2>6, ConfirmLogged DEF RowStep
  <2>. QED  BY <2>1, <2>2, <2>3, <2>4, <2>5, <2>6 DEF ReservationApi
<1>2. CASE \E s \in WorkerSessions : ReservationWorker(s)
  BY <1>2 DEF ReservationWorker, BeginReleaseTask, SkipReleaseTask, BeginSweep, Begin,
              rowVars, RowStep
<1>3. CASE \E s \in Sessions : ReservationEither(s)
  <2>. PICK s \in Sessions : ReservationEither(s)
    BY <1>3
  <2>1. ASSUME NEW r \in Reservations, LockStock(s, r)
        PROVE  RowStep
    BY <2>1 DEF LockStock, SettlesExisting, RowStep
  <2>2. ASSUME NEW r \in Reservations, ReleaseReservation(s, r)
        PROVE  RowStep
    BY <2>2, ReleaseLogged DEF RowStep
  <2>3. CASE FailReservation(s)
    BY <2>3 DEF FailReservation, RowStep
  <2>. QED  BY <2>1, <2>2, <2>3 DEF ReservationEither
<1>4. CASE \E r \in Reservations : Expire(r) \/ LoseTimer(r)
  BY <1>4 DEF Expire, LoseTimer, rowVars, RowStep
<1>5. CASE WarehouseNext
  <2>. PICK s \in ApiSessions : WarehouseHandler(s)
    BY <1>5 DEF WarehouseNext
  <2>1. ASSUME NEW d \in -MaxDelta..MaxDelta, AdjustStock(s, d)
        PROVE  RowStep
    BY <2>1, AdjustLogged DEF RowStep
  <2>2. ASSUME NEW q \in TransferQuantities, TransferStock(s, q)
        PROVE  RowStep
    BY <2>2, TransferLogged DEF RowStep, TransferHoldsSource, TransferStock
  <2>3. ASSUME NEW row \in Rows, BeginAdjust(s, row)
        PROVE  RowStep
    BY <2>3 DEF BeginAdjust, RowStep
  <2>4. ASSUME NEW from \in Rows, NEW to \in Rows, BeginTransfer(s, from, to)
        PROVE  RowStep
    BY <2>4 DEF BeginTransfer, RowStep
  <2>5. CASE LockDestination(s)
    BY <2>5 DEF LockDestination, TransferHoldsSource, RowStep
  <2>6. CASE RejectAdjust(s) \/ RejectTransfer(s) \/ FailWarehouse(s) \/ AbortDeadlockVictim(s)
    BY <2>6 DEF RejectAdjust, RejectTransfer, FailWarehouse, AbortDeadlockVictim, RowStep
  <2>. QED  BY <2>1, <2>2, <2>3, <2>4, <2>5, <2>6 DEF WarehouseHandler
<1>6. CASE UNCHANGED vars
  BY <1>6 DEF vars, rowVars, RowStep
<1>. QED  BY <1>1, <1>2, <1>3, <1>4, <1>5, <1>6 DEF Next, ReservationNext

-----------------------------------------------------------------------------
(* The rows: types, exclusion, fresh copies, and the log that accounts for   *)
(* them.                                                                     *)

RowsTyped ==
  /\ stock \in [Rows -> Level]
  /\ moved \in [Rows -> Int]
  /\ held \in [Sessions -> SUBSET Rows]
  /\ copy \in [Sessions -> [Rows -> Level]]

LEMMA RowStepType ==
  ASSUME RowsTyped, RowStep
  PROVE  RowsTyped'
<1>. USE DEF RowsTyped
<1>1. ASSUME NEW s \in Sessions, NEW row \in Rows, SelectForUpdate(s, row)
      PROVE  RowsTyped'
  BY <1>1 DEF SelectForUpdate
<1>2. ASSUME NEW s \in Sessions, LoggedCommit(s)
      PROVE  RowsTyped'
  BY <1>2 DEF LoggedCommit, Commit, EndTransaction, NoLevel, Level
<1>3. ASSUME NEW s \in Sessions, Rollback(s)
      PROVE  RowsTyped'
  BY <1>3 DEF Rollback, EndTransaction, NoLevel, Level
<1>4. CASE UNCHANGED <<stock, moved, held, copy>>
  BY <1>4
<1>. QED  BY <1>1, <1>2, <1>3, <1>4 DEF RowStep

LEMMA RowStepExclusion ==
  ASSUME RowsTyped, Exclusion, RowStep
  PROVE  Exclusion'
<1>. USE DEF RowsTyped, Exclusion
<1>1. ASSUME NEW s \in Sessions, NEW row \in Rows, SelectForUpdate(s, row)
      PROVE  Exclusion'
  BY <1>1 DEF SelectForUpdate
<1>2. ASSUME NEW s \in Sessions, EndTransaction(s)
      PROVE  Exclusion'
  BY <1>2 DEF EndTransaction
<1>3. CASE UNCHANGED <<stock, moved, held, copy>>
  BY <1>3
<1>. QED  BY <1>1, <1>2, <1>3 DEF RowStep, LoggedCommit, Commit, Rollback

LEMMA RowStepFresh ==
  ASSUME RowsTyped, Exclusion, FreshCopies, RowStep
  PROVE  FreshCopies'
<1>. USE DEF RowsTyped, FreshCopies
<1>1. ASSUME NEW s \in Sessions, NEW row \in Rows, SelectForUpdate(s, row)
      PROVE  FreshCopies'
  BY <1>1 DEF SelectForUpdate
<1>2. ASSUME NEW s \in Sessions, LoggedCommit(s)
      PROVE  FreshCopies'
  <2>. PICK levels \in [Rows -> Level], delta \in [Rows -> Int] : Commit(s, levels, delta)
    BY <1>2 DEF LoggedCommit
  <2>. SUFFICES ASSUME NEW t \in Sessions, NEW row \in held'[t]
                PROVE  copy'[t][row] = stock'[row]
    OBVIOUS
  <2>1. t # s /\ row \in held[t] /\ copy'[t] = copy[t]
    BY DEF Commit, EndTransaction
  <2>2. row \notin held[s]
    BY <2>1 DEF Exclusion
  <2>. QED  BY <2>1, <2>2 DEF Commit
<1>3. ASSUME NEW s \in Sessions, Rollback(s)
      PROVE  FreshCopies'
  BY <1>3 DEF Rollback, EndTransaction
<1>4. CASE UNCHANGED <<stock, moved, held, copy>>
  BY <1>4
<1>. QED  BY <1>1, <1>2, <1>3, <1>4 DEF RowStep

LEMMA RowStepBalanced ==
  ASSUME RowsTyped, FreshCopies, Balanced, RowStep
  PROVE  Balanced'
<1>. USE DEF RowsTyped, Balanced
<1>1. ASSUME NEW s \in Sessions, LoggedCommit(s)
      PROVE  Balanced'
  <2>. PICK levels \in [Rows -> Level], delta \in [Rows -> Int] :
         /\ Commit(s, levels, delta)
         /\ \A row \in held[s] :
              levels[row].quantity_on_hand = copy[s][row].quantity_on_hand + delta[row]
    BY <1>1 DEF LoggedCommit
  <2>. SUFFICES ASSUME NEW row \in Rows
                PROVE  stock'[row].quantity_on_hand = InitOnHand[row] + moved'[row]
    OBVIOUS
  <2>1. CASE row \in held[s]
    <3>1. stock'[row].quantity_on_hand = stock[row].quantity_on_hand + delta[row]
      BY <2>1 DEF Commit, FreshCopies
    <3>2. moved'[row] = moved[row] + delta[row]
      BY <2>1 DEF Commit
    <3>. QED  BY <3>1, <3>2, RowsAssumption
  <2>2. CASE row \notin held[s]
    BY <2>2 DEF Commit
  <2>. QED  BY <2>1, <2>2
<1>2. ASSUME UNCHANGED <<stock, moved>>
      PROVE  Balanced'
  BY <1>2
<1>. QED  BY <1>1, <1>2 DEF RowStep, SelectForUpdate, Rollback

-----------------------------------------------------------------------------
(* Types of what the handlers keep.                                          *)

HandlersTyped ==
  /\ handler \in [Sessions -> Handlers]
  /\ ReservationTypeOK
  /\ WarehouseTypeOK

LEMMA ReservationStepTyped ==
  ASSUME TypeOK, ReservationNext, UNCHANGED route
  PROVE  HandlersTyped'
<1>. USE DEF HandlersTyped, TypeOK, RowsTypeOK, ReservationTypeOK, WarehouseTypeOK,
             Handlers, Run, Finish, Route
<1>1. ASSUME NEW s \in ApiSessions, ReservationApi(s)
      PROVE  HandlersTyped'
  <2>1. ASSUME NEW row \in Rows, NEW r \in Reservations, BeginCreate(s, row, r)
        PROVE  HandlersTyped'
    BY <2>1 DEF BeginCreate
  <2>2. ASSUME NEW r \in Reservations, NEW q \in Quantities, CreateReservation(s, r, q)
        PROVE  HandlersTyped'
    <3>1. PICK row \in held[s] : reservation' = [reservation EXCEPT ![r] =
            [status |-> "active", row |-> row, quantity |-> q, expired |-> FALSE]]
      BY <2>2 DEF CreateReservation
    <3>2. [status |-> "active", row |-> row, quantity |-> q, expired |-> FALSE] \in Reservation
      BY ReservationsAssumption DEF Reservation, Quantities
    <3>3. reservation' \in [Reservations -> Reservation]
      BY <3>1, <3>2
    <3>. QED  BY <2>2, <3>3 DEF CreateReservation
  <2>3. CASE RejectCreate(s)
    BY <2>3 DEF RejectCreate
  <2>4. CASE ScheduleRelease(s)
    BY <2>4 DEF ScheduleRelease
  <2>5. ASSUME NEW r \in Reservations, BeginConfirm(s, r) \/ BeginRelease(s, r)
        PROVE  HandlersTyped'
    <3>1. PICK h \in {"confirm", "release"} : Begin(s, h, {r})
      BY <2>5 DEF BeginConfirm, BeginRelease
    <3>2. todo' \in [Sessions -> SUBSET Reservations] /\ handler' \in [Sessions -> Handlers]
      BY <3>1 DEF Begin
    <3>3. UNCHANGED <<reservation, timer, route>>
      BY <2>5 DEF BeginConfirm, BeginRelease, Begin
    <3>. QED  BY <3>2, <3>3
  <2>6. ASSUME NEW r \in Reservations, ConfirmReservation(s, r)
        PROVE  HandlersTyped'
    BY <2>6 DEF ConfirmReservation, SetStatus, Reservation
  <2>. QED  BY <1>1, <2>1, <2>2, <2>3, <2>4, <2>5, <2>6 DEF ReservationApi
<1>2. ASSUME NEW s \in WorkerSessions, ReservationWorker(s)
      PROVE  HandlersTyped'
  <2>1. ASSUME NEW r \in Reservations, BeginReleaseTask(s, r)
        PROVE  HandlersTyped'
    BY <2>1 DEF BeginReleaseTask, Begin
  <2>2. ASSUME NEW r \in Reservations, SkipReleaseTask(s, r)
        PROVE  HandlersTyped'
    BY <2>2 DEF SkipReleaseTask, rowVars
  <2>3. CASE BeginSweep(s)
    BY <2>3 DEF BeginSweep, Begin, Expired
  <2>. QED  BY <1>2, <2>1, <2>2, <2>3 DEF ReservationWorker
<1>3. ASSUME NEW s \in Sessions, ReservationEither(s)
      PROVE  HandlersTyped'
  <2>1. ASSUME NEW r \in Reservations, LockStock(s, r)
        PROVE  HandlersTyped'
    BY <2>1 DEF LockStock
  <2>2. ASSUME NEW r \in Reservations, ReleaseReservation(s, r)
        PROVE  HandlersTyped'
    <3>1. reservation' \in [Reservations -> Reservation]
      BY <2>2 DEF ReleaseReservation, SetStatus, Reservation
    <3>2. handler' \in [Sessions -> Handlers] /\ timer' \subseteq Reservations
      BY <2>2 DEF ReleaseReservation
    <3>3. todo' \in [Sessions -> SUBSET Reservations]
      BY <2>2 DEF ReleaseReservation
    <3>. QED  BY <3>1, <3>2, <3>3
  <2>3. CASE FailReservation(s)
    BY <2>3 DEF FailReservation
  <2>. QED  BY <1>3, <2>1, <2>2, <2>3 DEF ReservationEither
<1>4. ASSUME NEW r \in Reservations, Expire(r) \/ LoseTimer(r)
      PROVE  HandlersTyped'
  <2>1. UNCHANGED <<handler, todo, route>>
    BY <1>4 DEF Expire, LoseTimer, rowVars
  <2>2. timer' \subseteq Reservations
    BY <1>4 DEF Expire, LoseTimer
  <2>3. reservation' \in [Reservations -> Reservation]
    <3>1. CASE reservation' = [reservation EXCEPT ![r].expired = TRUE]
      <4>1. [reservation[r] EXCEPT !.expired = TRUE] \in Reservation
        <5>1. reservation[r] \in Reservation
          OBVIOUS
        <5>. QED  BY <5>1 DEF Reservation
      <4>. QED  BY <3>1, <4>1
    <3>. QED  BY <1>4, <3>1 DEF Expire, LoseTimer
  <2>. QED  BY <2>1, <2>2, <2>3
<1>. QED  BY <1>1, <1>2, <1>3, <1>4 DEF ReservationNext

LEMMA WarehouseStepTyped ==
  ASSUME TypeOK, WarehouseNext, UNCHANGED reservationVars
  PROVE  HandlersTyped'
<1>. PICK s \in ApiSessions : WarehouseHandler(s)
  BY DEF WarehouseNext
<1>. USE DEF HandlersTyped, TypeOK, RowsTypeOK, ReservationTypeOK, WarehouseTypeOK,
             Handlers, Run, Route, NoRoute, reservationVars
<1>1. ASSUME NEW row \in Rows, BeginAdjust(s, row)
      PROVE  HandlersTyped'
  BY <1>1 DEF BeginAdjust
<1>2. ASSUME NEW d \in -MaxDelta..MaxDelta, AdjustStock(s, d)
      PROVE  HandlersTyped'
  BY <1>2 DEF AdjustStock
<1>3. ASSUME NEW from \in Rows, NEW to \in Rows, BeginTransfer(s, from, to)
      PROVE  HandlersTyped'
  BY <1>3 DEF BeginTransfer
<1>4. CASE LockDestination(s)
  BY <1>4 DEF LockDestination
<1>5. ASSUME NEW q \in TransferQuantities, TransferStock(s, q)
      PROVE  HandlersTyped'
  <2>1. handler' = [handler EXCEPT ![s] = "idle"] /\ route' = [route EXCEPT ![s] = NoRoute]
    BY <1>5 DEF TransferStock
  <2>. QED  BY <2>1
<1>6. CASE RejectAdjust(s)
  BY <1>6 DEF RejectAdjust
<1>7. CASE RejectTransfer(s) \/ FailWarehouse(s) \/ AbortDeadlockVictim(s)
  <2>1. handler' = [handler EXCEPT ![s] = "idle"] /\ route' = [route EXCEPT ![s] = NoRoute]
    BY <1>7 DEF RejectTransfer, FailWarehouse, AbortDeadlockVictim
  <2>. QED  BY <2>1
<1>. QED  BY <1>1, <1>2, <1>3, <1>4, <1>5, <1>6, <1>7 DEF WarehouseHandler

LEMMA NextTyped ==
  ASSUME TypeOK, RowStep, [Next]_vars
  PROVE  TypeOK'
<1>1. RowsTyped'
  BY RowStepType DEF TypeOK, RowsTypeOK, RowsTyped
<1>2. HandlersTyped'
  <2>1. CASE Next
    BY <2>1, ReservationStepTyped, WarehouseStepTyped DEF Next
  <2>2. CASE UNCHANGED vars
    BY <2>2 DEF vars, rowVars, reservationVars, HandlersTyped, TypeOK, RowsTypeOK,
                ReservationTypeOK, WarehouseTypeOK
  <2>. QED  BY <2>1, <2>2
<1>. QED  BY <1>1, <1>2 DEF TypeOK, RowsTypeOK, RowsTyped, HandlersTyped

-----------------------------------------------------------------------------
(* A step belongs to one session and leaves the others as they are.          *)

OthersKept(s) ==
  \A t \in Sessions \ {s} : /\ handler'[t] = handler[t] /\ held'[t] = held[t]
                           /\ todo'[t] = todo[t] /\ route'[t] = route[t]

WarehouseHandlers == {"idle", "adjust", "transfer"}

LEMMA ReservationStepOwner ==
  ASSUME TypeOK, ReservationNext, UNCHANGED route
  PROVE  \/ UNCHANGED <<handler, held, todo>>
         \/ \E s \in Sessions : OthersKept(s) /\ handler'[s] \notin {"adjust", "transfer"}
<1>. USE DEF TypeOK, RowsTypeOK, ReservationTypeOK, OthersKept, Run, Finish
<1>1. ASSUME NEW s \in ApiSessions, ReservationApi(s)
      PROVE  OthersKept(s) /\ handler'[s] \notin {"adjust", "transfer"}
  <2>. USE DEF SelectForUpdate, Commit, Rollback, EndTransaction
  <2>1. ASSUME NEW row \in Rows, NEW r \in Reservations, BeginCreate(s, row, r)
        PROVE  OthersKept(s) /\ handler'[s] \notin {"adjust", "transfer"}
    BY <2>1 DEF BeginCreate
  <2>2. ASSUME NEW r \in Reservations, NEW q \in Quantities, CreateReservation(s, r, q)
        PROVE  OthersKept(s) /\ handler'[s] \notin {"adjust", "transfer"}
    BY <2>2 DEF CreateReservation
  <2>3. CASE RejectCreate(s) \/ ScheduleRelease(s)
    BY <2>3 DEF RejectCreate, ScheduleRelease
  <2>4. ASSUME NEW r \in Reservations, BeginConfirm(s, r) \/ BeginRelease(s, r)
        PROVE  OthersKept(s) /\ handler'[s] \notin {"adjust", "transfer"}
    BY <2>4 DEF BeginConfirm, BeginRelease, Begin
  <2>5. ASSUME NEW r \in Reservations, ConfirmReservation(s, r)
        PROVE  OthersKept(s) /\ handler'[s] \notin {"adjust", "transfer"}
    BY <2>5 DEF ConfirmReservation
  <2>. QED  BY <1>1, <2>1, <2>2, <2>3, <2>4, <2>5 DEF ReservationApi
<1>2. ASSUME NEW s \in WorkerSessions, ReservationWorker(s)
      PROVE  \/ UNCHANGED <<handler, held, todo>>
             \/ OthersKept(s) /\ handler'[s] \notin {"adjust", "transfer"}
  BY <1>2 DEF ReservationWorker, BeginReleaseTask, SkipReleaseTask, BeginSweep, Begin, rowVars
<1>3. ASSUME NEW s \in Sessions, ReservationEither(s)
      PROVE  OthersKept(s) /\ handler'[s] \notin {"adjust", "transfer"}
  <2>. USE DEF SelectForUpdate, Commit, Rollback, EndTransaction, Settling, Releasing
  <2>1. ASSUME NEW r \in Reservations, LockStock(s, r)
        PROVE  OthersKept(s) /\ handler'[s] \notin {"adjust", "transfer"}
    BY <2>1 DEF LockStock
  <2>2. ASSUME NEW r \in Reservations, ReleaseReservation(s, r)
        PROVE  OthersKept(s) /\ handler'[s] \notin {"adjust", "transfer"}
    BY <2>2 DEF ReleaseReservation
  <2>3. CASE FailReservation(s)
    BY <2>3 DEF FailReservation
  <2>. QED  BY <1>3, <2>1, <2>2, <2>3 DEF ReservationEither
<1>4. ASSUME NEW r \in Reservations, Expire(r) \/ LoseTimer(r)
      PROVE  UNCHANGED <<handler, held, todo>>
  BY <1>4 DEF Expire, LoseTimer, rowVars
<1>. QED  BY <1>1, <1>2, <1>3, <1>4 DEF ReservationNext

LEMMA WarehouseStepOwner ==
  ASSUME TypeOK, WarehouseNext, UNCHANGED reservationVars
  PROVE  \E s \in Sessions :
           /\ OthersKept(s)
           /\ handler[s] \in WarehouseHandlers
           /\ handler'[s] \in WarehouseHandlers
<1>. PICK s \in ApiSessions : WarehouseHandler(s)
  BY DEF WarehouseNext
<1>. DEFINE Owner == /\ OthersKept(s)
                     /\ handler[s] \in WarehouseHandlers
                     /\ handler'[s] \in WarehouseHandlers
<1>. USE DEF TypeOK, RowsTypeOK, WarehouseTypeOK, reservationVars, OthersKept,
             WarehouseHandlers, Run, Idle, SelectForUpdate, Commit, Rollback, EndTransaction
<1>1. ASSUME NEW row \in Rows, BeginAdjust(s, row)
      PROVE  Owner
  BY <1>1 DEF BeginAdjust
<1>2. ASSUME NEW d \in -MaxDelta..MaxDelta, AdjustStock(s, d)
      PROVE  Owner
  BY <1>2 DEF AdjustStock
<1>3. ASSUME NEW from \in Rows, NEW to \in Rows, BeginTransfer(s, from, to)
      PROVE  Owner
  BY <1>3 DEF BeginTransfer
<1>4. CASE LockDestination(s)
  BY <1>4 DEF LockDestination
<1>5. ASSUME NEW q \in TransferQuantities, TransferStock(s, q)
      PROVE  Owner
  BY <1>5 DEF TransferStock
<1>6. CASE RejectAdjust(s)
  BY <1>6 DEF RejectAdjust
<1>7. CASE RejectTransfer(s) \/ FailWarehouse(s) \/ AbortDeadlockVictim(s)
  BY <1>7 DEF RejectTransfer, FailWarehouse, AbortDeadlockVictim
<1>. QED  BY <1>1, <1>2, <1>3, <1>4, <1>5, <1>6, <1>7 DEF WarehouseHandler

LEMMA TransferHoldsSourceKept ==
  ASSUME TypeOK, TransferHoldsSource, [Next]_vars
  PROVE  TransferHoldsSource'
<1>. USE DEF TransferHoldsSource
<1>1. CASE ReservationNext /\ UNCHANGED route
  BY <1>1, ReservationStepOwner DEF OthersKept
<1>2. CASE WarehouseNext /\ UNCHANGED reservationVars
  <2>. PICK s \in ApiSessions : WarehouseHandler(s)
    BY <1>2 DEF WarehouseNext
  <2>. USE DEF TypeOK, RowsTypeOK, WarehouseTypeOK, Run, Idle, SelectForUpdate,
               Commit, Rollback, EndTransaction
  <2>1. ASSUME NEW row \in Rows, BeginAdjust(s, row)
        PROVE  TransferHoldsSource'
    BY <2>1 DEF BeginAdjust
  <2>2. ASSUME NEW d \in -MaxDelta..MaxDelta, AdjustStock(s, d)
        PROVE  TransferHoldsSource'
    BY <2>2 DEF AdjustStock
  <2>3. ASSUME NEW from \in Rows, NEW to \in Rows, BeginTransfer(s, from, to)
        PROVE  TransferHoldsSource'
    BY <2>3 DEF BeginTransfer
  <2>4. CASE LockDestination(s)
    BY <2>4 DEF LockDestination
  <2>5. ASSUME NEW q \in TransferQuantities, TransferStock(s, q)
        PROVE  TransferHoldsSource'
    BY <2>5 DEF TransferStock
  <2>6. CASE RejectAdjust(s)
    BY <2>6 DEF RejectAdjust
  <2>7. CASE RejectTransfer(s) \/ FailWarehouse(s) \/ AbortDeadlockVictim(s)
    BY <2>7 DEF RejectTransfer, FailWarehouse, AbortDeadlockVictim
  <2>. QED  BY <2>1, <2>2, <2>3, <2>4, <2>5, <2>6, <2>7 DEF WarehouseHandler
<1>3. CASE UNCHANGED vars
  BY <1>3 DEF vars, rowVars
<1>. QED  BY <1>1, <1>2, <1>3 DEF Next

-----------------------------------------------------------------------------
(* What the reservation handlers know of the reservations they work on.      *)

\* Statuses and rows of a reservation change in three ways.
Created(r, row, q) ==
  reservation' = [reservation EXCEPT ![r] =
    [status |-> "active", row |-> row, quantity |-> q, expired |-> FALSE]]

Settled(r) == \E st \in {"confirmed", "released"} : SetStatus(r, st)

LEMMA RowsOfReservationsKept ==
  ASSUME TypeOK, RowsOfReservations, SettlesExisting, [Next]_vars
  PROVE  RowsOfReservations'
<1>. USE DEF TypeOK, RowsTypeOK, ReservationTypeOK, RowsOfReservations
<1>1. ASSUME NEW r \in Reservations, NEW row \in Rows, NEW q, Created(r, row, q)
      PROVE  RowsOfReservations'
  BY <1>1 DEF Created
<1>2. ASSUME NEW r \in Reservations, Settled(r), reservation[r].row \in Rows
      PROVE  RowsOfReservations'
  BY <1>2 DEF Settled, SetStatus, Reservation
<1>3. ASSUME NEW r \in Reservations, Expire(r)
      PROVE  RowsOfReservations'
  BY <1>3 DEF Expire, Reservation
<1>4. CASE UNCHANGED reservation
  BY <1>4
<1>5. ASSUME NEW s \in ApiSessions, ReservationApi(s)
      PROVE  RowsOfReservations'
  <2>1. ASSUME NEW r \in Reservations, NEW q \in Quantities, CreateReservation(s, r, q)
        PROVE  RowsOfReservations'
    BY <2>1, <1>1 DEF CreateReservation, Created
  <2>2. ASSUME NEW r \in Reservations, ConfirmReservation(s, r)
        PROVE  RowsOfReservations'
    BY <2>2, <1>2 DEF ConfirmReservation, Settled
  <2>. QED  BY <1>4, <1>5, <2>1, <2>2 DEF ReservationApi, BeginCreate, RejectCreate,
                   ScheduleRelease, BeginConfirm, BeginRelease, Begin
<1>6. ASSUME NEW s \in Sessions, ReservationEither(s)
      PROVE  RowsOfReservations'
  <2>1. ASSUME NEW r \in Reservations, ReleaseReservation(s, r)
        PROVE  RowsOfReservations'
    BY <2>1, <1>2 DEF ReleaseReservation, Settled
  <2>. QED  BY <1>4, <1>6, <2>1 DEF ReservationEither, LockStock, FailReservation
<1>7. ASSUME NEW s \in WorkerSessions, ReservationWorker(s)
      PROVE  UNCHANGED reservation
  BY <1>7 DEF ReservationWorker, BeginReleaseTask, SkipReleaseTask, BeginSweep, Begin
<1>. QED  BY <1>3, <1>4, <1>5, <1>6, <1>7 DEF Next, ReservationNext, LoseTimer, vars,
                 reservationVars

LEMMA SettlesExistingKept ==
  ASSUME TypeOK, RowsOfReservations, SettlesExisting, [Next]_vars
  PROVE  SettlesExisting'
<1>. USE DEF TypeOK, RowsTypeOK, ReservationTypeOK, SettlesExisting, Settling, Releasing
<1>. DEFINE Exists(r) == reservation[r].status # "absent" /\ reservation[r].row \in Rows
<1>1. \A r \in Reservations : Active(r) => Exists(r)
  BY DEF Active, RowsOfReservations
\* A session that begins, on reservations that exist.
<1>2. ASSUME NEW s \in Sessions, NEW h, NEW rids \in SUBSET Reservations, Begin(s, h, rids),
             \A r \in rids : Active(r)
      PROVE  SettlesExisting'
  BY <1>1, <1>2 DEF Begin, Run
\* Reservations that exist stay, and no session gets more to settle.
<1>3. ASSUME \A r \in Reservations : Exists(r) => Exists(r)',
             \A s \in Sessions : handler'[s] \in Settling =>
               handler[s] \in Settling /\ todo'[s] \subseteq todo[s]
      PROVE  SettlesExisting'
  BY <1>3
<1>4. ASSUME NEW s \in ApiSessions, ReservationApi(s)
      PROVE  SettlesExisting'
  <2>. USE DEF Run, Finish
  <2>1. ASSUME NEW row \in Rows, NEW r \in Reservations, BeginCreate(s, row, r)
        PROVE  SettlesExisting'
    BY <2>1, <1>3 DEF BeginCreate
  <2>2. ASSUME NEW r \in Reservations, NEW q \in Quantities, CreateReservation(s, r, q)
        PROVE  SettlesExisting'
    <3>1. \A p \in Reservations : Exists(p) => Exists(p)'
      BY <2>2 DEF CreateReservation
    <3>. QED  BY <2>2, <3>1, <1>3 DEF CreateReservation
  <2>3. CASE RejectCreate(s) \/ ScheduleRelease(s)
    BY <2>3, <1>3 DEF RejectCreate, ScheduleRelease
  <2>4. ASSUME NEW r \in Reservations, BeginConfirm(s, r) \/ BeginRelease(s, r)
        PROVE  SettlesExisting'
    BY <2>4, <1>2 DEF BeginConfirm, BeginRelease
  <2>5. ASSUME NEW r \in Reservations, ConfirmReservation(s, r)
        PROVE  SettlesExisting'
    <3>1. \A p \in Reservations : Exists(p) => Exists(p)'
      BY <2>5 DEF ConfirmReservation, SetStatus, Reservation
    <3>. QED  BY <2>5, <3>1, <1>3 DEF ConfirmReservation
  <2>. QED  BY <1>4, <2>1, <2>2, <2>3, <2>4, <2>5 DEF ReservationApi
<1>5. ASSUME NEW s \in WorkerSessions, ReservationWorker(s)
      PROVE  SettlesExisting'
  <2>1. ASSUME NEW r \in Reservations, BeginReleaseTask(s, r)
        PROVE  SettlesExisting'
    BY <2>1, <1>2 DEF BeginReleaseTask
  <2>2. CASE BeginSweep(s)
    BY <2>2, <1>2 DEF BeginSweep, Expired
  <2>3. ASSUME NEW r \in Reservations, SkipReleaseTask(s, r)
        PROVE  SettlesExisting'
    BY <2>3, <1>3 DEF SkipReleaseTask, rowVars
  <2>. QED  BY <1>5, <2>1, <2>2, <2>3 DEF ReservationWorker
<1>6. ASSUME NEW s \in Sessions, ReservationEither(s)
      PROVE  SettlesExisting'
  <2>. USE DEF Run, Finish
  <2>1. ASSUME NEW r \in Reservations, LockStock(s, r)
        PROVE  SettlesExisting'
    BY <2>1, <1>3 DEF LockStock
  <2>2. ASSUME NEW r \in Reservations, ReleaseReservation(s, r)
        PROVE  SettlesExisting'
    <3>1. \A p \in Reservations : Exists(p) => Exists(p)'
      BY <2>2 DEF ReleaseReservation, SetStatus, Reservation
    <3>2. \A t \in Sessions : handler'[t] \in Settling =>
            handler[t] \in Settling /\ todo'[t] \subseteq todo[t]
      BY <2>2 DEF ReleaseReservation
    <3>. QED  BY <3>1, <3>2, <1>3
  <2>3. CASE FailReservation(s)
    BY <2>3, <1>3 DEF FailReservation
  <2>. QED  BY <1>6, <2>1, <2>2, <2>3 DEF ReservationEither
<1>7. ASSUME NEW r \in Reservations, Expire(r) \/ LoseTimer(r)
      PROVE  SettlesExisting'
  BY <1>7, <1>3 DEF Expire, LoseTimer, rowVars, Reservation
<1>8. CASE WarehouseNext /\ UNCHANGED reservationVars
  BY <1>8, <1>3, WarehouseStepOwner DEF OthersKept, WarehouseHandlers, reservationVars
<1>9. CASE UNCHANGED vars
  BY <1>9, <1>3 DEF vars, rowVars, reservationVars
<1>. QED  BY <1>4, <1>5, <1>6, <1>7, <1>8, <1>9 DEF Next, ReservationNext

LEMMA CreatesFreshKept ==
  ASSUME TypeOK, CreatesFresh, [Next]_vars
  PROVE  CreatesFresh'
<1>. USE DEF TypeOK, RowsTypeOK, ReservationTypeOK, CreatesFresh
<1>0. \A p \in Reservations : reservation[p] = Absent => reservation[p].status = "absent"
  BY DEF Absent
\* A session that begins to settle active reservations.
<1>. DEFINE BeginsOn(s, rids) ==
              /\ \A p \in rids : Active(p)
              /\ handler'[s] # "create"
              /\ \A t \in Sessions \ {s} : handler'[t] = handler[t]
              /\ todo' = [todo EXCEPT ![s] = rids]
              /\ UNCHANGED reservation
<1>1. ASSUME NEW s \in Sessions, NEW rids \in SUBSET Reservations, BeginsOn(s, rids)
      PROVE  CreatesFresh'
  <2>1. \A p \in rids : reservation[p] # Absent
    BY <1>0, <1>1 DEF Active
  <2>. QED  BY <1>1, <2>1
\* No session has more to do, and what is absent for a creator stays so.
<1>2. ASSUME \A s \in Sessions : handler'[s] = "create" => handler[s] = "create",
             \A s \in Sessions : todo'[s] \subseteq todo[s],
             \A s \in Sessions : handler'[s] = "create" =>
               \A r \in todo[s] : reservation'[r] = Absent
      PROVE  CreatesFresh'
  BY <1>2
<1>3. ASSUME NEW s \in Sessions, NEW r \in todo[s], handler'[s] # "create",
             \A p \in Reservations \ {r} : reservation'[p] = reservation[p],
             \A t \in Sessions \ {s} : handler'[t] = handler[t],
             \A t \in Sessions : todo'[t] \subseteq todo[t]
      PROVE  CreatesFresh'
  <2>1. ASSUME NEW t \in Sessions, handler'[t] = "create", NEW p \in todo[t]
        PROVE  reservation'[p] = Absent
    BY <1>3, <2>1
  <2>. QED  BY <1>3, <2>1, <1>2
<1>4. ASSUME NEW s \in ApiSessions, ReservationApi(s)
      PROVE  CreatesFresh'
  <2>. USE DEF Run, Finish
  <2>1. ASSUME NEW row \in Rows, NEW r \in Reservations, BeginCreate(s, row, r)
        PROVE  CreatesFresh'
    BY <2>1 DEF BeginCreate, Fresh
  <2>2. ASSUME NEW r \in Reservations, NEW q \in Quantities, CreateReservation(s, r, q)
        PROVE  CreatesFresh'
    BY <2>2, <1>3 DEF CreateReservation
  <2>3. CASE RejectCreate(s) \/ ScheduleRelease(s)
    BY <2>3, <1>2 DEF RejectCreate, ScheduleRelease
  <2>4. ASSUME NEW r \in Reservations, BeginConfirm(s, r) \/ BeginRelease(s, r)
        PROVE  CreatesFresh'
    <3>1. BeginsOn(s, {r})
      BY <2>4 DEF BeginConfirm, BeginRelease, Begin, Run
    <3>2. s \in Sessions /\ {r} \in SUBSET Reservations
      BY DEF Expired
    <3>. HIDE DEF BeginsOn
    <3>. QED  BY <3>1, <3>2, <1>1
  <2>5. ASSUME NEW r \in Reservations, ConfirmReservation(s, r)
        PROVE  CreatesFresh'
    BY <2>5, <1>3 DEF ConfirmReservation, SetStatus
  <2>. QED  BY <1>4, <2>1, <2>2, <2>3, <2>4, <2>5 DEF ReservationApi
<1>5. ASSUME NEW s \in WorkerSessions, ReservationWorker(s)
      PROVE  CreatesFresh'
  <2>1. ASSUME NEW r \in Reservations, BeginReleaseTask(s, r)
        PROVE  CreatesFresh'
    <3>1. BeginsOn(s, {r})
      BY <2>1 DEF BeginReleaseTask, Begin, Run
    <3>2. s \in Sessions /\ {r} \in SUBSET Reservations
      BY DEF Expired
    <3>. HIDE DEF BeginsOn
    <3>. QED  BY <3>1, <3>2, <1>1
  <2>2. CASE BeginSweep(s)
    <3>1. BeginsOn(s, Expired)
      BY <2>2 DEF BeginSweep, Begin, Run, Expired
    <3>2. s \in Sessions /\ Expired \in SUBSET Reservations
      BY DEF Expired
    <3>. HIDE DEF BeginsOn
    <3>. QED  BY <3>1, <3>2, <1>1
  <2>3. ASSUME NEW r \in Reservations, SkipReleaseTask(s, r)
        PROVE  CreatesFresh'
    BY <2>3, <1>2 DEF SkipReleaseTask, rowVars
  <2>. QED  BY <1>5, <2>1, <2>2, <2>3 DEF ReservationWorker
<1>6. ASSUME NEW s \in Sessions, ReservationEither(s)
      PROVE  CreatesFresh'
  <2>. USE DEF Run, Finish
  <2>1. ASSUME NEW r \in Reservations, LockStock(s, r)
        PROVE  CreatesFresh'
    BY <2>1, <1>2 DEF LockStock
  <2>2. ASSUME NEW r \in Reservations, ReleaseReservation(s, r)
        PROVE  CreatesFresh'
    <3>1. r \in todo[s] /\ handler'[s] # "create"
      BY <2>2 DEF ReleaseReservation, Releasing
    <3>. QED  BY <2>2, <3>1, <1>3 DEF ReleaseReservation, SetStatus
  <2>3. CASE FailReservation(s)
    BY <2>3, <1>2 DEF FailReservation
  <2>. QED  BY <1>6, <2>1, <2>2, <2>3 DEF ReservationEither
<1>7. ASSUME NEW r \in Reservations, Expire(r) \/ LoseTimer(r)
      PROVE  CreatesFresh'
  <2>1. \A p \in Reservations : reservation[p] = Absent => reservation'[p] = Absent
    BY <1>0, <1>7 DEF Expire, LoseTimer
  <2>. QED  BY <2>1, <1>2, <1>7 DEF Expire, LoseTimer, rowVars
<1>8. CASE WarehouseNext /\ UNCHANGED reservationVars
  BY <1>8, <1>2, WarehouseStepOwner DEF OthersKept, WarehouseHandlers, reservationVars
<1>9. CASE UNCHANGED vars
  BY <1>9, <1>2 DEF vars, rowVars, reservationVars
<1>. QED  BY <1>4, <1>5, <1>6, <1>7, <1>8, <1>9 DEF Next, ReservationNext

-----------------------------------------------------------------------------
(* The inductive invariant of Spec, and what follows from it.                *)

IInv == TypeOK /\ SessionInv /\ Balanced

LEMMA InitIInv == Init => IInv
<1>. SUFFICES ASSUME Init
              PROVE  IInv
  OBVIOUS
<1>. USE RowsAssumption DEF Init, RowsInit, ReservationInit, WarehouseInit
<1>1. RowsTypeOK
  BY DEF RowsTypeOK, Level, NoLevel, Handlers
<1>2. ReservationTypeOK
  BY ReservationsAssumption DEF ReservationTypeOK, Reservation, Absent
<1>3. WarehouseTypeOK
  BY DEF WarehouseTypeOK, Route, NoRoute
<1>4. Exclusion /\ FreshCopies /\ Balanced
  BY DEF Exclusion, FreshCopies, Balanced
<1>5. TransferHoldsSource /\ RowsOfReservations /\ SettlesExisting /\ CreatesFresh
  BY DEF TransferHoldsSource, RowsOfReservations, SettlesExisting, CreatesFresh,
         Settling, Releasing, Absent
<1>. QED  BY <1>1, <1>2, <1>3, <1>4, <1>5 DEF IInv, TypeOK, SessionInv

LEMMA NextIInv == IInv /\ [Next]_vars => IInv'
<1>. SUFFICES ASSUME IInv, [Next]_vars
              PROVE  IInv'
  OBVIOUS
<1>. USE DEF IInv, SessionInv
<1>1. RowStep
  BY NextRowStep
<1>2. RowsTyped
  BY DEF TypeOK, RowsTypeOK, RowsTyped
<1>3. TypeOK'
  BY <1>1, NextTyped
<1>4. Exclusion' /\ FreshCopies' /\ Balanced'
  BY <1>1, <1>2, RowStepExclusion, RowStepFresh, RowStepBalanced
<1>5. TransferHoldsSource'
  BY TransferHoldsSourceKept
<1>6. RowsOfReservations' /\ SettlesExisting' /\ CreatesFresh'
  BY RowsOfReservationsKept, SettlesExistingKept, CreatesFreshKept
<1>. QED  BY <1>3, <1>4, <1>5, <1>6

\* In every behaviour of the service, whatever requests, tasks and failures
\* interleave, the inductive invariant holds.
THEOREM InventoryInvariant == Spec => []IInv
BY InitIInv, NextIInv, PTL DEF Spec

\* Type correctness of the rows, reservations, timers and handlers.
THEOREM TypeCorrect == Spec => []TypeOK
BY InventoryInvariant, PTL DEF IInv

\* No update of a stock row is ever lost: the movement log explains every unit
\* on hand.
THEOREM LogExplainsStock == Spec => []Balanced
BY InventoryInvariant, PTL DEF IInv

\* What handlers believe between their steps (locks, copies, reservations they
\* are about to create or settle) is true.
THEOREM SessionsConsistent == Spec => []SessionInv
BY InventoryInvariant, PTL DEF IInv

-----------------------------------------------------------------------------
(* The whole plant: production batches over the same rows.                   *)

LEMMA BillLine ==
  ASSUME NEW b \in Batches, NEW i \in 1..Len(Bom[b])
  PROVE  Bom[b][i].row \in Rows /\ Bom[b][i].quantity \in Nat
<1>. DEFINE Line == [row : Rows, quantity : Nat]
<1>1. Bom[b] \in Seq(Line)
  BY BatchAssumption
<1>. HIDE DEF Line
<1>2. Bom[b][i] \in Line
  BY <1>1
<1>. QED  BY <1>2 DEF Line

LEMMA ConsumptionInt ==
  ASSUME NEW b \in Batches, NEW row \in Rows
  PROVE  Consumption(b, row) \in Int
<1>. DEFINE taken == [i \in DOMAIN Bom[b] |-> Bom[b][i].quantity]
            lines == {i \in DOMAIN Bom[b] : Bom[b][i].row = row}
<1>1. Bom[b] \in Seq([row : Rows, quantity : Nat])
  BY BatchAssumption
<1>2. IsFiniteSet(1..Len(Bom[b]))
  BY <1>1, FS_Interval
<1>3. IsFiniteSet(lines)
  BY <1>1, <1>2, FS_Subset
<1>4. \A i \in lines : taken[i] \in Int
  BY <1>1, BillLine
<1>. QED  BY <1>3, <1>4, SumInt DEF Consumption

LEMMA StartLogged ==
  ASSUME TypeOK, BatchTypeOK, JobsNamed, NEW s \in Sessions, StartBatch(s)
  PROVE  LoggedCommit(s)
<1>. DEFINE b == job[s].batch
            levels == [row \in Rows |-> [copy[s][row] EXCEPT !.quantity_on_hand =
                                           @ - Consumption(b, row)]]
            delta == [row \in Rows |-> -Consumption(b, row)]
<1>1. b \in Batches
  BY DEF StartBatch, JobsNamed, Producing
<1>2. Commit(s, levels, delta)
  BY DEF StartBatch
<1>3. \A row \in Rows : copy[s][row] \in Level /\ Consumption(b, row) \in Int
  BY <1>1, ConsumptionInt DEF TypeOK, RowsTypeOK
<1>4. levels \in [Rows -> Level] /\ delta \in [Rows -> Int]
  BY <1>3 DEF Level
<1>5. \A row \in held[s] :
        levels[row].quantity_on_hand = copy[s][row].quantity_on_hand + delta[row]
  BY <1>3 DEF TypeOK, RowsTypeOK, Level
<1>. QED  BY <1>2, <1>4, <1>5 DEF LoggedCommit

LEMMA CompleteLogged ==
  ASSUME TypeOK, NEW s \in Sessions, NEW y \in 0..MaxYield, CompleteBatch(s, y)
  PROVE  LoggedCommit(s)
<1>. DEFINE row == Product[job[s].batch]
            levels == [copy[s] EXCEPT ![row].quantity_on_hand = @ + y]
            delta == [x \in Rows |-> IF x = row THEN y ELSE 0]
<1>1. row \in held[s] /\ Commit(s, levels, delta)
  BY DEF CompleteBatch
<1>2. row \in Rows /\ y \in Int /\ copy[s] \in [Rows -> Level]
  BY <1>1, BatchAssumption DEF TypeOK, RowsTypeOK
<1>3. levels \in [Rows -> Level] /\ delta \in [Rows -> Int]
  BY <1>2 DEF Level
<1>4. \A x \in held[s] :
        levels[x].quantity_on_hand = copy[s][x].quantity_on_hand + delta[x]
  BY <1>2 DEF TypeOK, RowsTypeOK, Level
<1>. QED  BY <1>1, <1>3, <1>4 DEF LoggedCommit

LEMMA BatchRowStep ==
  ASSUME TypeOK, BatchTypeOK, JobsNamed, NEW s \in ApiSessions, BatchHandler(s)
  PROVE  RowStep
<1>1. ASSUME NEW b \in Batches, CreateBatch(s, b)
      PROVE  RowStep
  BY <1>1 DEF CreateBatch, rowVars, RowStep
<1>2. ASSUME NEW b \in Batches, NEW h, NEW target, BeginJob(s, h, b, target)
      PROVE  RowStep
  BY <1>2 DEF BeginJob, RowStep
<1>3. CASE LockComponent(s)
  <2>1. job[s].batch \in Batches
    BY <1>3 DEF LockComponent, LinesLeft, JobsNamed, Producing
  <2>2. Bom[job[s].batch] \in Seq([row : Rows, quantity : Nat]) /\ job[s].line \in Nat
    BY <2>1, BatchAssumption DEF BatchTypeOK, Job
  <2>3. job[s].line + 1 \in 1..Len(Bom[job[s].batch])
    BY <1>3, <2>2 DEF LockComponent, LinesLeft
  <2>4. NextLine(s).row \in Rows
    BY <2>1, <2>3, BillLine DEF NextLine
  <2>. QED  BY <1>3, <2>4 DEF LockComponent, RowStep
<1>4. CASE StartBatch(s)
  BY <1>4, StartLogged DEF RowStep
<1>5. CASE LockProduct(s)
  <2>1. Product[job[s].batch] \in Rows
    BY <1>5, BatchAssumption DEF LockProduct, JobsNamed, Producing
  <2>. QED  BY <1>5, <2>1 DEF LockProduct, RowStep
<1>6. ASSUME NEW y \in 0..MaxYield, CompleteBatch(s, y)
      PROVE  RowStep
  BY <1>6, CompleteLogged DEF RowStep
<1>7. CASE cancel_or_fail_batch(s)
  BY <1>7 DEF cancel_or_fail_batch, RowStep
<1>8. CASE FailBatch(s)
  BY <1>8 DEF FailBatch, RowStep
<1>. QED  BY <1>1, <1>2, <1>3, <1>4, <1>5, <1>6, <1>7, <1>8
          DEF BatchHandler, BeginStart, BeginComplete, BeginStatus

-----------------------------------------------------------------------------
(* What a step of a batch handler does to the sessions and to the batches.   *)

\* The step is the session's own; it was idle or producing, and is so still.
ProducerStep(s) ==
  /\ \A t \in Sessions \ {s} : /\ handler'[t] = handler[t] /\ held'[t] = held[t]
                                /\ job'[t] = job[t]
  /\ {handler[s], handler'[s]} \subseteq Producing \cup {"idle"}

LEMMA BatchStepOwner ==
  ASSUME TypeOK, BatchTypeOK, NEW s \in ApiSessions, BatchHandler(s)
  PROVE  ProducerStep(s)
<1>. USE DEF TypeOK, RowsTypeOK, BatchTypeOK, ProducerStep, Producing, Run, Idle, FinishJob,
             SelectForUpdate, Commit, Rollback, EndTransaction
<1>1. ASSUME NEW b \in Batches, CreateBatch(s, b)
      PROVE  ProducerStep(s)
  BY <1>1 DEF CreateBatch, rowVars
<1>2. ASSUME NEW b \in Batches, NEW h \in Producing, NEW target, BeginJob(s, h, b, target)
      PROVE  ProducerStep(s)
  BY <1>2 DEF BeginJob
<1>3. CASE LockComponent(s)
  BY <1>3 DEF LockComponent, LinesLeft
<1>4. CASE StartBatch(s)
  BY <1>4 DEF StartBatch
<1>5. CASE LockProduct(s)
  BY <1>5 DEF LockProduct, batchVars
<1>6. ASSUME NEW y \in 0..MaxYield, CompleteBatch(s, y)
      PROVE  ProducerStep(s)
  BY <1>6 DEF CompleteBatch
<1>7. CASE cancel_or_fail_batch(s)
  BY <1>7 DEF cancel_or_fail_batch
<1>8. CASE FailBatch(s)
  BY <1>8 DEF FailBatch
<1>. QED  BY <1>1, <1>2, <1>3, <1>4, <1>5, <1>6, <1>7, <1>8
          DEF BatchHandler, BeginStart, BeginComplete, BeginStatus

LEMMA AllowedTransition ==
  ASSUME NEW b \in Batches, BatchTypeOK, NEW target
  PROVE  _assert_transition(b, target) <=>
           \/ batch[b].status = "planned" /\ target \in {"in_progress", "cancelled"}
           \/ batch[b].status = "in_progress" /\ target \in {"completed", "failed", "cancelled"}
<1>1. batch[b].status \in Statuses \cup {"absent"}
  BY DEF BatchTypeOK, Batch
<1>2. VALID_TRANSITIONS["planned"] = {"in_progress", "cancelled"}
  BY DEF VALID_TRANSITIONS
<1>3. VALID_TRANSITIONS["in_progress"] = {"completed", "failed", "cancelled"}
  BY DEF VALID_TRANSITIONS
<1>4. \A st \in {"completed", "cancelled", "failed", "absent"} : VALID_TRANSITIONS[st] = {}
  BY DEF VALID_TRANSITIONS
<1>. QED  BY <1>1, <1>2, <1>3, <1>4 DEF _assert_transition, Statuses

\* A request that begins carries what the batch's status allows.
LEMMA BeginsNamed ==
  ASSUME NEW s \in ApiSessions, BatchTypeOK,
         NEW b \in Batches, NEW h, NEW target, BeginJob(s, h, b, target)
  PROVE  b \in Batches /\ target \in Statuses
  BY AllowedTransition DEF BeginJob, Statuses

LEMMA LineTaken ==
  ASSUME NEW j \in Job
  PROVE  [j EXCEPT !.line = @ + 1] \in Job
  BY DEF Job

LEMMA Counted ==
  ASSUME NEW c \in Batch, NEW st \in Statuses
  PROVE  /\ [c EXCEPT !.status = st] \in Batch
         /\ [c EXCEPT !.status = st, !.consumed = @ + 1] \in Batch
         /\ [c EXCEPT !.status = st, !.yielded = @ + 1] \in Batch
<1>. DEFINE d == [c EXCEPT !.status = st]
<1>1. d \in Batch
  BY DEF Batch
<1>. HIDE DEF d
<1>2. [d EXCEPT !.consumed = @ + 1] \in Batch /\ [d EXCEPT !.yielded = @ + 1] \in Batch
  BY <1>1 DEF Batch
<1>. QED  BY <1>1, <1>2 DEF d

LEMMA BatchStepTyped ==
  ASSUME TypeOK, BatchTypeOK, JobsNamed, NEW s \in ApiSessions, BatchHandler(s)
  PROVE  handler' \in [Sessions -> Handlers] /\ BatchTypeOK'
<1>. DEFINE Typed == handler' \in [Sessions -> Handlers] /\ BatchTypeOK'
<1>. USE DEF TypeOK, RowsTypeOK, BatchTypeOK, Handlers, Run
<1>1. ASSUME NEW b \in Batches, CreateBatch(s, b)
      PROVE  Typed
  BY <1>1 DEF CreateBatch, rowVars, Batch, Statuses
<1>2. ASSUME NEW b \in Batches, NEW h \in Producing, NEW target, BeginJob(s, h, b, target)
      PROVE  Typed
  <2>1. [batch |-> b, target |-> target, line |-> 0] \in Job
    BY <1>2, BeginsNamed DEF Job
  <2>2. job' \in [Sessions -> Job]
    BY <1>2, <2>1 DEF BeginJob
  <2>. QED  BY <1>2, <2>2 DEF BeginJob, Producing
<1>3. CASE LockComponent(s)
  <2>1. [job[s] EXCEPT !.line = @ + 1] \in Job
    BY LineTaken
  <2>2. job' = [job EXCEPT ![s] = [job[s] EXCEPT !.line = @ + 1]]
    BY <1>3 DEF LockComponent
  <2>3. job' \in [Sessions -> Job]
    BY <2>1, <2>2
  <2>. QED  BY <1>3, <2>3 DEF LockComponent
<1>4. ASSUME FinishJob(s)
      PROVE  /\ job' \in [Sessions -> Job] /\ handler' \in [Sessions -> Handlers]
             /\ rivals' \subseteq Batches
  BY <1>4 DEF FinishJob, NoJob, Job
<1>5. CASE StartBatch(s)
  <2>. DEFINE b == job[s].batch
              new == [batch[b] EXCEPT !.status = "in_progress", !.consumed = @ + 1]
  <2>1. b \in Batches
    BY <1>5 DEF StartBatch, JobsNamed, Producing
  <2>2. new \in Batch
    BY <2>1, Counted DEF Statuses
  <2>3. batch' = [batch EXCEPT ![b] = new]
    BY <1>5, <2>1 DEF StartBatch
  <2>4. batch' \in [Batches -> Batch]
    BY <2>2, <2>3
  <2>. QED  BY <1>4, <1>5, <2>4 DEF StartBatch
<1>6. CASE LockProduct(s)
  BY <1>6 DEF LockProduct, batchVars
<1>7. ASSUME NEW y \in 0..MaxYield, CompleteBatch(s, y)
      PROVE  Typed
  <2>. DEFINE b == job[s].batch
              new == [batch[b] EXCEPT !.status = "completed", !.yielded = @ + 1]
  <2>1. b \in Batches
    BY <1>7 DEF CompleteBatch, JobsNamed, Producing
  <2>2. new \in Batch
    BY <2>1, Counted DEF Statuses
  <2>3. batch' = [batch EXCEPT ![b] = new]
    BY <1>7, <2>1 DEF CompleteBatch
  <2>4. batch' \in [Batches -> Batch]
    BY <2>2, <2>3
  <2>. QED  BY <1>4, <1>7, <2>4 DEF CompleteBatch
<1>8. CASE cancel_or_fail_batch(s)
  <2>1. job[s].target \in Statuses
    BY <1>8 DEF cancel_or_fail_batch, JobsNamed, Producing
  <2>2. \A b \in Batches : [batch[b] EXCEPT !.status = job[s].target] \in Batch
    BY <2>1, Counted
  <2>3. batch' \in [Batches -> Batch]
    BY <1>8, <2>2 DEF cancel_or_fail_batch
  <2>. QED  BY <1>4, <1>8, <2>3 DEF cancel_or_fail_batch
<1>9. CASE FailBatch(s)
  BY <1>4, <1>9 DEF FailBatch
<1>. QED  BY <1>1, <1>2, <1>3, <1>5, <1>6, <1>7, <1>8, <1>9
          DEF BatchHandler, BeginStart, BeginComplete, BeginStatus, Producing

LEMMA BatchStepNamed ==
  ASSUME TypeOK, BatchTypeOK, JobsNamed, NEW s \in ApiSessions, BatchHandler(s)
  PROVE  JobsNamed'
<1>. USE DEF TypeOK, RowsTypeOK, BatchTypeOK, JobsNamed, Producing, Run
<1>1. ASSUME NEW b \in Batches, CreateBatch(s, b)
      PROVE  JobsNamed'
  BY <1>1 DEF CreateBatch, rowVars
<1>2. ASSUME NEW b \in Batches, NEW h \in Producing, NEW target, BeginJob(s, h, b, target),
             h = "start" => target = "in_progress", h = "complete" <=> target = "completed"
      PROVE  JobsNamed'
  BY <1>2, BeginsNamed DEF BeginJob
<1>3. CASE LockComponent(s)
  BY <1>3 DEF LockComponent, Job
<1>4. CASE FinishJob(s)
  BY <1>4 DEF FinishJob, NoJob
<1>5. CASE LockProduct(s)
  BY <1>5 DEF LockProduct, batchVars
<1>6. ASSUME NEW b \in Batches, BeginStart(s, b)
      PROVE  JobsNamed'
  BY <1>2, <1>6 DEF BeginStart
<1>7. ASSUME NEW b \in Batches, BeginComplete(s, b)
      PROVE  JobsNamed'
  BY <1>2, <1>7 DEF BeginComplete
<1>8. ASSUME NEW b \in Batches, NEW target \in Statuses, BeginStatus(s, b, target)
      PROVE  JobsNamed'
  BY <1>2, <1>8 DEF BeginStatus
<1>. QED  BY <1>1, <1>3, <1>4, <1>5, <1>6, <1>7, <1>8
          DEF BatchHandler, StartBatch, CompleteBatch, cancel_or_fail_batch, FailBatch

-----------------------------------------------------------------------------
(* A step of a reservation, an adjustment or a transfer in the plant.        *)

LEMMA NoneBeginsProducing ==
  ASSUME TypeOK, [Next]_vars
  PROVE  \A s \in Sessions : handler'[s] \in Producing \/ handler[s] \in Producing =>
           handler'[s] = handler[s]
<1>. DEFINE Kept == \A s \in Sessions : handler'[s] \in Producing \/ handler[s] \in Producing =>
                      handler'[s] = handler[s]
<1>. USE DEF TypeOK, RowsTypeOK, Producing, Run, Finish, Idle
<1>1. ASSUME NEW s \in ApiSessions, ReservationApi(s)
      PROVE  Kept
  <2>1. ASSUME NEW row \in Rows, NEW r \in Reservations, BeginCreate(s, row, r)
        PROVE  Kept
    BY <2>1 DEF BeginCreate
  <2>2. ASSUME NEW r \in Reservations, NEW q \in Quantities, CreateReservation(s, r, q)
        PROVE  Kept
    BY <2>2 DEF CreateReservation
  <2>3. CASE RejectCreate(s) \/ ScheduleRelease(s)
    BY <2>3 DEF RejectCreate, ScheduleRelease
  <2>4. ASSUME NEW r \in Reservations, BeginConfirm(s, r) \/ BeginRelease(s, r)
        PROVE  Kept
    BY <2>4 DEF BeginConfirm, BeginRelease, Begin
  <2>5. ASSUME NEW r \in Reservations, ConfirmReservation(s, r)
        PROVE  Kept
    BY <2>5 DEF ConfirmReservation
  <2>. QED  BY <1>1, <2>1, <2>2, <2>3, <2>4, <2>5 DEF ReservationApi
<1>2. ASSUME NEW s \in WorkerSessions, ReservationWorker(s)
      PROVE  Kept
  BY <1>2 DEF ReservationWorker, BeginReleaseTask, SkipReleaseTask, BeginSweep, Begin, rowVars
<1>3. ASSUME NEW s \in Sessions, ReservationEither(s)
      PROVE  Kept
  <2>. USE DEF Settling, Releasing
  <2>1. ASSUME NEW r \in Reservations, LockStock(s, r) \/ ReleaseReservation(s, r)
        PROVE  Kept
    BY <2>1 DEF LockStock, ReleaseReservation
  <2>2. CASE FailReservation(s)
    BY <2>2 DEF FailReservation
  <2>. QED  BY <1>3, <2>1, <2>2 DEF ReservationEither
<1>4. ASSUME NEW r \in Reservations, Expire(r) \/ LoseTimer(r)
      PROVE  Kept
  BY <1>4 DEF Expire, LoseTimer, rowVars
<1>5. CASE WarehouseNext /\ UNCHANGED reservationVars
  BY <1>5, WarehouseStepOwner DEF OthersKept, WarehouseHandlers
<1>6. CASE UNCHANGED vars
  BY <1>6 DEF vars, rowVars
<1>. QED  BY <1>1, <1>2, <1>3, <1>4, <1>5, <1>6 DEF Next, ReservationNext

-----------------------------------------------------------------------------
(* The inductive invariant of PlantSpec.                                     *)

PlantIInv == IInv /\ BatchTypeOK /\ JobsNamed /\ CompletedYields

LEMMA InitPlantIInv == PlantInit => PlantIInv
<1>. SUFFICES ASSUME PlantInit
              PROVE  PlantIInv
  OBVIOUS
<1>1. IInv
  BY InitIInv DEF PlantInit
<1>2. BatchTypeOK
  BY DEF PlantInit, BatchInit, BatchTypeOK, Batch, Job, NoJob
<1>3. JobsNamed
  BY DEF PlantInit, Init, RowsInit, JobsNamed, Producing
<1>4. CompletedYields
  BY DEF PlantInit, BatchInit, CompletedYields
<1>. QED  BY <1>1, <1>2, <1>3, <1>4 DEF PlantIInv

LEMMA BatchStepIInv ==
  ASSUME PlantIInv, NEW s \in ApiSessions, BatchHandler(s), UNCHANGED <<reservationVars, route>>
  PROVE  IInv'
<1>. USE DEF PlantIInv, IInv, SessionInv
<1>1. RowStep
  BY BatchRowStep
<1>2. RowsTyped
  BY DEF TypeOK, RowsTypeOK, RowsTyped
<1>3. TypeOK'
  <2>1. RowsTyped'
    BY <1>1, <1>2, RowStepType
  <2>2. handler' \in [Sessions -> Handlers]
    BY BatchStepTyped
  <2>. QED  BY <2>1, <2>2 DEF TypeOK, RowsTypeOK, RowsTyped, ReservationTypeOK, WarehouseTypeOK,
                              reservationVars
<1>4. Exclusion' /\ FreshCopies' /\ Balanced'
  BY <1>1, <1>2, RowStepExclusion, RowStepFresh, RowStepBalanced
<1>5. ProducerStep(s)
  BY BatchStepOwner
<1>6. TransferHoldsSource'
  BY <1>5 DEF ProducerStep, Producing, TransferHoldsSource
<1>7. RowsOfReservations'
  BY DEF RowsOfReservations, reservationVars
<1>8. SettlesExisting'
  BY <1>5 DEF ProducerStep, Producing, SettlesExisting, Settling, Releasing, reservationVars
<1>9. CreatesFresh'
  BY <1>5 DEF ProducerStep, Producing, CreatesFresh, reservationVars
<1>. QED  BY <1>3, <1>4, <1>6, <1>7, <1>8, <1>9

\* Only complete_batch completes a batch, and it credits the product with it.
LEMMA BatchStepYields ==
  ASSUME BatchTypeOK, JobsNamed, CompletedYields, NEW s \in ApiSessions, BatchHandler(s)
  PROVE  CompletedYields'
<1>. USE DEF BatchTypeOK, CompletedYields
<1>1. ASSUME NEW b \in Batches, CreateBatch(s, b)
      PROVE  CompletedYields'
  BY <1>1 DEF CreateBatch, Batch
<1>2. CASE UNCHANGED batch
  BY <1>2
<1>3. CASE StartBatch(s)
  BY <1>3 DEF StartBatch, Batch
<1>4. ASSUME NEW y \in 0..MaxYield, CompleteBatch(s, y)
      PROVE  CompletedYields'
  BY <1>4 DEF CompleteBatch, Batch
<1>5. CASE cancel_or_fail_batch(s)
  <2>1. job[s].target # "completed"
    BY <1>5 DEF cancel_or_fail_batch, JobsNamed, Producing
  <2>. QED  BY <1>5, <2>1 DEF cancel_or_fail_batch, Batch
<1>. QED  BY <1>1, <1>2, <1>3, <1>4, <1>5
          DEF BatchHandler, BeginStart, BeginComplete, BeginStatus, BeginJob, LockComponent,
              LockProduct, FailBatch, batchVars

LEMMA NextPlantIInv == PlantIInv /\ [PlantNext]_plantVars => PlantIInv'
<1>. SUFFICES ASSUME PlantIInv, [PlantNext]_plantVars
              PROVE  PlantIInv'
  OBVIOUS
<1>1. CASE [Next]_vars /\ UNCHANGED batchVars
  <2>1. IInv'
    BY <1>1, NextIInv DEF PlantIInv
  <2>2. JobsNamed'
    BY <1>1, NoneBeginsProducing DEF PlantIInv, IInv, JobsNamed, batchVars
  <2>3. BatchTypeOK' /\ CompletedYields'
    BY <1>1 DEF PlantIInv, BatchTypeOK, CompletedYields, batchVars
  <2>. QED  BY <2>1, <2>2, <2>3 DEF PlantIInv
<1>2. CASE BatchNext /\ UNCHANGED <<reservationVars, route>>
  <2>. PICK s \in ApiSessions : BatchHandler(s)
    BY <1>2 DEF BatchNext
  <2>1. IInv'
    BY <1>2, BatchStepIInv
  <2>2. BatchTypeOK' /\ JobsNamed' /\ CompletedYields'
    BY BatchStepTyped, BatchStepNamed, BatchStepYields DEF PlantIInv, IInv
  <2>. QED  BY <2>1, <2>2 DEF PlantIInv
<1>. QED  BY <1>1, <1>2 DEF PlantNext, PlantStep, plantVars

\* In every behaviour of the whole service, with batches, transfers and
\* reservations over the same rows, the inductive invariant holds.
THEOREM PlantInvariant == PlantSpec => []PlantIInv
BY InitPlantIInv, NextPlantIInv, PTL DEF PlantSpec

\* Every unit on hand is explained by the movement log, a row lock is never
\* shared and what a transaction read under it stays true, although batches,
\* transfers and reservations write the same rows.
THEOREM PlantRowsConsistent == PlantSpec => []RowsConsistent
<1>1. PlantIInv => RowsConsistent
  BY DEF PlantIInv, IInv, SessionInv, RowsConsistent, PlantTypeOK
<1>. QED  BY <1>1, PlantInvariant, PTL

\* A batch reported completed has credited its product, however many requests
\* for the batch were under way.
THEOREM CompletedHasYielded == PlantSpec => []CompletedYields
BY PlantInvariant, PTL DEF PlantIInv

-----------------------------------------------------------------------------
(* Batches without rivals: what production promises.                        *)

LEMMA RivalsKnown ==
  ASSUME TypeOK, BatchTypeOK, RivalsMet, NEW s \in ApiSessions, BatchHandler(s)
  PROVE  RivalsMet' /\ rivals \subseteq rivals'
<1>1. \A t \in Sessions \ {s} : job'[t] = job[t]
  BY BatchStepOwner DEF ProducerStep
<1>2. job \in [Sessions -> Job]
  BY DEF BatchTypeOK
\* The session takes a batch, keeps the one it has, or has none.
<1>3. \/ /\ rivals' = rivals
         /\ job'[s].batch \in {job[s].batch, NoBatch}
      \/ \E b \in Batches :
           /\ job'[s].batch = b
           /\ rivals' = IF \E t \in Sessions : job[t].batch = b THEN rivals \cup {b} ELSE rivals
  <2>1. ASSUME NEW b \in Batches, NEW h, NEW target, BeginJob(s, h, b, target)
        PROVE  /\ job'[s].batch = b
               /\ rivals' = IF \E t \in Sessions : job[t].batch = b THEN rivals \cup {b} ELSE rivals
    BY <1>2, <2>1 DEF BeginJob
  <2>2. CASE FinishJob(s)
    BY <1>2, <2>2 DEF FinishJob, NoJob
  <2>3. CASE LockComponent(s)
    BY <1>2, <2>3 DEF LockComponent, Job
  <2>4. CASE LockProduct(s) \/ \E b \in Batches : CreateBatch(s, b)
    BY <2>4 DEF LockProduct, CreateBatch, batchVars
  <2>. QED  BY <2>1, <2>2, <2>3, <2>4
            DEF BatchHandler, BeginStart, BeginComplete, BeginStatus,
                StartBatch, CompleteBatch, cancel_or_fail_batch, FailBatch
<1>4. rivals \subseteq rivals'
  BY <1>3
<1>5. \A t \in Sessions \ {s} :
        job'[s].batch = job'[t].batch => job'[s].batch \in rivals' \cup {NoBatch}
  BY <1>1, <1>3 DEF RivalsMet
<1>6. \A t, u \in Sessions \ {s} :
        t # u /\ job'[t].batch = job'[u].batch => job'[t].batch \in rivals' \cup {NoBatch}
  BY <1>1, <1>4 DEF RivalsMet
<1>. QED  BY <1>4, <1>5, <1>6 DEF RivalsMet

\* The other requests are for other batches, which the step leaves as they are,
\* or for one of rivals.
LEMMA OthersAllowed ==
  ASSUME BatchTypeOK, HandlersTyped, JobsNamed, RivalsMet, ProducersAlone,
         NEW s \in Sessions, handler[s] \in Producing,
         \A t \in Sessions \ {s} : handler'[t] = handler[t] /\ job'[t] = job[t],
         handler'[s] \notin Producing, UNCHANGED rivals,
         \A b \in Batches \ {job[s].batch} : batch'[b] = batch[b]
  PROVE  ProducersAlone'
<1>. SUFFICES ASSUME NEW t \in Sessions, handler'[t] \in Producing, job'[t].batch \notin rivals
              PROVE  _assert_transition(job[t].batch, job[t].target)'
  BY DEF ProducersAlone
<1>1. t # s /\ handler[t] \in Producing /\ job'[t] = job[t]
  OBVIOUS
<1>2. job[t].batch \in Batches /\ job[s].batch \in Batches
  BY <1>1 DEF JobsNamed
<1>3. job[t].batch # job[s].batch
  BY <1>1, <1>2, BatchAssumption DEF RivalsMet
<1>4. batch'[job[t].batch] = batch[job[t].batch]
  BY <1>2, <1>3
<1>5. _assert_transition(job[t].batch, job[t].target)
  BY <1>1 DEF ProducersAlone
<1>. QED  BY <1>1, <1>4, <1>5 DEF _assert_transition

\* A request that begins, and one that goes on, leaves every status as it is.
LEMMA StatusesKept ==
  ASSUME ProducersAlone, UNCHANGED batch, rivals \subseteq rivals',
         \A t \in Sessions : handler'[t] \in Producing =>
           \/ handler[t] \in Producing /\ job'[t].batch = job[t].batch
                                       /\ job'[t].target = job[t].target
           \/ _assert_transition(job'[t].batch, job'[t].target)
  PROVE  ProducersAlone'
  BY DEF ProducersAlone, _assert_transition

LEMMA OnceBatchStep ==
  ASSUME TypeOK, BatchTypeOK, JobsNamed, RivalsMet, ProducersAlone, ConsumesOnce,
         NEW s \in ApiSessions, BatchHandler(s)
  PROVE  ProducersAlone' /\ ConsumesOnce'
<1>0. rivals \subseteq rivals'
  BY RivalsKnown
<1>1. \A t \in Sessions \ {s} : handler'[t] = handler[t] /\ job'[t] = job[t]
  BY BatchStepOwner DEF ProducerStep
<1>2. handler \in [Sessions -> Handlers] /\ batch \in [Batches -> Batch] /\ job \in [Sessions -> Job]
  BY DEF TypeOK, RowsTypeOK, BatchTypeOK
<1>3. ASSUME UNCHANGED batch
      PROVE  ConsumesOnce'
  BY <1>0, <1>3 DEF ConsumesOnce
<1>4. ASSUME NEW b \in Batches, CreateBatch(s, b)
      PROVE  ProducersAlone' /\ ConsumesOnce'
  <2>1. batch[b].status = "absent" /\ batch' = [batch EXCEPT ![b].status = "planned"]
    BY <1>4 DEF CreateBatch
  <2>2. ConsumesOnce'
    BY <1>0, <1>2, <2>1 DEF ConsumesOnce, Batch
  <2>3. ASSUME NEW t \in Sessions, handler'[t] \in Producing, job'[t].batch \notin rivals'
        PROVE  _assert_transition(job[t].batch, job[t].target)'
    <3>1. handler[t] \in Producing /\ job'[t] = job[t] /\ job[t].batch \notin rivals
      BY <1>4, <2>3 DEF CreateBatch, rowVars
    <3>2. _assert_transition(job[t].batch, job[t].target) /\ job[t].batch \in Batches
      BY <3>1 DEF ProducersAlone, JobsNamed
    <3>3. job[t].batch # b
      BY <2>1, <3>2, AllowedTransition
    <3>4. batch'[job[t].batch] = batch[job[t].batch]
      BY <1>2, <2>1, <3>2, <3>3
    <3>. QED  BY <3>1, <3>2, <3>4 DEF _assert_transition
  <2>. QED  BY <2>2, <2>3 DEF ProducersAlone
<1>5. ASSUME NEW b \in Batches, NEW h, NEW target, BeginJob(s, h, b, target)
      PROVE  ProducersAlone' /\ ConsumesOnce'
  <2>1. job'[s].batch = b /\ job'[s].target = target /\ UNCHANGED batch
    BY <1>2, <1>5 DEF BeginJob
  <2>2. _assert_transition(job'[s].batch, job'[s].target)
    BY <1>5, <2>1 DEF BeginJob
  <2>3. ProducersAlone'
    BY <1>0, <1>1, <2>1, <2>2, StatusesKept
  <2>. QED  BY <1>3, <2>1, <2>3
<1>6. CASE LockComponent(s)
  <2>1. job'[s].batch = job[s].batch /\ job'[s].target = job[s].target
    BY <1>2, <1>6 DEF LockComponent, Job
  <2>2. handler[s] \in Producing /\ UNCHANGED batch
    BY <1>6 DEF LockComponent, LinesLeft, Producing
  <2>3. ProducersAlone'
    BY <1>0, <1>1, <2>1, <2>2, StatusesKept
  <2>. QED  BY <1>3, <2>2, <2>3
<1>7. CASE LockProduct(s)
  BY <1>0, <1>3, <1>7, StatusesKept DEF LockProduct, batchVars
\* A request ends.
<1>8. ASSUME handler[s] \in Producing, FinishJob(s),
             \A b \in Batches \ {job[s].batch} : batch'[b] = batch[b]
      PROVE  ProducersAlone'
  <2>1. handler'[s] \notin Producing /\ UNCHANGED rivals
    BY <1>2, <1>8 DEF FinishJob, Run, Producing
  <2>2. HandlersTyped
    BY DEF TypeOK, RowsTypeOK, HandlersTyped
  <2>. QED  BY <1>1, <1>8, <2>1, <2>2, OthersAllowed
\* And if it had no rival, it changed its own batch as the transitions allow.
<1>9. ASSUME handler[s] \in Producing, FinishJob(s),
             \A b \in Batches \ {job[s].batch} : batch'[b] = batch[b],
             job[s].batch \notin rivals =>
               LET new == batch'[job[s].batch]
               IN  /\ new.consumed <= 1 /\ new.yielded <= 1
                   /\ new.consumed = 1 => new.status \notin {"absent", "planned"}
                   /\ new.yielded = 1 => new.status = "completed"
      PROVE  ConsumesOnce'
  BY <1>9 DEF FinishJob, ConsumesOnce
<1>10. CASE FailBatch(s)
  BY <1>3, <1>8, <1>10 DEF FailBatch, Producing
<1>11. ASSUME handler[s] \in Producing
       PROVE  job[s].batch \in Batches /\ job[s].target \in Statuses
  BY <1>11 DEF JobsNamed
<1>12. ASSUME handler[s] \in Producing, job[s].batch \notin rivals
       PROVE  LET old == batch[job[s].batch]
              IN  /\ \/ old.status = "planned" /\ job[s].target \in {"in_progress", "cancelled"}
                     \/ old.status = "in_progress"
                          /\ job[s].target \in {"completed", "failed", "cancelled"}
                  /\ old.yielded = 0 /\ old.consumed \in 0..1
                  /\ old.status = "planned" => old.consumed = 0
  <2>1. _assert_transition(job[s].batch, job[s].target) /\ job[s].batch \in Batches
    BY <1>11, <1>12 DEF ProducersAlone
  <2>2. batch[job[s].batch] \in Batch
    BY <1>2, <2>1
  <2>. QED  BY <1>12, <2>1, <2>2, AllowedTransition DEF ConsumesOnce, Batch
<1>13. CASE StartBatch(s)
  <2>. DEFINE b == job[s].batch
  <2>1. handler[s] \in Producing /\ FinishJob(s) /\ job[s].target = "in_progress"
    BY <1>13 DEF StartBatch, Producing, JobsNamed
  <2>2. batch' = [batch EXCEPT ![b].status = "in_progress", ![b].consumed = @ + 1]
    BY <1>13 DEF StartBatch
  <2>3. \A c \in Batches \ {b} : batch'[c] = batch[c]
    BY <1>2, <2>2
  <2>4. ASSUME b \notin rivals
        PROVE  batch'[b].status = "in_progress" /\ batch'[b].consumed = 1 /\ batch'[b].yielded = 0
    BY <1>2, <1>11, <1>12, <2>1, <2>2, <2>4 DEF Batch
  <2>. QED  BY <1>8, <1>9, <2>1, <2>3, <2>4
<1>14. ASSUME NEW y \in 0..MaxYield, CompleteBatch(s, y)
       PROVE  ProducersAlone' /\ ConsumesOnce'
  <2>. DEFINE b == job[s].batch
  <2>1. handler[s] \in Producing /\ FinishJob(s) /\ job[s].target = "completed"
    BY <1>14 DEF CompleteBatch, Producing, JobsNamed
  <2>2. batch' = [batch EXCEPT ![b].status = "completed", ![b].yielded = @ + 1]
    BY <1>14 DEF CompleteBatch
  <2>3. \A c \in Batches \ {b} : batch'[c] = batch[c]
    BY <1>2, <2>2
  <2>4. ASSUME b \notin rivals
        PROVE  /\ batch'[b].status = "completed" /\ batch'[b].yielded = 1
               /\ batch'[b].consumed \in 0..1
    BY <1>2, <1>11, <1>12, <2>1, <2>2, <2>4 DEF Batch
  <2>. QED  BY <1>8, <1>9, <2>1, <2>3, <2>4
<1>15. CASE cancel_or_fail_batch(s)
  <2>. DEFINE b == job[s].batch
  <2>1. handler[s] \in Producing /\ FinishJob(s)
    BY <1>15 DEF cancel_or_fail_batch, Producing
  <2>2. batch' = [batch EXCEPT ![b].status = job[s].target]
    BY <1>15 DEF cancel_or_fail_batch
  <2>3. \A c \in Batches \ {b} : batch'[c] = batch[c]
    BY <1>2, <2>2
  <2>4. ASSUME b \notin rivals
        PROVE  /\ batch'[b].status \in {"in_progress", "completed", "failed", "cancelled"}
               /\ batch'[b].yielded = 0 /\ batch'[b].consumed \in 0..1
    BY <1>2, <1>11, <1>12, <2>1, <2>2, <2>4 DEF Batch
  <2>. QED  BY <1>8, <1>9, <2>1, <2>3, <2>4
<1>. QED
  BY <1>4, <1>5, <1>6, <1>7, <1>10, <1>13, <1>14, <1>15
  DEF BatchHandler, BeginStart, BeginComplete, BeginStatus

OnceIInv == PlantIInv /\ RivalsMet /\ ProducersAlone /\ ConsumesOnce

LEMMA InitOnceIInv == PlantInit => OnceIInv
<1>. SUFFICES ASSUME PlantInit
              PROVE  OnceIInv
  OBVIOUS
<1>1. RivalsMet
  BY DEF PlantInit, BatchInit, RivalsMet, NoJob
<1>2. ProducersAlone
  <2>1. \A s \in Sessions : handler[s] \notin Producing
    BY DEF PlantInit, Init, RowsInit, Producing
  <2>. QED  BY <2>1 DEF ProducersAlone
<1>3. ConsumesOnce
  BY DEF PlantInit, BatchInit, ConsumesOnce
<1>. QED  BY <1>1, <1>2, <1>3, InitPlantIInv DEF OnceIInv

LEMMA NextOnceIInv == OnceIInv /\ [PlantNext]_plantVars => OnceIInv'
<1>. SUFFICES ASSUME OnceIInv, [PlantNext]_plantVars
              PROVE  OnceIInv'
  OBVIOUS
<1>. USE DEF OnceIInv, PlantIInv, IInv
<1>1. PlantIInv'
  BY NextPlantIInv
<1>2. CASE [Next]_vars /\ UNCHANGED batchVars
  <2>1. \A t \in Sessions : handler'[t] \in Producing => handler[t] \in Producing
    BY <1>2, NoneBeginsProducing
  <2>2. UNCHANGED <<batch, job, rivals>>
    BY <1>2 DEF batchVars
  <2>3. ProducersAlone'
    BY <2>1, <2>2, StatusesKept
  <2>4. RivalsMet' /\ ConsumesOnce'
    BY <2>2 DEF RivalsMet, ConsumesOnce
  <2>. QED  BY <1>1, <2>3, <2>4
<1>3. CASE BatchNext
  BY <1>1, <1>3, RivalsKnown, OnceBatchStep DEF BatchNext
<1>. QED  BY <1>2, <1>3 DEF PlantNext, PlantStep, plantVars

\* Of a batch for which no two requests were under way at one time the log has
\* one consumption and one yield at most, and the consumption is that of a batch
\* that was started (batch_service.py:72-172).
THEOREM BatchesConsumeOnce == PlantSpec => []ConsumesOnce
BY InitOnceIInv, NextOnceIInv, PTL DEF PlantSpec, OnceIInv
=============================================================================
