------------------------------ MODULE HoldProofs ------------------------------
(***************************************************************************)
(* Proofs about what the reservations hold of the stock: in any             *)
(* interleaving no unit stays reserved for nobody, and if no two sessions   *)
(* settle one reservation at a time the reserved units are exactly those of *)
(* the active reservations, stock is never oversold, a settled reservation  *)
(* is final, and the tables implement HoldLedger.                           *)
(***************************************************************************)
EXTENDS InventoryProofs

USE DEF Sessions

-----------------------------------------------------------------------------
(* Counting the units that reservations hold.                                *)

UnitsOf(r, q) == {r} \X (1..q)

LEMMA UnitsCount ==
  ASSUME NEW r, NEW q \in Nat
  PROVE  IsFiniteSet(UnitsOf(r, q)) /\ Cardinality(UnitsOf(r, q)) = q
<1>1. IsFiniteSet({r}) /\ Cardinality({r}) = 1
  BY FS_Singleton
<1>2. IsFiniteSet(1..q) /\ Cardinality(1..q) = q
  BY FS_Interval
<1>3. /\ IsFiniteSet({r} \X (1..q))
      /\ Cardinality({r} \X (1..q)) = Cardinality({r}) * Cardinality(1..q)
  BY <1>1, <1>2, FS_Product
<1>4. Cardinality({r}) * Cardinality(1..q) = q
  BY <1>1, <1>2
<1>. QED  BY <1>3, <1>4 DEF UnitsOf

LEMMA HeldUnitsFinite ==
  ASSUME NEW row
  PROVE  /\ IsFiniteSet(HeldUnits(row)) /\ Reserved(row) \in Nat
         /\ Reserved(row)' \in Nat
<1>1. IsFiniteSet(Quantities)
  BY ReservationsAssumption, FS_Interval DEF Quantities
<1>2. IsFiniteSet(Reservations \X Quantities)
  BY <1>1, ReservationsAssumption, FS_Product
<1>3. /\ HeldUnits(row) \in SUBSET (Reservations \X Quantities)
      /\ HeldUnits(row)' \in SUBSET (Reservations \X Quantities)
  BY DEF HeldUnits
<1>4. IsFiniteSet(HeldUnits(row)) /\ IsFiniteSet(HeldUnits(row)')
  BY <1>2, <1>3, FS_Subset
<1>5. Cardinality(HeldUnits(row)') \in Nat
  BY <1>4, FS_CardinalityType
<1>. QED  BY <1>4, <1>5, FS_CardinalityType DEF Reserved

\* Reservations that are active, where and for how much, before and after.
LEMMA CreatedReserved ==
  ASSUME TypeOK, NEW r \in Reservations, NEW row \in Rows, NEW q \in Quantities,
         reservation[r] = Absent, Created(r, row, q), NEW x \in Rows
  PROVE  Reserved(x)' = Reserved(x) + (IF x = row THEN q ELSE 0)
<1>. USE DEF TypeOK, ReservationTypeOK, Created, HeldUnits, Active
<1>0. q \in Nat
  BY ReservationsAssumption DEF Quantities
<1>1. CASE x = row
  <2>1. HeldUnits(x)' = HeldUnits(x) \cup UnitsOf(r, q)
    <3>1. \A u \in Reservations \X Quantities :
            u \in HeldUnits(x)' <=> u \in HeldUnits(x) \/ u \in UnitsOf(r, q)
      BY <1>1, ReservationsAssumption DEF UnitsOf, Quantities, Absent
    <3>2. UnitsOf(r, q) \subseteq Reservations \X Quantities
      BY ReservationsAssumption DEF UnitsOf, Quantities
    <3>. QED  BY <3>1, <3>2
  <2>2. HeldUnits(x) \cap UnitsOf(r, q) = {}
    BY DEF UnitsOf, Absent
  <2>3. IsFiniteSet(HeldUnits(x)) /\ Cardinality(HeldUnits(x)) \in Nat
    <3>1. IsFiniteSet(HeldUnits(x))
      BY HeldUnitsFinite
    <3>. QED  BY <3>1, FS_CardinalityType
  <2>4. IsFiniteSet(UnitsOf(r, q)) /\ Cardinality(UnitsOf(r, q)) = q
    BY <1>0, UnitsCount
  <2>. HIDE DEF HeldUnits, Created
  <2>5. Cardinality(HeldUnits(x) \cup UnitsOf(r, q))
          = Cardinality(HeldUnits(x)) + q - Cardinality({})
    BY <2>2, <2>3, <2>4, FS_Union
  <2>. QED  BY <1>0, <1>1, <2>1, <2>3, <2>5, FS_EmptySet DEF Reserved
<1>2. CASE x # row
  <2>1. HeldUnits(x)' = HeldUnits(x)
    BY <1>2 DEF Absent
  <2>2. Reserved(x) \in Nat
    BY HeldUnitsFinite
  <2>. HIDE DEF HeldUnits
  <2>. QED  BY <1>2, <2>1, <2>2 DEF Reserved
<1>. QED  BY <1>1, <1>2

LEMMA SettledReserved ==
  ASSUME TypeOK, NEW r \in Reservations, Active(r), Settled(r), NEW x \in Rows
  PROVE  /\ Reserved(x)' = Reserved(x)
                - (IF x = reservation[r].row THEN reservation[r].quantity ELSE 0)
         /\ x = reservation[r].row => reservation[r].quantity <= Reserved(x)
<1>. DEFINE q == reservation[r].quantity
<1>. USE DEF TypeOK, ReservationTypeOK, Settled, SetStatus, HeldUnits, Active
<1>0. q \in Nat /\ q <= MaxQuantity
  BY ReservationsAssumption DEF Reservation
<1>1. CASE x = reservation[r].row
  <2>1. HeldUnits(x)' = HeldUnits(x) \ UnitsOf(r, q)
    <3>1. \A u \in Reservations \X Quantities :
            u \in HeldUnits(x)' <=> u \in HeldUnits(x) /\ u \notin UnitsOf(r, q)
      BY <1>0, <1>1, ReservationsAssumption DEF UnitsOf, Quantities
    <3>. QED  BY <3>1
  <2>2. HeldUnits(x) \cap UnitsOf(r, q) = UnitsOf(r, q)
    BY <1>0, <1>1, ReservationsAssumption DEF UnitsOf, Quantities
  <2>3. IsFiniteSet(HeldUnits(x)) /\ Cardinality(HeldUnits(x)) \in Nat
    <3>1. IsFiniteSet(HeldUnits(x))
      BY HeldUnitsFinite
    <3>. QED  BY <3>1, FS_CardinalityType
  <2>4. Cardinality(UnitsOf(r, q)) = q
    BY <1>0, UnitsCount
  <2>. HIDE DEF HeldUnits, Settled
  <2>5. Cardinality(HeldUnits(x) \ UnitsOf(r, q)) = Cardinality(HeldUnits(x)) - q
    <3>1. Cardinality(HeldUnits(x) \ UnitsOf(r, q))
            = Cardinality(HeldUnits(x)) - Cardinality(HeldUnits(x) \cap UnitsOf(r, q))
      BY <2>3, FS_Difference
    <3>. QED  BY <2>2, <2>4, <3>1
  <2>6. q <= Cardinality(HeldUnits(x))
    BY <2>2, <2>3, <2>4, FS_Intersection
  <2>. QED  BY <1>0, <1>1, <2>1, <2>3, <2>5, <2>6 DEF Reserved
<1>2. CASE x # reservation[r].row
  <2>1. HeldUnits(x)' = HeldUnits(x)
    BY <1>2
  <2>2. Reserved(x) \in Nat
    BY HeldUnitsFinite
  <2>. HIDE DEF HeldUnits
  <2>. QED  BY <1>2, <2>1, <2>2 DEF Reserved
<1>. QED  BY <1>1, <1>2

LEMMA OtherwiseReserved ==
  ASSUME TypeOK, NEW x \in Rows,
         \/ UNCHANGED reservation
         \/ \E r \in Reservations : Expire(r) \/ (~Active(r) /\ Settled(r))
  PROVE  Reserved(x)' = Reserved(x)
<1>. DEFINE Same(p) == /\ Active(p)' = Active(p)
                       /\ reservation'[p].row = reservation[p].row
                       /\ reservation'[p].quantity = reservation[p].quantity
<1>1. \A p \in Reservations : Same(p)
  <2>. USE DEF TypeOK, ReservationTypeOK, Reservation, Active
  <2>1. CASE UNCHANGED reservation
    BY <2>1
  <2>2. ASSUME NEW r \in Reservations, Expire(r), NEW p \in Reservations
        PROVE  Same(p)
    BY <2>2 DEF Expire
  <2>3. ASSUME NEW r \in Reservations, ~Active(r), Settled(r), NEW p \in Reservations
        PROVE  Same(p)
    BY <2>3 DEF Settled, SetStatus
  <2>. QED  BY <2>1, <2>2, <2>3
<1>2. HeldUnits(x)' = HeldUnits(x)
  BY <1>1 DEF HeldUnits
<1>. QED  BY <1>2 DEF Reserved

-----------------------------------------------------------------------------
(* What each handler's commit does to the rows.                              *)

\* The rows after a commit that adds dh units on hand and dr reserved ones.
RowsBecome(dh, dr) ==
  \A x \in Rows :
    /\ stock'[x].quantity_on_hand = stock[x].quantity_on_hand + dh[x]
    /\ stock'[x].quantity_reserved = stock[x].quantity_reserved + dr[x]

At(row, n) == [x \in Rows |-> IF x = row THEN n ELSE 0]

LEMMA CopyIsStock ==
  ASSUME IInv, NEW s \in Sessions, NEW row \in held[s]
  PROVE  row \in Rows /\ copy[s][row] = stock[row]
BY DEF IInv, TypeOK, RowsTypeOK, SessionInv, FreshCopies

LEMMA CreateEffect ==
  ASSUME IInv, NEW s \in Sessions, NEW r \in Reservations, NEW q \in Quantities,
         CreateReservation(s, r, q)
  PROVE  /\ reservation[r] = Absent
         /\ \E row \in Rows :
              /\ Created(r, row, q)
              /\ q <= quantity_available(stock[row])
              /\ RowsBecome(At(row, 0), At(row, q))
<1>1. reservation[r] = Absent
  BY DEF CreateReservation, IInv, SessionInv, CreatesFresh
<1>2. PICK row \in held[s] :
        /\ q <= quantity_available(copy[s][row])
        /\ Commit(s, [copy[s] EXCEPT ![row].quantity_reserved = @ + q], NoDelta)
        /\ Created(r, row, q)
  BY DEF CreateReservation, Created
<1>3. row \in Rows /\ copy[s][row] = stock[row] /\ q \in Int
  BY CopyIsStock DEF Quantities
<1>. DEFINE levels == [copy[s] EXCEPT ![row].quantity_reserved = copy[s][row].quantity_reserved + q]
<1>4. \A x \in Rows : levels[x] =
        IF x = row THEN [quantity_on_hand |-> copy[s][x].quantity_on_hand,
                         quantity_reserved |-> copy[s][row].quantity_reserved + q]
        ELSE copy[s][x]
  <2>1. copy[s] \in [Rows -> Level] /\ copy[s][row].quantity_reserved + q \in Int
    BY <1>3 DEF IInv, TypeOK, RowsTypeOK, Level
  <2>. QED  BY <1>3, <2>1, SetReserved
<1>5. ASSUME NEW x \in Rows
      PROVE  /\ stock'[x].quantity_on_hand = stock[x].quantity_on_hand + At(row, 0)[x]
             /\ stock'[x].quantity_reserved = stock[x].quantity_reserved + At(row, q)[x]
  <2>1. stock[x] \in Level
    BY DEF IInv, TypeOK, RowsTypeOK
  <2>2. CASE x \in held[s]
    <3>1. stock'[x] = levels[x] /\ copy[s][x] = stock[x]
      BY <1>2, <2>2, CopyIsStock DEF Commit
    <3>. QED  BY <1>3, <1>4, <2>1, <3>1 DEF At, Level
  <2>3. CASE x \notin held[s]
    BY <1>2, <1>3, <2>1, <2>3 DEF Commit, At, Level
  <2>. QED  BY <2>2, <2>3
<1>. QED  BY <1>1, <1>2, <1>3, <1>5 DEF RowsBecome

LEMMA ConfirmEffect ==
  ASSUME IInv, NEW s \in Sessions, NEW r \in Reservations, ConfirmReservation(s, r)
  PROVE  LET q == reservation[r].quantity
         IN  /\ reservation[r].row \in Rows
             /\ Settled(r)
             /\ RowsBecome(At(reservation[r].row, -q), At(reservation[r].row, -q))
<1>. DEFINE row == reservation[r].row
            q == reservation[r].quantity
            levels == [copy[s] EXCEPT ![row] =
                         [quantity_on_hand |-> @.quantity_on_hand - q,
                          quantity_reserved |-> @.quantity_reserved - q]]
<1>1. row \in held[s] /\ Commit(s, levels, [NoDelta EXCEPT ![row] = -q]) /\ Settled(r)
  BY DEF ConfirmReservation, Settled
<1>2. row \in Rows /\ copy[s][row] = stock[row] /\ q \in Int
  BY <1>1, CopyIsStock, ReservationsAssumption
     DEF IInv, TypeOK, ReservationTypeOK, Reservation
<1>3. ASSUME NEW x \in Rows
      PROVE  /\ stock'[x].quantity_on_hand = stock[x].quantity_on_hand + At(row, -q)[x]
             /\ stock'[x].quantity_reserved = stock[x].quantity_reserved + At(row, -q)[x]
  <2>1. stock[x] \in Level /\ copy[s] \in [Rows -> Level]
    BY DEF IInv, TypeOK, RowsTypeOK
  <2>2. CASE x \in held[s]
    <3>1. stock'[x] = levels[x] /\ copy[s][x] = stock[x]
      BY <1>1, <2>2, CopyIsStock DEF Commit
    <3>. QED  BY <1>2, <2>1, <3>1 DEF At, Level
  <2>3. CASE x \notin held[s]
    BY <1>1, <1>2, <2>1, <2>3 DEF Commit, At, Level
  <2>. QED  BY <2>2, <2>3
<1>. QED  BY <1>1, <1>2, <1>3 DEF RowsBecome

LEMMA ReleaseEffect ==
  ASSUME IInv, NEW s \in Sessions, NEW r \in Reservations, ReleaseReservation(s, r)
  PROVE  LET row == reservation[r].row
             q == reservation[r].quantity
         IN  /\ row \in Rows
             /\ Settled(r)
             /\ RowsBecome(At(row, 0), At(row, Floor0(stock[row].quantity_reserved - q)
                                                 - stock[row].quantity_reserved))
<1>. DEFINE row == reservation[r].row
            q == reservation[r].quantity
            kept == Floor0(copy[s][row].quantity_reserved - q)
            levels == [copy[s] EXCEPT ![row].quantity_reserved = kept]
<1>1. row \in held[s] /\ Commit(s, levels, NoDelta) /\ Settled(r)
  BY DEF ReleaseReservation, Settled
<1>2. row \in Rows /\ copy[s][row] = stock[row] /\ q \in Int
  BY <1>1, CopyIsStock, ReservationsAssumption
     DEF IInv, TypeOK, ReservationTypeOK, Reservation
<1>3. copy[s] \in [Rows -> Level] /\ kept \in Int
  BY <1>2 DEF IInv, TypeOK, RowsTypeOK, Level, Floor0
<1>. HIDE DEF kept
<1>4. \A x \in Rows : levels[x] =
        IF x = row THEN [quantity_on_hand |-> copy[s][x].quantity_on_hand,
                         quantity_reserved |-> kept]
        ELSE copy[s][x]
  BY <1>2, <1>3, SetReserved
<1>5. ASSUME NEW x \in Rows
      PROVE  /\ stock'[x].quantity_on_hand = stock[x].quantity_on_hand + At(row, 0)[x]
             /\ stock'[x].quantity_reserved =
                  stock[x].quantity_reserved + At(row, kept - stock[row].quantity_reserved)[x]
  <2>1. stock[x] \in Level /\ stock[row] \in Level
    BY <1>2 DEF IInv, TypeOK, RowsTypeOK
  <2>2. CASE x \in held[s]
    <3>1. stock'[x] = levels[x] /\ copy[s][x] = stock[x]
      BY <1>1, <2>2, CopyIsStock DEF Commit
    <3>. QED  BY <1>2, <1>3, <1>4, <2>1, <3>1 DEF At, Level
  <2>3. CASE x \notin held[s]
    BY <1>1, <1>2, <2>1, <2>3 DEF Commit, At, Level
  <2>. QED  BY <2>2, <2>3
<1>6. kept = Floor0(stock[row].quantity_reserved - q)
  BY <1>2 DEF kept
<1>. QED  BY <1>1, <1>2, <1>5, <1>6 DEF RowsBecome

\* Adjustments and transfers keep what is reserved, and take from a row no
\* unit that is.
SupplyOnly ==
  \A x \in Rows :
    /\ stock'[x].quantity_reserved = stock[x].quantity_reserved
    /\ \/ stock'[x].quantity_on_hand >= stock[x].quantity_on_hand
       \/ stock'[x].quantity_on_hand >= stock[x].quantity_reserved

LEMMA AdjustEffect ==
  ASSUME IInv, NEW s \in Sessions, NEW d \in -MaxDelta..MaxDelta, AdjustStock(s, d)
  PROVE  SupplyOnly
<1>1. PICK row \in held[s] :
        /\ copy[s][row].quantity_on_hand + d >= copy[s][row].quantity_reserved
        /\ Commit(s, [copy[s] EXCEPT ![row].quantity_on_hand =
                        copy[s][row].quantity_on_hand + d], LogOne(row, d))
  BY DEF AdjustStock
<1>2. row \in Rows /\ copy[s][row] = stock[row] /\ d \in Int
  BY CopyIsStock, WarehouseAssumption
<1>. DEFINE levels == [copy[s] EXCEPT ![row].quantity_on_hand = copy[s][row].quantity_on_hand + d]
<1>3. \A x \in Rows : levels[x] =
        IF x = row THEN [quantity_on_hand |-> copy[s][row].quantity_on_hand + d,
                         quantity_reserved |-> copy[s][x].quantity_reserved]
        ELSE copy[s][x]
  <2>1. copy[s] \in [Rows -> Level] /\ copy[s][row].quantity_on_hand + d \in Int
    BY <1>2 DEF IInv, TypeOK, RowsTypeOK, Level
  <2>. QED  BY <1>2, <2>1, SetOnHand
<1>. SUFFICES ASSUME NEW x \in Rows
              PROVE  /\ stock'[x].quantity_reserved = stock[x].quantity_reserved
                     /\ \/ stock'[x].quantity_on_hand >= stock[x].quantity_on_hand
                        \/ stock'[x].quantity_on_hand >= stock[x].quantity_reserved
  BY DEF SupplyOnly
<1>4. stock[x] \in Level
  BY DEF IInv, TypeOK, RowsTypeOK
<1>5. CASE x \in held[s]
  <2>1. stock'[x] = levels[x] /\ copy[s][x] = stock[x]
    BY <1>1, <1>5, CopyIsStock DEF Commit
  <2>. QED  BY <1>1, <1>2, <1>3, <1>4, <2>1 DEF Level
<1>6. CASE x \notin held[s]
  BY <1>1, <1>4, <1>6 DEF Commit, Level
<1>. QED  BY <1>5, <1>6

LEMMA TransferEffect ==
  ASSUME IInv, NEW s \in Sessions, NEW q \in TransferQuantities, TransferStock(s, q)
  PROVE  SupplyOnly
<1>. DEFINE from == route[s].from
            to == route[s].to
            levels == [copy[s] EXCEPT ![from].quantity_on_hand = @ - q,
                                      ![to].quantity_on_hand = @ + q]
            delta == [row \in Rows |-> LogOne(from, -q)[row] + LogOne(to, q)[row]]
<1>1. /\ to \in held[s] /\ Commit(s, levels, delta)
      /\ q <= quantity_available(copy[s][from])
  BY DEF TransferStock, Sendable
<1>2. from \in held[s] /\ from # to
  BY DEF TransferStock, IInv, SessionInv, TransferHoldsSource
<1>3. /\ from \in Rows /\ copy[s][from] = stock[from]
      /\ to \in Rows /\ copy[s][to] = stock[to]
      /\ q \in Nat
  BY <1>1, <1>2, CopyIsStock DEF TransferQuantities
<1>. SUFFICES ASSUME NEW x \in Rows
              PROVE  /\ stock'[x].quantity_reserved = stock[x].quantity_reserved
                     /\ \/ stock'[x].quantity_on_hand >= stock[x].quantity_on_hand
                        \/ stock'[x].quantity_on_hand >= stock[x].quantity_reserved
  BY DEF SupplyOnly
<1>4. stock[x] \in Level /\ copy[s] \in [Rows -> Level]
  BY DEF IInv, TypeOK, RowsTypeOK
<1>5. CASE x \in held[s]
  <2>1. stock'[x] = levels[x] /\ copy[s][x] = stock[x]
    BY <1>1, <1>5, CopyIsStock DEF Commit
  <2>2. CASE x = from
    BY <1>1, <1>2, <1>3, <1>4, <2>1, <2>2 DEF Level, quantity_available
  <2>3. CASE x = to
    BY <1>2, <1>3, <1>4, <2>1, <2>3 DEF Level
  <2>4. CASE x # from /\ x # to
    BY <1>3, <1>4, <2>1, <2>4 DEF Level
  <2>. QED  BY <2>2, <2>3, <2>4
<1>6. CASE x \notin held[s]
  BY <1>1, <1>4, <1>6 DEF Commit, Level
<1>. QED  BY <1>5, <1>6

LEMMA WarehouseEffect ==
  ASSUME IInv, WarehouseNext
  PROVE  SupplyOnly \/ UNCHANGED stock
<1>. PICK s \in ApiSessions : WarehouseHandler(s)
  BY DEF WarehouseNext
<1>1. ASSUME NEW d \in -MaxDelta..MaxDelta, AdjustStock(s, d)
      PROVE  SupplyOnly
  BY <1>1, AdjustEffect
<1>2. ASSUME NEW q \in TransferQuantities, TransferStock(s, q)
      PROVE  SupplyOnly
  BY <1>2, TransferEffect
<1>3. ASSUME \A d \in -MaxDelta..MaxDelta : ~AdjustStock(s, d),
             \A q \in TransferQuantities : ~TransferStock(s, q)
      PROVE  UNCHANGED stock
  BY <1>3 DEF WarehouseHandler, BeginAdjust, RejectAdjust, BeginTransfer, LockDestination,
              RejectTransfer, FailWarehouse, AbortDeadlockVictim, SelectForUpdate, Rollback
<1>. QED  BY <1>1, <1>2, <1>3

\* A step of a reservation handler that commits nothing.
QuietStep ==
  /\ UNCHANGED stock
  /\ UNCHANGED reservation \/ \E r \in Reservations : Expire(r)

LEMMA ReservationEffect ==
  ASSUME IInv, ReservationNext
  PROVE  \/ \E s \in Sessions, r \in Reservations, q \in Quantities : CreateReservation(s, r, q)
         \/ \E s \in Sessions, r \in Reservations : ConfirmReservation(s, r)
         \/ \E s \in Sessions, r \in Reservations : ReleaseReservation(s, r)
         \/ QuietStep
<1>1. ASSUME NEW s \in ApiSessions, ReservationApi(s),
             \A r \in Reservations, q \in Quantities : ~CreateReservation(s, r, q),
             \A r \in Reservations : ~ConfirmReservation(s, r)
      PROVE  QuietStep
  BY <1>1 DEF ReservationApi, BeginCreate, RejectCreate, ScheduleRelease, BeginConfirm,
              BeginRelease, Begin, SelectForUpdate, Rollback, QuietStep
<1>2. ASSUME NEW s \in WorkerSessions, ReservationWorker(s)
      PROVE  QuietStep
  BY <1>2 DEF ReservationWorker, BeginReleaseTask, SkipReleaseTask, BeginSweep, Begin,
              rowVars, QuietStep
<1>3. ASSUME NEW s \in Sessions, ReservationEither(s),
             \A r \in Reservations : ~ReleaseReservation(s, r)
      PROVE  QuietStep
  BY <1>3 DEF ReservationEither, LockStock, FailReservation, SelectForUpdate, Rollback, QuietStep
<1>4. ASSUME NEW r \in Reservations, Expire(r) \/ LoseTimer(r)
      PROVE  QuietStep
  BY <1>4 DEF Expire, LoseTimer, rowVars, QuietStep
<1>. QED  BY <1>1, <1>2, <1>3, <1>4 DEF ReservationNext

-----------------------------------------------------------------------------
(* In any interleaving, no unit is reserved for nobody.                      *)

LEMMA NoPhantomHoldKept ==
  ASSUME IInv, NoPhantomHold, [Next]_vars
  PROVE  NoPhantomHold'
<1>. SUFFICES ASSUME NEW x \in Rows
              PROVE  stock'[x].quantity_reserved <= Reserved(x)'
  BY DEF NoPhantomHold
<1>0. /\ TypeOK /\ stock[x] \in Level /\ stock[x].quantity_reserved <= Reserved(x)
      /\ Reserved(x) \in Nat
  BY HeldUnitsFinite DEF IInv, TypeOK, RowsTypeOK, NoPhantomHold
<1>1. ASSUME NEW s \in Sessions, NEW r \in Reservations, NEW q \in Quantities,
             CreateReservation(s, r, q)
      PROVE  stock'[x].quantity_reserved <= Reserved(x)'
  <2>1. PICK row \in Rows : Created(r, row, q) /\ RowsBecome(At(row, 0), At(row, q))
    BY <1>1, CreateEffect
  <2>2. Reserved(x)' = Reserved(x) + (IF x = row THEN q ELSE 0)
    BY <1>0, <1>1, <2>1, CreateEffect, CreatedReserved
  <2>. QED  BY <1>0, <2>1, <2>2 DEF RowsBecome, At, Level, Quantities
\* Whether the reservation was still active or not, its units go.
<1>2. ASSUME NEW r \in Reservations, Settled(r)
      PROVE  LET q == IF x = reservation[r].row THEN reservation[r].quantity ELSE 0
             IN  q \in Nat /\ Reserved(x)' >= Reserved(x) - q /\ Reserved(x)' \in Nat
  <2>1. reservation[r].quantity \in Nat
    BY <1>0, ReservationsAssumption DEF TypeOK, ReservationTypeOK, Reservation
  <2>2. CASE Active(r)
    BY <1>0, <1>2, <2>1, <2>2, SettledReserved
  <2>3. CASE ~Active(r)
    BY <1>0, <1>2, <2>1, <2>3, OtherwiseReserved
  <2>. QED  BY <2>2, <2>3
<1>3. ASSUME NEW s \in Sessions, NEW r \in Reservations, ConfirmReservation(s, r)
      PROVE  stock'[x].quantity_reserved <= Reserved(x)'
  <2>. DEFINE q == reservation[r].quantity
  <2>1. Settled(r) /\ stock'[x].quantity_reserved =
          stock[x].quantity_reserved + At(reservation[r].row, -q)[x]
    BY <1>3, ConfirmEffect DEF RowsBecome
  <2>. QED  BY <1>0, <1>2, <2>1 DEF At, Level
<1>4. ASSUME NEW s \in Sessions, NEW r \in Reservations, ReleaseReservation(s, r)
      PROVE  stock'[x].quantity_reserved <= Reserved(x)'
  <2>. DEFINE row == reservation[r].row
              q == reservation[r].quantity
  <2>1. Settled(r) /\ stock'[x].quantity_reserved = stock[x].quantity_reserved
          + At(row, Floor0(stock[row].quantity_reserved - q) - stock[row].quantity_reserved)[x]
    BY <1>4, ReleaseEffect DEF RowsBecome
  <2>. QED  BY <1>0, <1>2, <2>1 DEF At, Level, Floor0
<1>5. CASE QuietStep
  BY <1>0, <1>5, OtherwiseReserved DEF QuietStep
<1>6. CASE WarehouseNext /\ UNCHANGED reservationVars
  BY <1>0, <1>6, WarehouseEffect, OtherwiseReserved DEF SupplyOnly, reservationVars
<1>7. CASE UNCHANGED vars
  BY <1>0, <1>7, OtherwiseReserved DEF vars, rowVars, reservationVars
<1>. QED  BY <1>1, <1>3, <1>4, <1>5, <1>6, <1>7, ReservationEffect DEF Next

\* Whatever requests, tasks, crashes and duplicate deliveries interleave, no
\* row keeps units reserved that no active reservation holds: a race can sell
\* units twice, it can never strand them.
THEOREM NothingStranded == Spec => []NoPhantomHold
<1>1. Init => NoPhantomHold
  <2>. SUFFICES ASSUME Init, NEW x \in Rows
                PROVE  stock[x].quantity_reserved <= Reserved(x)
    BY DEF NoPhantomHold
  <2>. QED  BY HeldUnitsFinite DEF Init, RowsInit
<1>. QED  BY <1>1, NoPhantomHoldKept, InventoryInvariant, PTL DEF Spec

-----------------------------------------------------------------------------
(* What a reservation's only settler found active stays active.              *)

\* A handler that is to settle p finds it active.
FoundActive(p) == \A s \in Sessions : p \in Claimed(s) => Active(p)

LEMMA FoundActiveKept ==
  ASSUME IInv, NEW p \in Reservations, ~Contested(p), FoundActive(p), [Next]_vars
  PROVE  FoundActive(p)'
<1>. USE DEF FoundActive, Claimed, Settling, Releasing
<1>0. TypeOK /\ handler \in [Sessions -> Handlers] /\ todo \in [Sessions -> SUBSET Reservations]
      /\ reservation \in [Reservations -> Reservation]
  BY DEF IInv, TypeOK, RowsTypeOK, ReservationTypeOK
\* A session that begins to settle active reservations.
<1>. DEFINE BeginsOn(s, rids) ==
              /\ \A r \in rids : Active(r)
              /\ \A t \in Sessions \ {s} : handler'[t] = handler[t]
              /\ todo' = [todo EXCEPT ![s] = rids]
              /\ UNCHANGED reservation
<1>1. ASSUME NEW s \in Sessions, NEW rids \in SUBSET Reservations, BeginsOn(s, rids)
      PROVE  FoundActive(p)'
  BY <1>0, <1>1 DEF Active
\* No session has more to settle, and what one has stays active.
<1>2. ASSUME \A s \in Sessions : handler'[s] \in Settling =>
               /\ handler[s] \in Settling
               /\ todo'[s] \subseteq todo[s]
               /\ \A r \in todo'[s] : Active(r) => Active(r)'
      PROVE  FoundActive(p)'
  BY <1>2
\* A session settles one of its own: nobody else has it.
<1>3. ASSUME NEW s \in Sessions, handler[s] \in Settling, NEW r \in todo[s], Settled(r),
             \A t \in Sessions \ {s} : handler'[t] = handler[t] /\ todo'[t] = todo[t],
             handler'[s] \in Settling => todo'[s] = todo[s] \ {r}
      PROVE  FoundActive(p)'
  <2>1. p # r => reservation'[p] = reservation[p]
    BY <1>0, <1>3 DEF Settled, SetStatus
  <2>2. p = r => \A t \in Sessions \ {s} : handler[t] \in Settling => p \notin todo[t]
    BY <1>3 DEF Contested
  <2>. QED  BY <1>0, <1>3, <2>1, <2>2 DEF Active
<1>4. ASSUME NEW s \in ApiSessions, ReservationApi(s)
      PROVE  FoundActive(p)'
  <2>. USE DEF Run, Finish
  <2>1. ASSUME NEW row \in Rows, NEW r \in Reservations, BeginCreate(s, row, r)
        PROVE  FoundActive(p)'
    BY <1>0, <2>1, <1>2 DEF BeginCreate, Active
  <2>2. ASSUME NEW r \in Reservations, NEW q \in Quantities, CreateReservation(s, r, q)
        PROVE  FoundActive(p)'
    <3>1. \A x \in Reservations : Active(x) => Active(x)'
      BY <1>0, <2>2 DEF CreateReservation, Active
    <3>. QED  BY <1>0, <2>2, <3>1, <1>2 DEF CreateReservation
  <2>3. CASE RejectCreate(s) \/ ScheduleRelease(s)
    BY <1>0, <2>3, <1>2 DEF RejectCreate, ScheduleRelease, Active
  <2>4. ASSUME NEW r \in Reservations, BeginConfirm(s, r) \/ BeginRelease(s, r)
        PROVE  FoundActive(p)'
    <3>1. BeginsOn(s, {r})
      BY <1>0, <2>4 DEF BeginConfirm, BeginRelease, Begin
    <3>. HIDE DEF BeginsOn
    <3>. QED  BY <3>1, <1>1
  <2>5. ASSUME NEW r \in Reservations, ConfirmReservation(s, r)
        PROVE  FoundActive(p)'
    <3>1. Settled(r)
      BY <2>5 DEF ConfirmReservation, Settled
    <3>. QED  BY <1>0, <2>5, <3>1, <1>3 DEF ConfirmReservation
  <2>. QED  BY <1>4, <2>1, <2>2, <2>3, <2>4, <2>5 DEF ReservationApi
<1>5. ASSUME NEW s \in WorkerSessions, ReservationWorker(s)
      PROVE  FoundActive(p)'
  <2>1. ASSUME NEW r \in Reservations, BeginReleaseTask(s, r)
        PROVE  FoundActive(p)'
    <3>1. BeginsOn(s, {r})
      BY <1>0, <2>1 DEF BeginReleaseTask, Begin, Run
    <3>. HIDE DEF BeginsOn
    <3>. QED  BY <3>1, <1>1
  <2>2. CASE BeginSweep(s)
    <3>1. BeginsOn(s, Expired)
      BY <1>0, <2>2 DEF BeginSweep, Begin, Run, Expired
    <3>2. Expired \in SUBSET Reservations
      BY DEF Expired
    <3>. HIDE DEF BeginsOn
    <3>. QED  BY <3>1, <3>2, <1>1
  <2>3. ASSUME NEW r \in Reservations, SkipReleaseTask(s, r)
        PROVE  FoundActive(p)'
    BY <2>3, <1>2 DEF SkipReleaseTask, rowVars, Active
  <2>. QED  BY <1>5, <2>1, <2>2, <2>3 DEF ReservationWorker
<1>6. ASSUME NEW s \in Sessions, ReservationEither(s)
      PROVE  FoundActive(p)'
  <2>. USE DEF Run, Finish
  <2>1. ASSUME NEW r \in Reservations, LockStock(s, r)
        PROVE  FoundActive(p)'
    BY <2>1, <1>2 DEF LockStock, Active
  <2>2. ASSUME NEW r \in Reservations, ReleaseReservation(s, r)
        PROVE  FoundActive(p)'
    <3>1. Settled(r) /\ handler[s] \in Settling /\ r \in todo[s]
      BY <2>2 DEF ReleaseReservation, Settled
    <3>2. /\ \A t \in Sessions \ {s} : handler'[t] = handler[t] /\ todo'[t] = todo[t]
          /\ todo'[s] = todo[s] \ {r}
      BY <1>0, <2>2 DEF ReleaseReservation
    <3>. QED  BY <3>1, <3>2, <1>3
  <2>3. CASE FailReservation(s)
    BY <1>0, <2>3, <1>2 DEF FailReservation, Active
  <2>. QED  BY <1>6, <2>1, <2>2, <2>3 DEF ReservationEither
<1>7. ASSUME NEW r \in Reservations, Expire(r) \/ LoseTimer(r)
      PROVE  FoundActive(p)'
  <2>1. \A x \in Reservations : Active(x) => Active(x)'
    BY <1>0, <1>7 DEF Expire, LoseTimer, Active, Reservation
  <2>. QED  BY <1>0, <1>2, <1>7, <2>1 DEF Expire, LoseTimer, rowVars
<1>8. CASE WarehouseNext /\ UNCHANGED reservationVars
  BY <1>0, <1>8, <1>2, WarehouseStepOwner DEF OthersKept, WarehouseHandlers, reservationVars, Active
<1>9. CASE UNCHANGED vars
  BY <1>9, <1>2 DEF vars, rowVars, reservationVars, Active
<1>. QED  BY <1>4, <1>5, <1>6, <1>7, <1>8, <1>9 DEF Next, ReservationNext

-----------------------------------------------------------------------------
(* One settler a reservation: the reserved units are those of the active     *)
(* reservations and stock covers them.                                       *)

DisciplineInv == IInv /\ SettlersAlone /\ HoldsBacked /\ NeverOversold

\* What a commit does, by handler, once the reservations settled are active.
Granted(r, row, q) ==
  /\ reservation[r] = Absent
  /\ Created(r, row, q)
  /\ q <= quantity_available(stock[row])
  /\ RowsBecome(At(row, 0), At(row, q))

Consumed(r) ==
  /\ Active(r) /\ reservation[r].row \in Rows
  /\ SetStatus(r, "confirmed")
  /\ RowsBecome(At(reservation[r].row, -reservation[r].quantity),
                At(reservation[r].row, -reservation[r].quantity))

GivenBack(r) ==
  /\ Active(r) /\ reservation[r].row \in Rows
  /\ SetStatus(r, "released")
  /\ RowsBecome(At(reservation[r].row, 0),
                At(reservation[r].row, -reservation[r].quantity))

LEMMA DisciplinedStep ==
  ASSUME DisciplineInv, [Next]_vars
  PROVE  \/ \E r \in Reservations, row \in Rows, q \in Quantities : Granted(r, row, q)
         \/ \E r \in Reservations : Consumed(r) \/ GivenBack(r)
         \/ SupplyOnly /\ UNCHANGED reservation
         \/ QuietStep
<1>. USE DEF DisciplineInv
<1>1. ASSUME NEW s \in Sessions, NEW r \in Reservations, NEW q \in Quantities,
             CreateReservation(s, r, q)
      PROVE  \E row \in Rows : Granted(r, row, q)
  BY <1>1, CreateEffect DEF Granted
<1>2. ASSUME NEW s \in Sessions, NEW r \in Reservations, ConfirmReservation(s, r)
      PROVE  Consumed(r)
  <2>1. Active(r) /\ SetStatus(r, "confirmed")
    BY <1>2 DEF ConfirmReservation, SettlersAlone, SettlesActive, Settling
  <2>. QED  BY <1>2, <2>1, ConfirmEffect DEF Consumed
<1>3. ASSUME NEW s \in Sessions, NEW r \in Reservations, ReleaseReservation(s, r)
      PROVE  GivenBack(r)
  <2>. DEFINE row == reservation[r].row
              q == reservation[r].quantity
  <2>1. Active(r) /\ SetStatus(r, "released")
    BY <1>3 DEF ReleaseReservation, SettlersAlone, SettlesActive, Settling
  <2>2. /\ row \in Rows /\ Settled(r)
        /\ RowsBecome(At(row, 0), At(row, Floor0(stock[row].quantity_reserved - q)
                                            - stock[row].quantity_reserved))
    BY <1>3, ReleaseEffect
  <2>3. q <= Reserved(row) /\ stock[row].quantity_reserved = Reserved(row)
    BY <2>1, <2>2, SettledReserved DEF IInv, HoldsBacked
  <2>4. q \in Int /\ stock[row].quantity_reserved \in Int
    BY <2>2, ReservationsAssumption
       DEF IInv, TypeOK, RowsTypeOK, Level, ReservationTypeOK, Reservation
  <2>5. Floor0(stock[row].quantity_reserved - q) - stock[row].quantity_reserved = -q
    BY <2>3, <2>4 DEF Floor0
  <2>. QED  BY <2>1, <2>2, <2>5 DEF GivenBack
<1>4. CASE ReservationNext
  BY <1>1, <1>2, <1>3, <1>4, ReservationEffect
<1>5. CASE WarehouseNext /\ UNCHANGED reservationVars
  BY <1>5, WarehouseEffect DEF reservationVars, QuietStep
<1>6. CASE UNCHANGED vars
  BY <1>6 DEF vars, rowVars, reservationVars, QuietStep
<1>. QED  BY <1>4, <1>5, <1>6 DEF Next

\* A row whose settlers find what they settle active keeps exactly what its
\* active reservations hold, and what it promises stays covered.
LEMMA BackedRowKept ==
  ASSUME IInv, [Next]_vars, NEW x \in Rows, stock[x].quantity_reserved = Reserved(x),
         \A s \in Sessions : \A r \in Claimed(s) : reservation[r].row = x => Active(r)
  PROVE  /\ stock'[x].quantity_reserved = Reserved(x)'
         /\ stock[x].quantity_reserved <= stock[x].quantity_on_hand =>
              stock'[x].quantity_reserved <= stock'[x].quantity_on_hand
<1>. DEFINE Kept == /\ stock'[x].quantity_reserved = Reserved(x)'
                    /\ stock[x].quantity_reserved <= stock[x].quantity_on_hand =>
                         stock'[x].quantity_reserved <= stock'[x].quantity_on_hand
<1>0. TypeOK /\ stock[x] \in Level /\ stock'[x] \in Level /\ Reserved(x) \in Nat
  BY NextIInv, HeldUnitsFinite DEF IInv, TypeOK, RowsTypeOK
<1>1. ASSUME NEW s \in Sessions, NEW r \in Reservations, NEW q \in Quantities,
             CreateReservation(s, r, q)
      PROVE  Kept
  <2>1. PICK row \in Rows : /\ Created(r, row, q)
                            /\ q <= quantity_available(stock[row])
                            /\ RowsBecome(At(row, 0), At(row, q))
    BY <1>1, CreateEffect
  <2>2. Reserved(x)' = Reserved(x) + (IF x = row THEN q ELSE 0)
    BY <1>0, <1>1, <2>1, CreateEffect, CreatedReserved
  <2>. QED  BY <1>0, <2>1, <2>2 DEF RowsBecome, At, Level, quantity_available, Quantities
\* Of the row's own reservations, only an active one is settled.
<1>2. ASSUME NEW r \in Reservations, Settled(r), reservation[r].row = x => Active(r)
      PROVE  LET q == IF x = reservation[r].row THEN reservation[r].quantity ELSE 0
             IN  q \in Nat /\ Reserved(x)' = Reserved(x) - q /\ q <= Reserved(x)
  <2>1. reservation[r].quantity \in Nat
    BY <1>0, ReservationsAssumption DEF TypeOK, ReservationTypeOK, Reservation
  <2>2. CASE Active(r)
    BY <1>0, <1>2, <2>1, <2>2, SettledReserved
  <2>3. CASE ~Active(r)
    BY <1>0, <1>2, <2>1, <2>3, OtherwiseReserved
  <2>. QED  BY <2>2, <2>3
<1>3. ASSUME NEW s \in Sessions, NEW r \in Reservations, ConfirmReservation(s, r)
      PROVE  Kept
  <2>. DEFINE q == reservation[r].quantity
              row == reservation[r].row
  <2>1. /\ Settled(r)
        /\ stock'[x].quantity_on_hand = stock[x].quantity_on_hand + At(row, -q)[x]
        /\ stock'[x].quantity_reserved = stock[x].quantity_reserved + At(row, -q)[x]
    BY <1>3, ConfirmEffect DEF RowsBecome
  <2>2. row = x => Active(r)
    BY <1>3 DEF ConfirmReservation, Claimed, Settling
  <2>. QED  BY <1>0, <1>2, <2>1, <2>2 DEF At, Level
<1>4. ASSUME NEW s \in Sessions, NEW r \in Reservations, ReleaseReservation(s, r)
      PROVE  Kept
  <2>. DEFINE row == reservation[r].row
              q == reservation[r].quantity
  <2>1. /\ Settled(r)
        /\ stock'[x].quantity_on_hand = stock[x].quantity_on_hand + At(row, 0)[x]
        /\ stock'[x].quantity_reserved = stock[x].quantity_reserved
             + At(row, Floor0(stock[row].quantity_reserved - q) - stock[row].quantity_reserved)[x]
    BY <1>4, ReleaseEffect DEF RowsBecome
  <2>2. row = x => Active(r)
    BY <1>4 DEF ReleaseReservation, Claimed, Settling
  <2>. QED  BY <1>0, <1>2, <2>1, <2>2 DEF At, Level, Floor0
<1>5. CASE QuietStep
  <2>1. Reserved(x)' = Reserved(x)
    BY <1>0, <1>5, OtherwiseReserved DEF QuietStep
  <2>. QED  BY <1>5, <2>1 DEF QuietStep
<1>6. CASE WarehouseNext /\ UNCHANGED reservationVars
  <2>1. Reserved(x)' = Reserved(x)
    BY <1>0, <1>6, OtherwiseReserved DEF reservationVars
  <2>. QED  BY <1>0, <1>6, <2>1, WarehouseEffect DEF SupplyOnly, Level
<1>7. CASE UNCHANGED vars
  <2>1. Reserved(x)' = Reserved(x)
    BY <1>0, <1>7, OtherwiseReserved DEF vars, reservationVars
  <2>. QED  BY <1>7, <2>1 DEF vars, rowVars
<1>. QED  BY <1>1, <1>3, <1>4, <1>5, <1>6, <1>7, ReservationEffect DEF Next

LEMMA HoldsBackedKept ==
  ASSUME DisciplineInv, [Next]_vars
  PROVE  HoldsBacked' /\ NeverOversold'
<1>. SUFFICES ASSUME NEW x \in Rows
              PROVE  /\ stock'[x].quantity_reserved = Reserved(x)'
                     /\ stock'[x].quantity_reserved >= 0
                     /\ stock'[x].quantity_reserved <= stock'[x].quantity_on_hand
  BY DEF HoldsBacked, NeverOversold
<1>1. \A s \in Sessions : \A r \in Claimed(s) : Active(r)
  BY DEF DisciplineInv, SettlersAlone, SettlesActive, Claimed
<1>2. /\ stock'[x].quantity_reserved = Reserved(x)'
      /\ stock'[x].quantity_reserved <= stock'[x].quantity_on_hand
  BY <1>1, BackedRowKept DEF DisciplineInv, HoldsBacked, NeverOversold
<1>. QED  BY <1>2, HeldUnitsFinite

LEMMA DisciplineInit == Init => DisciplineInv
<1>. SUFFICES ASSUME Init
              PROVE  DisciplineInv
  OBVIOUS
<1>1. IInv
  BY InitIInv
<1>2. SettlersAlone
  BY DEF Init, RowsInit, ReservationInit, SettlersAlone, OneSettler, Claimed, SettlesActive,
         Settling, Releasing
<1>3. \A row \in Rows : HeldUnits(row) = {}
  BY DEF Init, ReservationInit, HeldUnits, Active, Absent
<1>4. \A row \in Rows : Reserved(row) = 0
  BY <1>3, FS_EmptySet DEF Reserved
<1>5. HoldsBacked /\ NeverOversold
  BY <1>4, RowsAssumption DEF Init, RowsInit, HoldsBacked, NeverOversold
<1>. QED  BY <1>1, <1>2, <1>5 DEF DisciplineInv

LEMMA DisciplineKept == DisciplineInv /\ [Next /\ OneSettler']_vars => DisciplineInv'
<1>. SUFFICES ASSUME DisciplineInv, [Next /\ OneSettler']_vars
              PROVE  DisciplineInv'
  OBVIOUS
<1>1. [Next]_vars
  OBVIOUS
<1>2. OneSettler'
  BY DEF DisciplineInv, SettlersAlone, OneSettler, Claimed, vars, rowVars, reservationVars
<1>3. IInv'
  BY <1>1, NextIInv DEF DisciplineInv
<1>4. SettlesActive'
  <2>. SUFFICES ASSUME NEW s \in Sessions, handler'[s] \in Settling, NEW p \in todo'[s]
                PROVE  Active(p)'
    BY DEF SettlesActive
  <2>1. p \in Reservations /\ p \in Claimed(s)'
    BY <1>3 DEF IInv, TypeOK, ReservationTypeOK, Claimed
  <2>2. ~Contested(p) /\ FoundActive(p)
    BY DEF DisciplineInv, SettlersAlone, OneSettler, SettlesActive, Contested, FoundActive, Claimed
  <2>3. FoundActive(p)'
    BY <1>1, <2>1, <2>2, FoundActiveKept DEF DisciplineInv
  <2>. QED  BY <2>1, <2>3 DEF FoundActive
<1>. QED  BY <1>1, <1>2, <1>3, <1>4, HoldsBackedKept DEF DisciplineInv, SettlersAlone

THEOREM DisciplineInvariant == SpecOneSettler => []DisciplineInv
BY DisciplineInit, DisciplineKept, PTL DEF SpecOneSettler

\* With one settler a reservation, a handler about to settle a reservation
\* finds it active.
THEOREM SettlersFindActive == SpecOneSettler => []SettlersAlone
BY DisciplineInvariant, PTL DEF DisciplineInv

\* ... the reserved units of a row are exactly those of its active reservations.
THEOREM ReservedIsHeld == SpecOneSettler => []HoldsBacked
BY DisciplineInvariant, PTL DEF DisciplineInv

\* ... and reservations never oversell stock.
THEOREM StockNeverOversold == SpecOneSettler => []NeverOversold
BY DisciplineInvariant, PTL DEF DisciplineInv

-----------------------------------------------------------------------------
(* One settler a reservation: settled is final, and HoldLedger is kept.      *)

LEMMA SettledStays ==
  ASSUME DisciplineInv, [Next]_vars, NEW p \in Reservations,
         reservation[p].status \in {"confirmed", "released"}
  PROVE  reservation'[p].status = reservation[p].status
<1>. USE DEF DisciplineInv, IInv, TypeOK, ReservationTypeOK, Reservation
<1>1. ASSUME NEW r \in Reservations, NEW row \in Rows, NEW q \in Quantities, Granted(r, row, q)
      PROVE  reservation'[p].status = reservation[p].status
  BY <1>1 DEF Granted, Created, Absent
<1>2. ASSUME NEW r \in Reservations, Consumed(r) \/ GivenBack(r)
      PROVE  reservation'[p].status = reservation[p].status
  BY <1>2 DEF Consumed, GivenBack, SetStatus, Active
<1>3. ASSUME QuietStep
      PROVE  reservation'[p].status = reservation[p].status
  BY <1>3 DEF QuietStep, Expire
<1>. QED  BY <1>1, <1>2, <1>3, DisciplinedStep

\* With one settler a reservation, a confirmed reservation is never released
\* and a released one never confirmed.
THEOREM SettledForGood == SpecOneSettler => SettledIsFinal
<1>1. DisciplineInv /\ [Next /\ OneSettler']_vars =>
        [\A r \in Reservations :
           reservation[r].status \in {"confirmed", "released"} =>
             reservation'[r].status = reservation[r].status]_vars
  BY SettledStays
<1>. QED  BY <1>1, DisciplineInvariant, PTL DEF SpecOneSettler, SettledIsFinal

LEMMA LedgerStep ==
  ASSUME DisciplineInv, DisciplineInv', [Next]_vars
  PROVE  Ledger!LedgerNext \/ UNCHANGED <<Free, Hold>>
<1>. USE DEF Ledger!LedgerNext
<1>0. /\ TypeOK /\ TypeOK' /\ stock \in [Rows -> Level] /\ stock' \in [Rows -> Level]
      /\ reservation \in [Reservations -> Reservation]
      /\ reservation' \in [Reservations -> Reservation]
  BY DEF DisciplineInv, IInv, TypeOK, RowsTypeOK, ReservationTypeOK
<1>1. ASSUME NEW r \in Reservations, NEW row \in Rows, NEW q \in Quantities, Granted(r, row, q)
      PROVE  Ledger!Grant(r, row, q)
  <2>1. Hold[r] = Ledger!NoHold
    BY <1>1 DEF Granted, Hold, HoldState, Absent, Ledger!NoHold
  <2>2. q <= Free[row]
    BY <1>1 DEF Granted, Free
  <2>3. Free' = [Free EXCEPT ![row] = @ - q]
    <3>1. \A x \in Rows : Free'[x] = IF x = row THEN Free[x] - q ELSE Free[x]
      BY <1>0, <1>1 DEF Granted, RowsBecome, At, Free, quantity_available, Level, Quantities
    <3>. QED  BY <3>1 DEF Free
  <2>4. Hold' = [Hold EXCEPT ![r] = [state |-> "held", row |-> row, quantity |-> q]]
    <3>1. \A p \in Reservations : Hold'[p] =
            IF p = r THEN [state |-> "held", row |-> row, quantity |-> q] ELSE Hold[p]
      BY <1>0, <1>1 DEF Granted, Created, Hold, HoldState
    <3>. QED  BY <3>1 DEF Hold
  <2>. QED  BY <2>1, <2>2, <2>3, <2>4 DEF Ledger!Grant
<1>2. ASSUME NEW r \in Reservations, Consumed(r)
      PROVE  Ledger!Consume(r)
  <2>1. Hold[r].state = "held"
    BY <1>2 DEF Consumed, Active, Hold, HoldState
  <2>2. Hold' = [Hold EXCEPT ![r].state = "consumed"]
    <3>1. \A p \in Reservations : Hold'[p] =
            IF p = r THEN [state |-> "consumed", row |-> reservation[r].row,
                           quantity |-> reservation[r].quantity] ELSE Hold[p]
      <4>1. /\ \A p \in Reservations : p # r => reservation'[p] = reservation[p]
            /\ reservation'[r].status = "confirmed"
            /\ reservation'[r].row = reservation[r].row
            /\ reservation'[r].quantity = reservation[r].quantity
        BY <1>0, <1>2 DEF Consumed, SetStatus, Reservation
      <4>. QED  BY <4>1 DEF Hold, HoldState
    <3>2. [Hold[r] EXCEPT !.state = "consumed"] =
            [state |-> "consumed", row |-> reservation[r].row, quantity |-> reservation[r].quantity]
      BY DEF Hold
    <3>. DEFINE ended == [Hold[r] EXCEPT !.state = "consumed"]
    <3>3. \A p \in Reservations : Hold'[p] = IF p = r THEN ended ELSE Hold[p]
      BY <3>1, <3>2
    <3>4. Hold' = [p \in Reservations |-> Hold'[p]] /\ Hold = [p \in Reservations |-> Hold[p]]
      BY DEF Hold
    <3>. HIDE DEF ended
    <3>5. Hold' = [Hold EXCEPT ![r] = ended]
      BY <3>3, <3>4
    <3>. QED  BY <3>5 DEF ended
  <2>3. UNCHANGED Free
    <3>1. reservation[r].quantity \in Int
      BY <1>0, ReservationsAssumption DEF Reservation
    <3>. QED  BY <1>0, <1>2, <3>1 DEF Consumed, RowsBecome, At, Free, quantity_available, Level
  <2>. QED  BY <2>1, <2>2, <2>3 DEF Ledger!Consume
<1>3. ASSUME NEW r \in Reservations, GivenBack(r)
      PROVE  Ledger!GiveBack(r)
  <2>1. Hold[r].state = "held"
    BY <1>3 DEF GivenBack, Active, Hold, HoldState
  <2>2. Hold' = [Hold EXCEPT ![r].state = "returned"]
    <3>1. \A p \in Reservations : Hold'[p] =
            IF p = r THEN [state |-> "returned", row |-> reservation[r].row,
                           quantity |-> reservation[r].quantity] ELSE Hold[p]
      <4>1. /\ \A p \in Reservations : p # r => reservation'[p] = reservation[p]
            /\ reservation'[r].status = "released"
            /\ reservation'[r].row = reservation[r].row
            /\ reservation'[r].quantity = reservation[r].quantity
        BY <1>0, <1>3 DEF GivenBack, SetStatus, Reservation
      <4>. QED  BY <4>1 DEF Hold, HoldState
    <3>2. [Hold[r] EXCEPT !.state = "returned"] =
            [state |-> "returned", row |-> reservation[r].row, quantity |-> reservation[r].quantity]
      BY DEF Hold
    <3>. DEFINE ended == [Hold[r] EXCEPT !.state = "returned"]
    <3>3. \A p \in Reservations : Hold'[p] = IF p = r THEN ended ELSE Hold[p]
      BY <3>1, <3>2
    <3>4. Hold' = [p \in Reservations |-> Hold'[p]] /\ Hold = [p \in Reservations |-> Hold[p]]
      BY DEF Hold
    <3>. HIDE DEF ended
    <3>5. Hold' = [Hold EXCEPT ![r] = ended]
      BY <3>3, <3>4
    <3>. QED  BY <3>5 DEF ended
  <2>3. Free' = [Free EXCEPT ![Hold[r].row] = @ + Hold[r].quantity]
    <3>1. reservation[r].quantity \in Int
      BY <1>0, ReservationsAssumption DEF Reservation
    <3>2. \A x \in Rows : Free'[x] =
            IF x = reservation[r].row THEN Free[x] + reservation[r].quantity ELSE Free[x]
      BY <1>0, <1>3, <3>1 DEF GivenBack, RowsBecome, At, Free, quantity_available, Level
    <3>3. Hold[r].row = reservation[r].row /\ Hold[r].quantity = reservation[r].quantity
      BY DEF Hold
    <3>. QED  BY <3>2, <3>3 DEF Free
  <2>. QED  BY <2>1, <2>2, <2>3 DEF Ledger!GiveBack
<1>4. CASE SupplyOnly /\ UNCHANGED reservation
  <2>1. UNCHANGED Hold
    BY <1>4 DEF Hold
  <2>2. \A row \in Rows : Free'[row] >= 0
    BY <1>0 DEF DisciplineInv, NeverOversold, Free, quantity_available, Level
  <2>3. DOMAIN Free' = Rows
    BY DEF Free
  <2>. QED  BY <2>1, <2>2, <2>3 DEF Ledger!Supply
<1>5. CASE QuietStep
  <2>1. UNCHANGED Free
    BY <1>5 DEF QuietStep, Free
  <2>2. \A p \in Reservations : Hold'[p] = Hold[p]
    BY <1>0, <1>5 DEF QuietStep, Expire, Hold, HoldState, Reservation
  <2>3. UNCHANGED Hold
    BY <2>2 DEF Hold
  <2>. QED  BY <2>1, <2>3
<1>. QED  BY <1>1, <1>2, <1>3, <1>4, <1>5, DisciplinedStep DEF Quantities

\* With one settler a reservation, the tables implement HoldLedger: every
\* commit is one grant, consumption, return or supply, or none of them.
THEOREM TablesKeepLedger == SpecOneSettler => KeepsLedger
<1>1. Init => Ledger!LedgerInit
  <2>. SUFFICES ASSUME Init
                PROVE  Ledger!LedgerInit
    OBVIOUS
  <2>1. Free = InitOnHand
    BY RowsAssumption DEF Init, RowsInit, Free, quantity_available
  <2>2. Hold = [r \in Reservations |-> Ledger!NoHold]
    BY DEF Init, ReservationInit, Hold, HoldState, Absent, Ledger!NoHold
  <2>. QED  BY <2>1, <2>2 DEF Ledger!LedgerInit
<1>2. DisciplineInv /\ DisciplineInv' /\ [Next /\ OneSettler']_vars =>
        [Ledger!LedgerNext]_<<Free, Hold>>
  BY LedgerStep
<1>. QED  BY <1>1, <1>2, DisciplineInvariant, PTL
          DEF SpecOneSettler, KeepsLedger, Ledger!LedgerSpec, Ledger!ledgerVars

-----------------------------------------------------------------------------
(* The whole plant: which races can break the promise of a row, and that no  *)
(* other can.  Batches consume what they found without a lock.               *)

\* What a step of a batch handler does to the promise of the rows.
BatchSupply(s) ==
  \A x \in Rows :
    /\ stock'[x].quantity_reserved = stock[x].quantity_reserved
    /\ \/ stock'[x].quantity_on_hand >= stock[x].quantity_on_hand
       \/ /\ StartBatch(s)
          /\ stock'[x].quantity_on_hand =
               stock[x].quantity_on_hand - Consumption(job[s].batch, x)

LEMMA StartEffect ==
  ASSUME PlantIInv, NEW s \in Sessions, StartBatch(s)
  PROVE  BatchSupply(s)
<1>. DEFINE b == job[s].batch
            levels == [row \in Rows |-> [copy[s][row] EXCEPT !.quantity_on_hand =
                                           @ - Consumption(b, row)]]
<1>1. b \in Batches
  BY DEF StartBatch, PlantIInv, JobsNamed, Producing
<1>2. Commit(s, levels, [row \in Rows |-> -Consumption(b, row)])
  BY DEF StartBatch
<1>. SUFFICES ASSUME NEW x \in Rows
              PROVE  /\ stock'[x].quantity_reserved = stock[x].quantity_reserved
                     /\ \/ stock'[x].quantity_on_hand >= stock[x].quantity_on_hand
                        \/ stock'[x].quantity_on_hand =
                             stock[x].quantity_on_hand - Consumption(b, x)
  BY DEF BatchSupply
<1>3. stock[x] \in Level /\ Consumption(b, x) \in Int
  BY <1>1, ConsumptionInt DEF PlantIInv, IInv, TypeOK, RowsTypeOK
<1>4. CASE x \in held[s]
  <2>1. stock'[x] = levels[x] /\ copy[s][x] = stock[x]
    BY <1>2, <1>4, CopyIsStock DEF Commit, PlantIInv
  <2>. QED  BY <1>3, <2>1 DEF Level
<1>5. CASE x \notin held[s]
  BY <1>2, <1>3, <1>5 DEF Commit, Level
<1>. QED  BY <1>4, <1>5

LEMMA CompleteEffect ==
  ASSUME PlantIInv, NEW s \in Sessions, NEW y \in 0..MaxYield, CompleteBatch(s, y)
  PROVE  BatchSupply(s)
<1>. DEFINE row == Product[job[s].batch]
            levels == [copy[s] EXCEPT ![row].quantity_on_hand = @ + y]
<1>1. row \in held[s] /\ Commit(s, levels, [x \in Rows |-> IF x = row THEN y ELSE 0])
  BY DEF CompleteBatch
<1>2. row \in Rows /\ y \in Nat /\ copy[s] \in [Rows -> Level]
  BY <1>1, BatchAssumption DEF PlantIInv, IInv, TypeOK, RowsTypeOK
<1>. SUFFICES ASSUME NEW x \in Rows
              PROVE  /\ stock'[x].quantity_reserved = stock[x].quantity_reserved
                     /\ stock'[x].quantity_on_hand >= stock[x].quantity_on_hand
  BY DEF BatchSupply
<1>3. stock[x] \in Level
  BY DEF PlantIInv, IInv, TypeOK, RowsTypeOK
<1>4. CASE x \in held[s]
  <2>1. stock'[x] = levels[x] /\ copy[s][x] = stock[x]
    BY <1>1, <1>4, CopyIsStock DEF Commit, PlantIInv
  <2>. QED  BY <1>2, <1>3, <2>1 DEF Level
<1>5. CASE x \notin held[s]
  BY <1>1, <1>3, <1>5 DEF Commit, Level
<1>. QED  BY <1>4, <1>5

LEMMA BatchEffect ==
  ASSUME PlantIInv, NEW s \in ApiSessions, BatchHandler(s)
  PROVE  UNCHANGED stock \/ BatchSupply(s)
<1>1. ASSUME NEW y \in 0..MaxYield, CompleteBatch(s, y)
      PROVE  BatchSupply(s)
  BY <1>1, CompleteEffect
<1>2. CASE StartBatch(s)
  BY <1>2, StartEffect
<1>3. ASSUME ~StartBatch(s), \A y \in 0..MaxYield : ~CompleteBatch(s, y)
      PROVE  UNCHANGED stock
  BY <1>3 DEF BatchHandler, CreateBatch, BeginStart, BeginComplete, BeginStatus, BeginJob,
              LockComponent, LockProduct, cancel_or_fail_batch, FailBatch, SelectForUpdate,
              Rollback, rowVars
<1>. QED  BY <1>1, <1>2, <1>3

LEMMA BatchKeepsReserved ==
  ASSUME PlantIInv, BatchNext, UNCHANGED <<reservationVars, route>>, NEW x \in Rows
  PROVE  /\ stock'[x].quantity_reserved = stock[x].quantity_reserved
         /\ Reserved(x)' = Reserved(x)
<1>1. PICK s \in ApiSessions : BatchHandler(s)
  BY DEF BatchNext
<1>2. stock'[x].quantity_reserved = stock[x].quantity_reserved
  BY <1>1, BatchEffect DEF BatchSupply
<1>3. Reserved(x)' = Reserved(x)
  BY OtherwiseReserved DEF PlantIInv, IInv, reservationVars
<1>. QED  BY <1>2, <1>3

\* Batches included, no interleaving leaves units reserved that no active
\* reservation holds.
THEOREM PlantStrandsNothing == PlantSpec => []NoPhantomHold
<1>1. PlantInit => NoPhantomHold
  <2>. SUFFICES ASSUME PlantInit, NEW x \in Rows
                PROVE  stock[x].quantity_reserved <= Reserved(x)
    BY DEF NoPhantomHold
  <2>. QED  BY HeldUnitsFinite DEF PlantInit, Init, RowsInit
<1>2. PlantIInv /\ NoPhantomHold /\ [PlantNext]_plantVars => NoPhantomHold'
  <2>. SUFFICES ASSUME PlantIInv, NoPhantomHold, [PlantNext]_plantVars
                PROVE  NoPhantomHold'
    OBVIOUS
  <2>1. CASE [Next]_vars
    BY <2>1, NoPhantomHoldKept DEF PlantIInv
  <2>2. CASE BatchNext /\ UNCHANGED <<reservationVars, route>>
    BY <2>2, BatchKeepsReserved DEF NoPhantomHold
  <2>. QED  BY <2>1, <2>2 DEF PlantNext, PlantStep, plantVars
<1>. QED  BY <1>1, <1>2, PlantInvariant, PTL DEF PlantSpec

-----------------------------------------------------------------------------
(* What a start has found of a row.                                          *)

\* A session is starting a batch because it was, or because it has just found
\* the components there.
LEMMA StartsBegun ==
  ASSUME PlantIInv, PlantStep \/ UNCHANGED <<vars, batchVars>>,
         NEW s \in Sessions, handler'[s] = "start"
  PROVE  \/ handler[s] = "start" /\ job'[s].batch = job[s].batch
         \/ UNCHANGED stock /\ check_availability(job'[s].batch)
<1>. USE DEF PlantIInv, IInv, TypeOK, RowsTypeOK, BatchTypeOK
<1>1. CASE [Next]_vars /\ UNCHANGED batchVars
  BY <1>1, NoneBeginsProducing DEF batchVars, Producing
<1>2. CASE BatchNext
  <2>1. PICK t \in ApiSessions : BatchHandler(t)
    BY <1>2 DEF BatchNext
  <2>2. CASE s # t
    BY <2>1, <2>2, BatchStepOwner DEF ProducerStep
  <2>3. CASE s = t
    <3>. USE <2>3 DEF Run, FinishJob
    <3>1. ASSUME NEW b \in Batches, BeginStart(s, b)
          PROVE  UNCHANGED stock /\ check_availability(job'[s].batch)
      <4>1. job'[s].batch = b /\ UNCHANGED stock
        BY <3>1 DEF BeginStart, BeginJob
      <4>. QED  BY <3>1, <4>1 DEF BeginStart
    <3>2. ASSUME NEW b \in Batches, CreateBatch(s, b)
          PROVE  FALSE
      BY <3>2 DEF CreateBatch, rowVars, Idle
    <3>3. ASSUME NEW h, NEW b \in Batches, NEW target, h # "start", BeginJob(s, h, b, target)
          PROVE  FALSE
      BY <3>3 DEF BeginJob
    <3>4. CASE LockComponent(s)
      BY <3>4 DEF LockComponent, LinesLeft
    <3>5. CASE LockProduct(s)
      BY <3>5 DEF LockProduct
    <3>6. ASSUME StartBatch(s) \/ cancel_or_fail_batch(s) \/ FailBatch(s)
                   \/ \E y \in 0..MaxYield : CompleteBatch(s, y)
          PROVE  FALSE
      BY <3>6 DEF StartBatch, cancel_or_fail_batch, FailBatch, CompleteBatch
    <3>. QED  BY <2>1, <3>1, <3>2, <3>3, <3>4, <3>5, <3>6
              DEF BatchHandler, BeginComplete, BeginStatus
  <2>. QED  BY <2>2, <2>3
<1>. QED  BY <1>1, <1>2 DEF PlantStep

LEMMA StartsCoveredKept ==
  ASSUME PlantIInv, PlantIInv', StartsCovered, [PlantNext]_plantVars
  PROVE  StartsCovered'
<1>. SUFFICES ASSUME NEW s \in Sessions, handler'[s] = "start",
                     NEW i \in DOMAIN Bom[job'[s].batch],
                     Bom[job'[s].batch][i].row \notin outrun'
              PROVE  Bom[job'[s].batch][i].quantity
                       <= quantity_available(stock'[Bom[job'[s].batch][i].row])
  BY DEF StartsCovered
<1>. DEFINE b == job'[s].batch
            line == Bom[b][i]
<1>1. b \in Batches
  BY DEF PlantIInv, JobsNamed, Producing
<1>2. line.row \in Rows /\ line.quantity \in Nat
  <2>1. i \in 1..Len(Bom[b])
    BY <1>1, BatchAssumption
  <2>. QED  BY <1>1, <2>1, BillLine
<1>3. /\ quantity_available(stock[line.row]) \in Int
      /\ quantity_available(stock'[line.row]) \in Int
  <2>1. stock \in [Rows -> Level] /\ stock' \in [Rows -> Level]
    BY DEF PlantIInv, IInv, TypeOK, RowsTypeOK
  <2>2. stock[line.row] \in Level /\ stock'[line.row] \in Level
    BY <1>2, <2>1
  <2>. QED  BY <2>2 DEF Level, quantity_available
<1>4. PlantStep \/ UNCHANGED <<vars, batchVars>>
  BY DEF PlantNext, plantVars
<1>5. CASE handler[s] = "start" /\ b = job[s].batch
  <2>1. line.row \in Starting(s) \cap Starting(s)'
    BY <1>5 DEF Starting
  <2>2. outrun \subseteq outrun' /\ ~Outruns(line.row)
    <3>1. CASE PlantNext
      BY <1>2, <3>1 DEF PlantNext
    <3>2. CASE UNCHANGED plantVars
      BY <1>3, <3>2 DEF plantVars, vars, rowVars, Outruns
    <3>. QED  BY <3>1, <3>2
  <2>3. quantity_available(stock'[line.row]) >= quantity_available(stock[line.row])
    BY <1>3, <2>1, <2>2 DEF Outruns
  <2>4. line.quantity <= quantity_available(stock[line.row])
    BY <1>5, <2>2 DEF StartsCovered
  <2>. QED  BY <1>2, <1>3, <2>3, <2>4
<1>6. CASE UNCHANGED stock /\ check_availability(b)
  <2>1. quantity_available(stock[line.row]) >= line.quantity
    BY <1>6 DEF check_availability
  <2>. QED  BY <1>2, <1>3, <1>6, <2>1
<1>. QED  BY <1>4, <1>5, <1>6, StartsBegun

\* A bill that names a row once takes from it what that line says, and one that
\* does not name it takes nothing.
LEMMA OneLineConsumption ==
  ASSUME NEW b \in Batches, NEW row \in Rows,
         \A i, j \in DOMAIN Bom[b] : Bom[b][i].row = row /\ Bom[b][j].row = row => i = j
  PROVE  \/ Consumption(b, row) = 0
         \/ \E i \in DOMAIN Bom[b] :
              Bom[b][i].row = row /\ Consumption(b, row) = Bom[b][i].quantity
<1>. DEFINE taken == [i \in DOMAIN Bom[b] |-> Bom[b][i].quantity]
            lines == {i \in DOMAIN Bom[b] : Bom[b][i].row = row}
<1>1. Consumption(b, row) = SumOver(taken, lines)
  BY DEF Consumption
<1>2. CASE lines = {}
  BY <1>1, <1>2, SumEmpty
<1>3. ASSUME NEW i \in lines
      PROVE  Consumption(b, row) = Bom[b][i].quantity
  <2>1. lines = {} \cup {i}
    BY <1>3
  <2>2. i \in 1..Len(Bom[b])
    BY BatchAssumption
  <2>3. taken[i] \in Int /\ taken[i] = Bom[b][i].quantity
    BY <2>2, BillLine
  <2>. HIDE DEF taken, lines
  <2>4. SumOver(taken, {} \cup {i}) = SumOver(taken, {}) + taken[i]
    BY <2>3, FS_EmptySet, SumAdd
  <2>. QED  BY <1>1, <2>1, <2>3, <2>4, SumEmpty
<1>. QED  BY <1>2, <1>3

\* What a batch consumed it has consumed.
LEMMA ConsumedStays ==
  ASSUME PlantIInv, [PlantNext]_plantVars, NEW b \in Batches, batch[b].consumed > 0
  PROVE  batch'[b].consumed > 0
<1>. USE DEF PlantIInv, BatchTypeOK, Batch
<1>1. CASE UNCHANGED batch
  BY <1>1
<1>2. ASSUME NEW s \in ApiSessions, BatchHandler(s)
      PROVE  batch'[b].consumed > 0
  <2>1. ASSUME NEW c \in Batches, CreateBatch(s, c)
        PROVE  batch'[b].consumed > 0
    BY <2>1 DEF CreateBatch
  <2>2. CASE StartBatch(s)
    BY <2>2 DEF StartBatch
  <2>3. ASSUME NEW y \in 0..MaxYield, CompleteBatch(s, y)
        PROVE  batch'[b].consumed > 0
    BY <2>3 DEF CompleteBatch
  <2>4. CASE cancel_or_fail_batch(s)
    BY <2>4 DEF cancel_or_fail_batch
  <2>. QED  BY <1>1, <1>2, <2>1, <2>2, <2>3, <2>4
            DEF BatchHandler, BeginStart, BeginComplete, BeginStatus, BeginJob, LockComponent,
                LockProduct, FailBatch, batchVars
<1>. QED  BY <1>1, <1>2 DEF PlantNext, PlantStep, plantVars, batchVars, BatchNext
-----------------------------------------------------------------------------
(* The inductive invariant of the promise in the plant.                      *)

ContestsKnown ==
  contested \subseteq Reservations /\ \A r \in Reservations : Contested(r) => r \in contested

PromiseInv ==
  /\ PlantIInv
  /\ ContestsKnown
  /\ UncontestedActive
  /\ StartsCovered
  /\ UncontestedBacked
  /\ OversoldOnlyByRaces

LEMMA ContestsKnownKept ==
  ASSUME ContestsKnown, [PlantNext]_plantVars
  PROVE  ContestsKnown' /\ contested \subseteq contested'
<1>1. CASE PlantNext
  BY <1>1 DEF PlantNext, ContestsKnown
<1>2. CASE UNCHANGED plantVars
  BY <1>2 DEF plantVars, vars, rowVars, reservationVars, ContestsKnown, Contested, Claimed
<1>. QED  BY <1>1, <1>2

LEMMA UncontestedActiveKept ==
  ASSUME PromiseInv, PlantIInv', [PlantNext]_plantVars
  PROVE  UncontestedActive'
<1>. SUFFICES ASSUME NEW s \in Sessions, NEW p \in Claimed(s)', p \notin contested'
              PROVE  Active(p)'
  BY DEF UncontestedActive
<1>1. p \in Reservations
  BY DEF PlantIInv, IInv, TypeOK, ReservationTypeOK, Claimed
<1>2. ~Contested(p) /\ FoundActive(p)
  BY <1>1, ContestsKnownKept DEF PromiseInv, ContestsKnown, UncontestedActive, FoundActive
<1>3. CASE [Next]_vars
  <2>1. FoundActive(p)'
    BY <1>1, <1>2, <1>3, FoundActiveKept DEF PromiseInv, PlantIInv
  <2>. QED  BY <2>1 DEF FoundActive
<1>4. CASE BatchNext /\ UNCHANGED <<reservationVars, route>>
  <2>1. PICK t \in ApiSessions : BatchHandler(t)
    BY <1>4 DEF BatchNext
  <2>2. ProducerStep(t)
    BY <2>1, BatchStepOwner DEF PromiseInv, PlantIInv, IInv
  <2>3. p \in Claimed(s)
    BY <1>4, <2>2 DEF Claimed, ProducerStep, Producing, Settling, Releasing, reservationVars
  <2>. QED  BY <1>2, <1>4, <2>3 DEF FoundActive, Active, reservationVars
<1>. QED  BY <1>3, <1>4 DEF PlantNext, PlantStep, plantVars

\* A reservation keeps the row it has.
LEMMA RowKept ==
  ASSUME IInv, [Next]_vars, NEW r \in Reservations, reservation[r].row \in Rows
  PROVE  reservation'[r].row = reservation[r].row
<1>. USE DEF IInv, TypeOK, ReservationTypeOK, Reservation
<1>1. ASSUME NEW s \in Sessions, NEW p \in Reservations, NEW q \in Quantities,
             CreateReservation(s, p, q)
      PROVE  reservation'[r].row = reservation[r].row
  <2>1. reservation[p] = Absent /\ \E row \in Rows : Created(p, row, q)
    BY <1>1, CreateEffect
  <2>2. r # p
    BY <2>1, RowsAssumption DEF Absent
  <2>. QED  BY <2>1, <2>2 DEF Created
<1>2. ASSUME NEW p \in Reservations, Settled(p)
      PROVE  reservation'[r].row = reservation[r].row
  BY <1>2 DEF Settled, SetStatus
<1>3. CASE QuietStep
  BY <1>3 DEF QuietStep, Expire
<1>4. CASE UNCHANGED reservation
  BY <1>4
<1>5. CASE ReservationNext
  BY <1>1, <1>2, <1>3, <1>5, ReservationEffect, ConfirmEffect, ReleaseEffect
<1>. QED  BY <1>4, <1>5 DEF Next, vars, reservationVars

LEMMA UncontestedStays ==
  ASSUME PromiseInv, [PlantNext]_plantVars, NEW x \in Rows, Uncontested(x)'
  PROVE  Uncontested(x)
<1>. SUFFICES ASSUME NEW r \in contested, reservation[r].row = x
              PROVE  FALSE
  BY DEF Uncontested
<1>1. r \in contested' /\ r \in Reservations
  BY ContestsKnownKept DEF PromiseInv, ContestsKnown
<1>2. reservation'[r].row = x
  <2>1. CASE [Next]_vars
    BY <1>1, <2>1, RowKept DEF PromiseInv, PlantIInv
  <2>2. CASE UNCHANGED reservationVars
    BY <2>2 DEF reservationVars
  <2>. QED  BY <2>1, <2>2 DEF PlantNext, PlantStep, plantVars, vars
<1>. QED  BY <1>1, <1>2 DEF Uncontested

LEMMA UncontestedBackedKept ==
  ASSUME PromiseInv, [PlantNext]_plantVars
  PROVE  UncontestedBacked'
<1>. SUFFICES ASSUME NEW x \in Rows, Uncontested(x)'
              PROVE  stock'[x].quantity_reserved = Reserved(x)'
  BY DEF UncontestedBacked
<1>1. Uncontested(x) /\ stock[x].quantity_reserved = Reserved(x)
  BY UncontestedStays DEF PromiseInv, UncontestedBacked
<1>2. \A s \in Sessions : \A r \in Claimed(s) : reservation[r].row = x => Active(r)
  BY <1>1 DEF Uncontested, PromiseInv, UncontestedActive
<1>3. CASE [Next]_vars
  BY <1>1, <1>2, <1>3, BackedRowKept DEF PromiseInv, PlantIInv
<1>4. CASE BatchNext /\ UNCHANGED <<reservationVars, route>>
  BY <1>1, <1>4, BatchKeepsReserved DEF PromiseInv
<1>. QED  BY <1>3, <1>4 DEF PlantNext, PlantStep, plantVars

LEMMA NamedOnceStays ==
  ASSUME PlantIInv, [PlantNext]_plantVars, NEW x, NamedOnce(x)'
  PROVE  NamedOnce(x)
BY ConsumedStays DEF NamedOnce

\* A start whose check still holds takes from a row only what is free.
LEMMA StartTakesFree ==
  ASSUME PromiseInv, PlantIInv', NEW s \in ApiSessions, StartBatch(s),
         NEW x \in Rows, x \notin outrun, NamedOnce(x)',
         stock[x].quantity_reserved <= stock[x].quantity_on_hand
  PROVE  Consumption(job[s].batch, x) <= quantity_available(stock[x])
<1>. DEFINE b == job[s].batch
<1>. USE DEF PromiseInv, PlantIInv
<1>1. b \in Batches /\ handler[s] = "start"
  BY DEF StartBatch, JobsNamed, Producing
<1>2. batch'[b].consumed > 0
  <2>1. batch \in [Batches -> Batch] /\ batch[b].consumed \in Nat
    BY <1>1 DEF BatchTypeOK, Batch
  <2>2. batch' = [batch EXCEPT ![b].status = "in_progress", ![b].consumed = @ + 1]
    BY DEF StartBatch
  <2>. QED  BY <1>1, <2>1, <2>2 DEF Batch
<1>3. \/ Consumption(b, x) = 0
      \/ \E i \in DOMAIN Bom[b] : Bom[b][i].row = x /\ Consumption(b, x) = Bom[b][i].quantity
  BY <1>1, <1>2, OneLineConsumption DEF NamedOnce
<1>4. stock[x] \in Level
  BY DEF IInv, TypeOK, RowsTypeOK
<1>5. CASE Consumption(b, x) = 0
  BY <1>4, <1>5 DEF Level, quantity_available
<1>6. ASSUME NEW i \in DOMAIN Bom[b], Bom[b][i].row = x, Consumption(b, x) = Bom[b][i].quantity
      PROVE  Consumption(b, x) <= quantity_available(stock[x])
  BY <1>1, <1>6 DEF StartsCovered
<1>. QED  BY <1>3, <1>5, <1>6

LEMMA OversoldOnlyByRacesKept ==
  ASSUME PromiseInv, PlantIInv', UncontestedBacked', [PlantNext]_plantVars
  PROVE  OversoldOnlyByRaces'
<1>. SUFFICES ASSUME NEW x \in Rows, x \notin outrun', Uncontested(x)', NamedOnce(x)'
              PROVE  /\ stock'[x].quantity_reserved >= 0
                     /\ stock'[x].quantity_reserved <= stock'[x].quantity_on_hand
  BY DEF OversoldOnlyByRaces
<1>1. x \notin outrun /\ Uncontested(x) /\ NamedOnce(x)
  BY UncontestedStays, NamedOnceStays DEF PromiseInv, PlantNext, plantVars
<1>2. /\ stock[x].quantity_reserved = Reserved(x)
      /\ stock[x].quantity_reserved <= stock[x].quantity_on_hand
  BY <1>1 DEF PromiseInv, UncontestedBacked, OversoldOnlyByRaces
<1>3. stock'[x].quantity_reserved >= 0
  BY HeldUnitsFinite DEF UncontestedBacked
<1>4. \A s \in Sessions : \A r \in Claimed(s) : reservation[r].row = x => Active(r)
  BY <1>1 DEF Uncontested, PromiseInv, UncontestedActive
<1>5. CASE [Next]_vars
  BY <1>2, <1>3, <1>4, <1>5, BackedRowKept DEF PromiseInv, PlantIInv
<1>6. ASSUME NEW s \in ApiSessions, BatchHandler(s)
      PROVE  stock'[x].quantity_reserved <= stock'[x].quantity_on_hand
  <2>1. stock[x] \in Level /\ stock'[x] \in Level
    BY DEF PromiseInv, PlantIInv, IInv, TypeOK, RowsTypeOK
  <2>2. CASE UNCHANGED stock
    BY <1>2, <2>2
  <2>3. CASE BatchSupply(s)
    <3>1. /\ stock'[x].quantity_reserved = stock[x].quantity_reserved
          /\ \/ stock'[x].quantity_on_hand >= stock[x].quantity_on_hand
             \/ /\ StartBatch(s)
                /\ stock'[x].quantity_on_hand =
                     stock[x].quantity_on_hand - Consumption(job[s].batch, x)
      BY <2>3 DEF BatchSupply
    <3>2. StartBatch(s) => Consumption(job[s].batch, x) <= quantity_available(stock[x])
      BY <1>1, <1>2, StartTakesFree
    <3>3. StartBatch(s) => Consumption(job[s].batch, x) \in Int
      BY ConsumptionInt DEF StartBatch, PromiseInv, PlantIInv, JobsNamed, Producing
    <3>. QED  BY <1>2, <2>1, <3>1, <3>2, <3>3 DEF Level, quantity_available
  <2>. QED  BY <1>6, <2>2, <2>3, BatchEffect DEF PromiseInv
<1>. QED  BY <1>3, <1>5, <1>6 DEF PlantNext, PlantStep, plantVars, BatchNext

LEMMA InitPromiseInv == PlantInit => PromiseInv
<1>. SUFFICES ASSUME PlantInit
              PROVE  PromiseInv
  OBVIOUS
<1>1. PlantIInv
  BY InitPlantIInv
<1>2. DisciplineInv
  BY DisciplineInit DEF PlantInit
<1>3. ContestsKnown
  BY <1>2 DEF PlantInit, ContestsKnown, Contested, DisciplineInv, SettlersAlone, OneSettler
<1>4. UncontestedActive
  BY <1>2 DEF UncontestedActive, Claimed, DisciplineInv, SettlersAlone, SettlesActive
<1>5. StartsCovered
  BY DEF PlantInit, Init, RowsInit, StartsCovered
<1>6. UncontestedBacked /\ OversoldOnlyByRaces
  BY <1>2 DEF DisciplineInv, HoldsBacked, NeverOversold, UncontestedBacked, OversoldOnlyByRaces
<1>. QED  BY <1>1, <1>3, <1>4, <1>5, <1>6 DEF PromiseInv

LEMMA NextPromiseInv == PromiseInv /\ [PlantNext]_plantVars => PromiseInv'
<1>. SUFFICES ASSUME PromiseInv, [PlantNext]_plantVars
              PROVE  PromiseInv'
  OBVIOUS
<1>1. PlantIInv'
  BY NextPlantIInv DEF PromiseInv
<1>2. ContestsKnown'
  BY ContestsKnownKept DEF PromiseInv
<1>3. UncontestedActive' /\ StartsCovered'
  BY <1>1, UncontestedActiveKept, StartsCoveredKept DEF PromiseInv
<1>4. UncontestedBacked'
  BY UncontestedBackedKept
<1>5. OversoldOnlyByRaces'
  BY <1>1, <1>4, OversoldOnlyByRacesKept
<1>. QED  BY <1>1, <1>2, <1>3, <1>4, <1>5 DEF PromiseInv

\* In every behaviour of the whole service, what handlers have found of
\* reservations and of stock stays true unless the histories record the race.
THEOREM PromiseInvariant == PlantSpec => []PromiseInv
BY InitPromiseInv, NextPromiseInv, PTL DEF PlantSpec

\* Reserved units are exactly those of the active reservations on every row
\* none of whose reservations two sessions were to settle at one time, whatever
\* batches, transfers and adjustments do.
THEOREM ReservedIsHeldInPlant == PlantSpec => []UncontestedBacked
BY PromiseInvariant, PTL DEF PromiseInv

\* A row is oversold by a doubly settled reservation, by stock that fell between
\* the unlocked check of a start and its commit (batch_service.py:78), or by a
\* bill that names it twice (bom_service.py:83), and in no other way.
THEOREM OversoldByThreeRaces == PlantSpec => []OversoldOnlyByRaces
BY PromiseInvariant, PTL DEF PromiseInv

\* A confirmed reservation is never released, nor a released one confirmed, as
\* long as no two sessions were to settle it at one time.
THEOREM UncontestedForGood == PlantSpec => UncontestedIsFinal
<1>. DEFINE Final == \A r \in Reservations \ contested :
                       reservation[r].status \in {"confirmed", "released"} =>
                         reservation'[r].status = reservation[r].status
<1>1. PromiseInv /\ [PlantNext]_plantVars => [Final]_plantVars
  <2>. SUFFICES ASSUME PromiseInv, [PlantNext]_plantVars,
                       NEW p \in Reservations, p \notin contested,
                       reservation[p].status \in {"confirmed", "released"}
                PROVE  reservation'[p].status = reservation[p].status
    OBVIOUS
  <2>. USE DEF PromiseInv, PlantIInv, IInv, TypeOK, ReservationTypeOK, Reservation
  <2>1. ASSUME NEW s \in Sessions, NEW r \in Reservations, NEW q \in Quantities,
               CreateReservation(s, r, q)
        PROVE  reservation'[p].status = reservation[p].status
    <3>1. reservation[r] = Absent /\ \E row \in Rows : Created(r, row, q)
      BY <2>1, CreateEffect
    <3>. QED  BY <3>1 DEF Created, Absent
  <2>2. ASSUME NEW s \in Sessions, NEW r \in Reservations,
               ConfirmReservation(s, r) \/ ReleaseReservation(s, r)
        PROVE  reservation'[p].status = reservation[p].status
    <3>1. r \in Claimed(s) /\ Settled(r)
      BY <2>2 DEF ConfirmReservation, ReleaseReservation, Claimed, Settling, Settled
    <3>2. r # p
      BY <3>1 DEF UncontestedActive, Active
    <3>. QED  BY <3>1, <3>2 DEF Settled, SetStatus
  <2>3. CASE QuietStep
    BY <2>3 DEF QuietStep, Expire
  <2>4. CASE UNCHANGED reservation
    BY <2>4
  <2>5. CASE ReservationNext
    BY <2>1, <2>2, <2>3, <2>5, ReservationEffect
  <2>. QED  BY <2>4, <2>5
            DEF PlantNext, PlantStep, plantVars, Next, vars, reservationVars
<1>. QED  BY <1>1, PromiseInvariant, PTL DEF PlantSpec, UncontestedIsFinal
=============================================================================
