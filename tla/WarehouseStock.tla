---------------------------- MODULE WarehouseStock ----------------------------
(***************************************************************************)
(* warehouse_service.py: manual stock adjustments and transfers between     *)
(* warehouses.  A transfer locks its source row, checks the available       *)
(* quantity, then locks its destination row, so two transfers in opposite   *)
(* directions can each wait for the other until PostgreSQL aborts one.      *)
(***************************************************************************)
EXTENDS StockRows, FiniteSums

CONSTANTS
  MaxDelta,    \* bound: largest quantity of one adjustment or transfer
  MaxTotal     \* bound: adjustments bring no more units in than this, in all

ASSUME WarehouseAssumption == MaxDelta \in Nat /\ MaxTotal \in Nat

VARIABLE route   \* source and destination row of the session's transfer

Route == [from : Rows \cup {NoRow}, to : Rows \cup {NoRow}]

NoRoute == [from |-> NoRow, to |-> NoRow]

WarehouseInit == route = [s \in Sessions |-> NoRoute]

TransferQuantities == 1..MaxDelta

Room(d) ==
  d > 0 => SumOver([row \in Rows |-> stock[row].quantity_on_hand], Rows) + d <= MaxTotal

LogOne(row, d) == [x \in Rows |-> IF x = row THEN d ELSE 0]

-----------------------------------------------------------------------------
\* POST /warehouses/{id}/stock/adjust
BeginAdjust(s, row) ==
  /\ Idle(s)
  /\ SelectForUpdate(s, row)
  /\ Run(s, "adjust")
  /\ UNCHANGED route

AdjustStock(s, d) ==
  /\ handler[s] = "adjust"
  /\ \E row \in held[s] :
       LET new_on_hand == copy[s][row].quantity_on_hand + d
       IN /\ new_on_hand >= copy[s][row].quantity_reserved
          /\ Room(d)
          /\ Commit(s, [copy[s] EXCEPT ![row].quantity_on_hand = new_on_hand],
                       LogOne(row, d))
  /\ Run(s, "idle")
  /\ UNCHANGED route

RejectAdjust(s) ==
  /\ handler[s] = "adjust"
  /\ \E row \in held[s], d \in -MaxDelta..MaxDelta :
       copy[s][row].quantity_on_hand + d < copy[s][row].quantity_reserved
  /\ Rollback(s)
  /\ Run(s, "idle")
  /\ UNCHANGED route

-----------------------------------------------------------------------------
\* POST /transfers
BeginTransfer(s, from, to) ==
  /\ Idle(s)
  /\ from # to
  /\ Item[from] = Item[to]
  /\ SelectForUpdate(s, from)
  /\ Run(s, "transfer")
  /\ route' = [route EXCEPT ![s] = [from |-> from, to |-> to]]

Sendable(s, q) == q <= quantity_available(copy[s][route[s].from])

LockDestination(s) ==
  /\ handler[s] = "transfer"
  /\ \E q \in TransferQuantities : Sendable(s, q)
  /\ route[s].to \notin held[s]
  /\ SelectForUpdate(s, route[s].to)
  /\ UNCHANGED <<handler, route>>

RejectTransfer(s) ==
  /\ handler[s] = "transfer"
  /\ route[s].to \notin held[s]
  /\ \E q \in TransferQuantities : ~Sendable(s, q)
  /\ Rollback(s)
  /\ Run(s, "idle")
  /\ route' = [route EXCEPT ![s] = NoRoute]

TransferStock(s, q) ==
  /\ handler[s] = "transfer"
  /\ route[s].to \in held[s]
  /\ Sendable(s, q)
  /\ LET from == route[s].from
         to == route[s].to
     IN Commit(s, [copy[s] EXCEPT ![from].quantity_on_hand = @ - q,
                                  ![to].quantity_on_hand = @ + q],
                  [row \in Rows |-> LogOne(from, -q)[row] + LogOne(to, q)[row]])
  /\ Run(s, "idle")
  /\ route' = [route EXCEPT ![s] = NoRoute]

-----------------------------------------------------------------------------
\* A handler of this module stops with its transaction rolled back.
FailWarehouse(s) ==
  /\ handler[s] \in {"adjust", "transfer"}
  /\ Rollback(s)
  /\ Run(s, "idle")
  /\ route' = [route EXCEPT ![s] = NoRoute]

Wants(s) == IF handler[s] = "transfer" THEN {route[s].to} \ held[s] ELSE {}

WaitsFor(s, t) == s # t /\ Wants(s) \cap held[t] # {}

\* Sessions waiting for one another in a circle.
WaitCycle(C) ==
  /\ C # {}
  /\ \A s \in C : (\E t \in C : WaitsFor(s, t)) /\ (\E t \in C : WaitsFor(t, s))

\* PostgreSQL's deadlock detector aborts one transaction of a circle.
AbortDeadlockVictim(s) ==
  /\ \E C \in SUBSET Sessions : s \in C /\ WaitCycle(C)
  /\ FailWarehouse(s)

WarehouseHandler(s) ==
  \/ \E row \in Rows : BeginAdjust(s, row)
  \/ \E d \in -MaxDelta..MaxDelta : AdjustStock(s, d)
  \/ RejectAdjust(s)
  \/ \E from, to \in Rows : BeginTransfer(s, from, to)
  \/ LockDestination(s)
  \/ RejectTransfer(s)
  \/ \E q \in TransferQuantities : TransferStock(s, q)
  \/ FailWarehouse(s)
  \/ AbortDeadlockVictim(s)

WarehouseNext == \E s \in ApiSessions : WarehouseHandler(s)

\* A transfer has its source row locked from its first step on.
TransferHoldsSource ==
  \A s \in Sessions : handler[s] = "transfer" =>
    /\ route[s].from \in held[s]
    /\ route[s].to \in Rows \ {route[s].from}

WarehouseTypeOK == route \in [Sessions -> Route]
=============================================================================
