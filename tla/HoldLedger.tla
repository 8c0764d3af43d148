------------------------------ MODULE HoldLedger ------------------------------
(***************************************************************************)
(* What the inventory service promises about reservations, with no session, *)
(* lock or task in sight: a hold is granted in one step out of the units a  *)
(* row has free, stays as granted until it is consumed or given back, and   *)
(* does either once.  Giving it back frees exactly its units; consuming it  *)
(* frees none.  Other stock operations change what is free, never a hold.   *)
(***************************************************************************)
EXTENDS Integers

CONSTANTS Rows, Reservations, MaxQuantity, NoRow, InitFree

VARIABLES
  free,   \* units of a row that nobody holds
  hold    \* each hold: its state, its row and its quantity

ledgerVars == <<free, hold>>

NoHold == [state |-> "none", row |-> NoRow, quantity |-> 0]

LedgerInit ==
  /\ free = InitFree
  /\ hold = [r \in Reservations |-> NoHold]

Grant(r, row, q) ==
  /\ hold[r] = NoHold
  /\ q <= free[row]
  /\ free' = [free EXCEPT ![row] = @ - q]
  /\ hold' = [hold EXCEPT ![r] = [state |-> "held", row |-> row, quantity |-> q]]

Consume(r) ==
  /\ hold[r].state = "held"
  /\ hold' = [hold EXCEPT ![r].state = "consumed"]
  /\ UNCHANGED free

GiveBack(r) ==
  /\ hold[r].state = "held"
  /\ hold' = [hold EXCEPT ![r].state = "returned"]
  /\ free' = [free EXCEPT ![hold[r].row] = @ + hold[r].quantity]

\* Receiving, correcting, transferring: units appear or go, but only free ones.
Supply ==
  /\ DOMAIN free' = Rows
  /\ \A row \in Rows : free'[row] >= 0
  /\ UNCHANGED hold

LedgerNext ==
  \/ \E r \in Reservations, row \in Rows, q \in 1..MaxQuantity : Grant(r, row, q)
  \/ \E r \in Reservations : Consume(r) \/ GiveBack(r)
  \/ Supply

LedgerSpec == LedgerInit /\ [][LedgerNext]_ledgerVars
=============================================================================
