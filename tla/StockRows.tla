------------------------------ MODULE StockRows ------------------------------
(***************************************************************************)
(* The stock_levels table of the inventory service and the way every        *)
(* handler reaches it: a session selects a row FOR UPDATE, works on the     *)
(* copy it read, and writes the copy back with the row of the movement log  *)
(* when it commits.  Nothing a session does is visible before its commit    *)
(* (READ COMMITTED), and a row it locked stays locked until its transaction *)
(* ends.  The handlers are in StockReservation, WarehouseStock and          *)
(* BatchProduction, which extend this module.                               *)
(***************************************************************************)
EXTENDS Integers, FiniteSets

CONSTANTS
  Rows,            \* rows of stock_levels, one for a (warehouse, item) pair
  ApiSessions,     \* sessions serving HTTP requests (one request at a time)
  WorkerSessions,  \* sessions of Celery workers
  Item,            \* the item of each row
  InitOnHand,      \* quantity_on_hand of each row at the start
  NoRow            \* stands for a row where there is none

Sessions == ApiSessions \cup WorkerSessions

ASSUME RowsAssumption ==
  /\ IsFiniteSet(Rows)
  /\ InitOnHand \in [Rows -> Nat]
  /\ NoRow \notin Rows

VARIABLES
  stock,    \* committed rows of stock_levels
  moved,    \* committed sum of quantity_delta in stock_movement_logs, by row
  held,     \* rows a session's transaction has locked FOR UPDATE
  copy,     \* the rows as the session read them when it locked them
  handler   \* the request or task a session is running

rowVars == <<stock, moved, held, copy, handler>>

Level == [quantity_on_hand : Int, quantity_reserved : Int]

NoLevel == [quantity_on_hand |-> 0, quantity_reserved |-> 0]

\* Mutant: reserved units count as available.
IgnoreReserved(level) == level.quantity_on_hand

quantity_available(level) == level.quantity_on_hand - level.quantity_reserved

RowsInit ==
  /\ stock = [row \in Rows |-> [quantity_on_hand |-> InitOnHand[row],
                                quantity_reserved |-> 0]]
  /\ moved = [row \in Rows |-> 0]
  /\ held = [s \in Sessions |-> {}]
  /\ copy = [s \in Sessions |-> [row \in Rows |-> NoLevel]]
  /\ handler = [s \in Sessions |-> "idle"]

Idle(s) == handler[s] = "idle"

Run(s, h) == handler' = [handler EXCEPT ![s] = h]

\* Mutant: a plain SELECT.
SelectUnlocked(s, row) ==
  /\ held' = [held EXCEPT ![s] = @ \cup {row}]
  /\ copy' = [copy EXCEPT ![s][row] = stock[row]]
  /\ UNCHANGED <<stock, moved>>

\* SELECT ... WITH FOR UPDATE: waits while another transaction has the row,
\* then reads its latest committed version.
SelectForUpdate(s, row) ==
  /\ \A t \in Sessions \ {s} : row \notin held[t]
  /\ held' = [held EXCEPT ![s] = @ \cup {row}]
  /\ copy' = [copy EXCEPT ![s][row] = stock[row]]
  /\ UNCHANGED <<stock, moved>>

\* Mutant: the transaction is left open.
LeaveOpen(s) ==
  /\ UNCHANGED held
  /\ copy' = [copy EXCEPT ![s] = [row \in Rows |-> NoLevel]]

EndTransaction(s) ==
  /\ held' = [held EXCEPT ![s] = {}]
  /\ copy' = [copy EXCEPT ![s] = [row \in Rows |-> NoLevel]]

\* db.commit() of the locked rows, with the quantity_delta of each row's log.
Commit(s, levels, delta) ==
  /\ stock' = [row \in Rows |-> IF row \in held[s] THEN levels[row] ELSE stock[row]]
  /\ moved' = [row \in Rows |-> IF row \in held[s] THEN moved[row] + delta[row]
                                                   ELSE moved[row]]
  /\ EndTransaction(s)

\* The session is closed without a commit: an HTTPException, a database error,
\* a deadlock victim, a crashed process.
Rollback(s) ==
  /\ EndTransaction(s)
  /\ UNCHANGED <<stock, moved>>

\* Every request and task that touches stock_levels.
Handlers ==
  {"idle", "create", "schedule", "confirm", "release", "release_task", "sweep",
   "adjust", "transfer", "start", "complete", "set_status"}

RowsTypeOK ==
  /\ stock \in [Rows -> Level]
  /\ moved \in [Rows -> Int]
  /\ held \in [Sessions -> SUBSET Rows]
  /\ copy \in [Sessions -> [Rows -> Level]]
  /\ handler \in [Sessions -> Handlers]

-----------------------------------------------------------------------------
\* The movement log explains every unit: on-hand stock is what the row started
\* with plus the deltas logged for it (core/audit.py calls the log the source
\* of truth).  A lost update of a row breaks it.
Balanced ==
  \A row \in Rows : stock[row].quantity_on_hand = InitOnHand[row] + moved[row]

\* Two transactions never hold one row, and a held row is still as it was read.
Exclusion ==
  \A s, t \in Sessions : s # t => held[s] \cap held[t] = {}

FreshCopies ==
  \A s \in Sessions : \A row \in held[s] : copy[s][row] = stock[row]
=============================================================================
