---------------------------- MODULE Manufacturing ----------------------------
(***************************************************************************)
(* Production batches of manufacturing_service and the raw materials they   *)
(* consume (production_batch_service.py, raw_material_service.py).  Each    *)
(* request reads its rows without a lock, computes, and commits once; a     *)
(* stock is written as a value, and only the columns changed are written.   *)
(***************************************************************************)
EXTENDS Integers, Sequences, FiniteSets, FiniteSums

CONSTANTS
  Materials,
  Batches,     \* production batches, planned or not yet
  Bill,        \* the lines of the bill of each: a material and a quantity
  Clerks,      \* requests under way
  Increments,  \* quantities of a stock increase or decrease
  MaxStock     \* bound on increases of a stock

ASSUME ManufacturingAssumption ==
  /\ IsFiniteSet(Batches)
  /\ Bill \in [Batches -> Seq([material : Materials, quantity : Nat \ {0}])]
  /\ Increments \subseteq Nat \ {0} /\ MaxStock \in Nat

VARIABLES
  stock,     \* current_stock of each material
  run,       \* status of each batch; "absent" before it is planned
  consumed,  \* batch_materials: what the rows of each batch say was consumed
  clerk,     \* what the request has read, and what it will write
  supplied,  \* history: increases less decreases of each, while uncontended
  contended, \* history: materials that two requests held at one time
  entangled  \* history: batches that two requests held at one time

mfgVars == <<stock, run, consumed, clerk, supplied, contended, entangled>>

NoTask == [op |-> "none", batch |-> {}, status |-> "absent", line |-> 0, left |-> <<>>]

ManufacturingInit ==
  /\ stock = [m \in Materials |-> 0]
  /\ run = [b \in Batches |-> "absent"]
  /\ consumed = [b \in Batches |-> [m \in Materials |-> 0]]
  /\ clerk = [k \in Clerks |-> NoTask]
  /\ supplied = [m \in Materials |-> 0]
  /\ contended = {} /\ entangled = {}

HoldsBatch(k, b) == b \in clerk[k].batch
HoldsMaterial(k, m) == m \in DOMAIN clerk[k].left

Finish(k) == clerk' = [clerk EXCEPT ![k] = NoTask]

-----------------------------------------------------------------------------
(* Stock.                                                                  *)

\* The row of a material is read into a request: what it leaves of the stock.
LoadMaterial(k, m, task) ==
  /\ clerk' = [clerk EXCEPT ![k] = task]
  /\ contended' = IF \E j \in Clerks \ {k} : HoldsMaterial(j, m) THEN contended \cup {m}
                  ELSE contended

BeginIncrease(k, m, quantity) ==
  /\ clerk[k] = NoTask
  /\ stock[m] + quantity <= MaxStock
  /\ LoadMaterial(k, m, [NoTask EXCEPT !.op = "stock", !.left = [i \in {m} |-> stock[m] + quantity]])
  /\ UNCHANGED <<stock, run, consumed, supplied, entangled>>

\* Mutant: the stock is not compared.
DecreaseUnchecked(k, m, quantity) ==
  /\ clerk[k] = NoTask
  /\ LoadMaterial(k, m, [NoTask EXCEPT !.op = "stock", !.left = [i \in {m} |-> stock[m] - quantity]])
  /\ UNCHANGED <<stock, run, consumed, supplied, entangled>>

BeginDecrease(k, m, quantity) ==
  /\ clerk[k] = NoTask
  /\ stock[m] >= quantity
  /\ LoadMaterial(k, m, [NoTask EXCEPT !.op = "stock", !.left = [i \in {m} |-> stock[m] - quantity]])
  /\ UNCHANGED <<stock, run, consumed, supplied, entangled>>

\* increase_stock and decrease_stock write the value computed from what was read.
CommitStock(k) ==
  /\ clerk[k].op = "stock"
  /\ \E m \in DOMAIN clerk[k].left :
       /\ stock' = [stock EXCEPT ![m] = clerk[k].left[m]]
       /\ supplied' = [supplied EXCEPT ![m] = @ + clerk[k].left[m] - stock[m]]
  /\ Finish(k)
  /\ UNCHANGED <<run, consumed, contended, entangled>>

-----------------------------------------------------------------------------
(* Batches.                                                                *)

create_batch(b) ==
  /\ run[b] = "absent"
  /\ run' = [run EXCEPT ![b] = "planned"]
  /\ UNCHANGED <<stock, consumed, clerk, supplied, contended, entangled>>

\* The route reads the batch.
LoadBatch(k, b, op) ==
  /\ clerk[k] = NoTask
  /\ run[b] # "absent"
  /\ clerk' = [clerk EXCEPT ![k] =
       [NoTask EXCEPT !.op = op, !.batch = {b}, !.status = run[b], !.line = 1]]
  /\ entangled' = IF \E j \in Clerks \ {k} : HoldsBatch(j, b) THEN entangled \cup {b}
                  ELSE entangled
  /\ UNCHANGED <<stock, run, consumed, supplied, contended>>

BeginStart(k, b) == run[b] = "planned" /\ LoadBatch(k, b, "start")

BeginComplete(k, b) == run[b] = "in_progress" /\ LoadBatch(k, b, "complete")
BeginCancel(k, b) == LoadBatch(k, b, "cancel")

\* _consume_materials, for a line: the stock is read once for a material, and
\* a second line of it takes from what the first has left.
ConsumeLine(k, b) ==
  LET task == clerk[k]
      line == Bill[b][task.line]
      m == line.material
      at_hand == IF HoldsMaterial(k, m) THEN task.left[m] ELSE stock[m]
      left == [i \in DOMAIN task.left \cup {m} |->
                 IF i = m THEN at_hand - line.quantity ELSE task.left[i]]
  IN  /\ task.op = "start" /\ HoldsBatch(k, b) /\ task.line <= Len(Bill[b])
      /\ IF at_hand < line.quantity
         THEN Finish(k) /\ UNCHANGED contended  \* "Insufficient stock": all is rolled back
         ELSE LoadMaterial(k, m, [task EXCEPT !.line = task.line + 1, !.left = left])
      /\ UNCHANGED <<stock, run, consumed, supplied, entangled>>

Needs(b, m) ==
  SumOver([i \in DOMAIN Bill[b] |-> Bill[b][i].quantity],
          {i \in DOMAIN Bill[b] : Bill[b][i].material = m})

\* The batch, the stocks and the rows of what was consumed are committed.
start_batch(k, b) ==
  /\ clerk[k].op = "start" /\ HoldsBatch(k, b) /\ clerk[k].line > Len(Bill[b])
  /\ run' = [run EXCEPT ![b] = "in_progress"]
  /\ stock' = [m \in Materials |-> IF HoldsMaterial(k, m) THEN clerk[k].left[m] ELSE stock[m]]
  /\ consumed' = [consumed EXCEPT ![b] = [m \in Materials |-> @[m] + Needs(b, m)]]
  /\ Finish(k)
  /\ UNCHANGED <<supplied, contended, entangled>>

EndBatch(k, b, op, status) ==
  /\ clerk[k].op = op /\ HoldsBatch(k, b)
  /\ run' = [run EXCEPT ![b] = IF clerk[k].status = status THEN @ ELSE status]
  /\ Finish(k)
  /\ UNCHANGED <<stock, consumed, supplied, contended, entangled>>

complete_batch(k, b) == EndBatch(k, b, "complete", "completed")
cancel_batch(k, b) == EndBatch(k, b, "cancel", "cancelled")

\* A request fails, or its process dies, before the commit.
AbandonTask(k) ==
  /\ clerk[k] # NoTask
  /\ Finish(k)
  /\ UNCHANGED <<stock, run, consumed, supplied, contended, entangled>>

ClerkStep(k) ==
  \/ CommitStock(k) \/ AbandonTask(k)
  \/ \E m \in Materials, quantity \in Increments :
       BeginIncrease(k, m, quantity) \/ BeginDecrease(k, m, quantity)
  \/ \E b \in Batches :
       \/ BeginStart(k, b) \/ ConsumeLine(k, b) \/ start_batch(k, b)
       \/ BeginComplete(k, b) \/ complete_batch(k, b)
       \/ BeginCancel(k, b) \/ cancel_batch(k, b)

ManufacturingNext ==
  \/ \E b \in Batches : create_batch(b)
  \/ \E k \in Clerks : ClerkStep(k)

ManufacturingSpec == ManufacturingInit /\ [][ManufacturingNext]_mfgVars

-----------------------------------------------------------------------------
BatchStatuses == {"absent", "planned", "in_progress", "completed", "cancelled"}

ManufacturingTypeOK ==
  /\ stock \in [Materials -> Int]
  /\ run \in [Batches -> BatchStatuses]
  /\ consumed \in [Batches -> [Materials -> Nat]]
  /\ \A k \in Clerks : /\ clerk[k].op \in {"none", "stock", "start", "complete", "cancel"}
                       /\ clerk[k].batch \subseteq Batches
                       /\ DOMAIN clerk[k].left \subseteq Materials
  /\ supplied \in [Materials -> Int]
  /\ contended \subseteq Materials /\ entangled \subseteq Batches

\* A stock is never negative, although nobody locks it, and while no two
\* requests held it at one time it is what was supplied less what the rows of
\* the batches say was consumed, failed starts and two-line bills included.
StockAccounted ==
  \A m \in Materials :
    /\ stock[m] >= 0
    /\ m \notin contended =>
         stock[m] = supplied[m] - SumOver([b \in Batches |-> consumed[b][m]], Batches)

\* A batch that runs or is complete has consumed its bill, once, and a planned
\* one nothing, unless two requests worked on it at one time.
BillConsumedOnce ==
  \A b \in Batches \ entangled : \A m \in Materials :
    /\ run[b] \in {"absent", "planned"} => consumed[b][m] = 0
    /\ run[b] \in {"in_progress", "completed"} => consumed[b][m] = Needs(b, m)
    /\ run[b] = "cancelled" => consumed[b][m] \in {0, Needs(b, m)}

\* Raw materials and batches agree: stock is accounted for, and each batch has
\* consumed what its status says (production_batch_service.py:95-168, 184-224).
MaterialsAccounted == StockAccounted /\ BillConsumedOnce
=============================================================================
