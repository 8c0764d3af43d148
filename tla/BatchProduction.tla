---------------------------- MODULE BatchProduction ----------------------------
(***************************************************************************)
(* batch_service.py: production batches that consume the stock of their     *)
(* components and credit the stock of their product.  A batch's status is   *)
(* read with a plain SELECT and written at the commit; the component stock  *)
(* is checked without a lock before its rows are locked one by one, in the  *)
(* order of the bill of material.                                           *)
(***************************************************************************)
EXTENDS StockRows, Sequences, FiniteSums

CONSTANTS
  Batches,   \* ids of production_batches
  NoBatch,   \* stands for a batch where there is none
  Bom,       \* a batch's components: the row of each, and the quantity it takes
  Product,   \* the row of a batch's finished product
  MaxYield,  \* bound: largest quantity one batch yields
  MaxStock   \* bound: no batch is completed that brings more units in than this

ASSUME BatchAssumption ==
  /\ NoBatch \notin Batches
  /\ Bom \in [Batches -> Seq([row : Rows, quantity : Nat])]
  /\ Product \in [Batches -> Rows]
  /\ MaxYield \in Nat /\ MaxStock \in Nat

VARIABLES
  batch,   \* each batch: its status and how often the log has it consume and yield
  job,     \* what the session is doing to which batch, and the lines it has locked
  rivals   \* history: batches that two requests worked on at one time

batchVars == <<batch, job, rivals>>

Statuses == {"planned", "in_progress", "completed", "cancelled", "failed"}

VALID_TRANSITIONS ==
  [planned |-> {"in_progress", "cancelled"},
   in_progress |-> {"completed", "failed", "cancelled"},
   completed |-> {}, cancelled |-> {}, failed |-> {}, absent |-> {}]

Batch == [status : Statuses \cup {"absent"}, consumed : Nat, yielded : Nat]

Job == [batch : Batches \cup {NoBatch}, target : Statuses \cup {"none"}, line : Nat]

NoJob == [batch |-> NoBatch, target |-> "none", line |-> 0]

BatchInit ==
  /\ batch = [b \in Batches |-> [status |-> "absent", consumed |-> 0, yielded |-> 0]]
  /\ job = [s \in Sessions |-> NoJob]
  /\ rivals = {}

\* Mutant: only final statuses are refused.
assert_not_final(b, target) == VALID_TRANSITIONS[batch[b].status] # {}

_assert_transition(b, target) == target \in VALID_TRANSITIONS[batch[b].status]

\* Each component is compared on its own, and no row is locked.
check_availability(b) ==
  \A i \in DOMAIN Bom[b] :
    quantity_available(stock[Bom[b][i].row]) >= Bom[b][i].quantity

\* What the lines of the bill take from a row, all together.
Consumption(b, row) ==
  SumOver([i \in DOMAIN Bom[b] |-> Bom[b][i].quantity],
          {i \in DOMAIN Bom[b] : Bom[b][i].row = row})

BeginJob(s, h, b, target) ==
  /\ Idle(s)
  /\ _assert_transition(b, target)
  /\ Run(s, h)
  /\ job' = [job EXCEPT ![s] = [batch |-> b, target |-> target, line |-> 0]]
  /\ rivals' = IF \E t \in Sessions : job[t].batch = b THEN rivals \cup {b} ELSE rivals
  /\ UNCHANGED <<stock, moved, held, copy, batch>>

FinishJob(s) == Run(s, "idle") /\ job' = [job EXCEPT ![s] = NoJob] /\ UNCHANGED rivals

-----------------------------------------------------------------------------
\* POST /batches
CreateBatch(s, b) ==
  /\ Idle(s)
  /\ batch[b].status = "absent"
  /\ check_availability(b)
  /\ batch' = [batch EXCEPT ![b].status = "planned"]
  /\ UNCHANGED <<rowVars, job, rivals>>

\* Mutant: the check of the components is left to create_batch.
StartUnchecked(s, b) == BeginJob(s, "start", b, "in_progress")

\* POST /batches/{id}/start
BeginStart(s, b) ==
  /\ check_availability(b)
  /\ BeginJob(s, "start", b, "in_progress")

NextLine(s) == Bom[job[s].batch][job[s].line + 1]

LinesLeft(s) == handler[s] = "start" /\ job[s].line < Len(Bom[job[s].batch])

LockComponent(s) ==
  /\ LinesLeft(s)
  /\ SelectForUpdate(s, NextLine(s).row)
  /\ job' = [job EXCEPT ![s].line = @ + 1]
  /\ UNCHANGED <<handler, batch, rivals>>

StartBatch(s) ==
  /\ handler[s] = "start"
  /\ ~LinesLeft(s)
  /\ LET b == job[s].batch
     IN /\ Commit(s, [row \in Rows |-> [copy[s][row] EXCEPT !.quantity_on_hand =
                                          @ - Consumption(b, row)]],
                     [row \in Rows |-> -Consumption(b, row)])
        /\ batch' = [batch EXCEPT ![b].status = "in_progress", ![b].consumed = @ + 1]
  /\ FinishJob(s)

-----------------------------------------------------------------------------
\* POST /batches/{id}/status with status "completed"
BeginComplete(s, b) == BeginJob(s, "complete", b, "completed")

LockProduct(s) ==
  /\ handler[s] = "complete"
  /\ held[s] = {}
  /\ SelectForUpdate(s, Product[job[s].batch])
  /\ UNCHANGED <<handler, batchVars>>

CompleteBatch(s, y) ==
  /\ handler[s] = "complete"
  /\ SumOver([row \in Rows |-> stock[row].quantity_on_hand], Rows) + y <= MaxStock
  /\ LET b == job[s].batch
         row == Product[b]
     IN /\ row \in held[s]
        /\ Commit(s, [copy[s] EXCEPT ![row].quantity_on_hand = @ + y],
                     [x \in Rows |-> IF x = row THEN y ELSE 0])
        /\ batch' = [batch EXCEPT ![b].status = "completed", ![b].yielded = @ + 1]
  /\ FinishJob(s)

\* POST /batches/{id}/status with any other status: "in_progress" is one.
BeginStatus(s, b, target) ==
  /\ target # "completed"
  /\ BeginJob(s, "set_status", b, target)

cancel_or_fail_batch(s) ==
  /\ handler[s] = "set_status"
  /\ batch' = [batch EXCEPT ![job[s].batch].status = job[s].target]
  /\ FinishJob(s)
  /\ UNCHANGED <<stock, moved, held, copy>>

-----------------------------------------------------------------------------
\* A handler of this module stops, with its transaction rolled back.
FailBatch(s) ==
  /\ handler[s] \in {"start", "complete", "set_status"}
  /\ Rollback(s)
  /\ FinishJob(s)
  /\ UNCHANGED batch

BatchHandler(s) ==
  \/ \E b \in Batches : CreateBatch(s, b) \/ BeginStart(s, b) \/ BeginComplete(s, b)
  \/ LockComponent(s) \/ StartBatch(s)
  \/ LockProduct(s)
  \/ \E y \in 0..MaxYield : CompleteBatch(s, y)
  \/ \E b \in Batches, target \in Statuses : BeginStatus(s, b, target)
  \/ cancel_or_fail_batch(s)
  \/ FailBatch(s)

BatchNext == \E s \in ApiSessions : BatchHandler(s)

BatchTypeOK ==
  /\ batch \in [Batches -> Batch]
  /\ job \in [Sessions -> Job]
  /\ rivals \subseteq Batches
=============================================================================
