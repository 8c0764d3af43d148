-------------------------------- MODULE Plant --------------------------------
(***************************************************************************)
(* The whole inventory service: reservations, adjustments, transfers and    *)
(* production batches over the same stock rows and the same sessions.       *)
(***************************************************************************)
EXTENDS Inventory, BatchProduction

VARIABLES
  outrun,     \* history: rows that had less available than a start had found there
  contested   \* history: reservations that two sessions were to settle at one time

plantVars == <<vars, batchVars, outrun, contested>>

PlantInit == Init /\ BatchInit /\ outrun = {} /\ contested = {}

PlantStep ==
  \/ Next /\ UNCHANGED batchVars
  \/ BatchNext /\ UNCHANGED <<reservationVars, route>>

\* The rows that the session has found stock in and is about to consume from.
Starting(s) ==
  IF handler[s] = "start" THEN {Bom[job[s].batch][i].row : i \in DOMAIN Bom[job[s].batch]}
                          ELSE {}

\* The available stock of a row falls behind the back of a start.
Outruns(row) ==
  /\ quantity_available(stock'[row]) < quantity_available(stock[row])
  /\ \E s \in Sessions : row \in Starting(s) \cap Starting(s)'

Contested(r) == \E s, t \in Sessions : s # t /\ r \in Claimed(s) \cap Claimed(t)

PlantNext ==
  /\ PlantStep
  /\ outrun' = outrun \cup {row \in Rows : Outruns(row)}
  /\ contested' = contested \cup {r \in Reservations : Contested(r)'}

PlantSpec == PlantInit /\ [][PlantNext]_plantVars

-----------------------------------------------------------------------------
PlantTypeOK == TypeOK /\ BatchTypeOK

\* Every unit on hand is explained by the movement log although batches,
\* transfers and reservations write the same rows, and a lock is never shared.
RowsConsistent == PlantTypeOK /\ Balanced /\ Exclusion /\ FreshCopies

\* A batch reported completed has credited its product, whatever other request
\* for the batch was under way.
CompletedYields ==
  \A b \in Batches : batch[b].status = "completed" => batch[b].yielded > 0

\* A batch takes its components once and credits its product once, and what it
\* took was for a batch that was started, unless two requests worked on it at
\* one time: nothing in the code sees to that; staff who do not click twice do.
ConsumesOnce ==
  \A b \in Batches \ rivals :
    /\ batch[b].consumed <= 1 /\ batch[b].yielded <= 1
    /\ batch[b].consumed = 1 => batch[b].status \notin {"absent", "planned"}
    /\ batch[b].yielded = 1 => batch[b].status = "completed"

\* A batch in production has consumed its components: start_batch is to
\* "transition PLANNED -> IN_PROGRESS and consume BOM component stock".
ProductionConsumes ==
  \A b \in Batches : batch[b].status \in {"in_progress", "completed"} => batch[b].consumed > 0

\* No reservation of the row was ever to be settled by two sessions at one time.
Uncontested(row) == \A r \in contested : reservation[r].row # row

\* Every batch that consumed from the row names it on one line of its bill.
NamedOnce(row) ==
  \A b \in Batches : batch[b].consumed > 0 =>
    \A i, j \in DOMAIN Bom[b] : Bom[b][i].row = row /\ Bom[b][j].row = row => i = j

\* However batches, transfers and adjustments cross the reservations of a row,
\* quantity_reserved is what its active reservations hold, unless two sessions
\* settled one of them at a time.
UncontestedBacked ==
  \A row \in Rows : Uncontested(row) => stock[row].quantity_reserved = Reserved(row)

\* A row promises more than it has in three ways only: two sessions settled one
\* of its reservations, its stock fell between a start's unlocked check of it
\* and the commit, or a bill that names it twice passed that check line by line.
OversoldOnlyByRaces ==
  \A row \in Rows \ outrun : Uncontested(row) /\ NamedOnce(row) =>
    /\ stock[row].quantity_reserved >= 0
    /\ stock[row].quantity_reserved <= stock[row].quantity_on_hand

\* A reservation settled by one session at a time is settled for good.
UncontestedIsFinal ==
  [][\A r \in Reservations \ contested :
       reservation[r].status \in {"confirmed", "released"} =>
         reservation'[r].status = reservation[r].status]_plantVars

\* What a handler has found of a reservation nobody else is to settle still holds.
UncontestedActive ==
  \A s \in Sessions : \A r \in Claimed(s) \ contested : Active(r)

\* What a start has found of a row still holds, unless it is outrun.
StartsCovered ==
  \A s \in Sessions : handler[s] = "start" =>
    \A i \in DOMAIN Bom[job[s].batch] :
      LET line == Bom[job[s].batch][i]
      IN  line.row \notin outrun => line.quantity <= quantity_available(stock[line.row])

Producing == {"start", "complete", "set_status"}

\* What a request for a batch carries from its first step to its last: the
\* batch and the status it is to get, and complete_batch alone completes.
JobsNamed ==
  \A s \in Sessions : handler[s] \in Producing =>
    /\ job[s].batch \in Batches /\ job[s].target \in Statuses
    /\ handler[s] = "start" => job[s].target = "in_progress"
    /\ handler[s] = "complete" <=> job[s].target = "completed"

\* Two requests that are for one batch have made it one of rivals.
RivalsMet ==
  \A s, t \in Sessions :
    s # t /\ job[s].batch = job[t].batch => job[s].batch \in rivals \cup {NoBatch}

\* Of any other batch, the status that its request read before it had the row
\* locks still allows the transition when it commits.
ProducersAlone ==
  \A s \in Sessions : handler[s] \in Producing /\ job[s].batch \notin rivals =>
    _assert_transition(job[s].batch, job[s].target)
=============================================================================
