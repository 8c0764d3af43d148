------------------------------- MODULE Shipments -------------------------------
(***************************************************************************)
(* logistics_service: booking a shipment with a carrier, falling back to   *)
(* the next one (services/allocation.py), booking a reverse pickup         *)
(* (services/returns.py), and following the parcel by fetching the scans   *)
(* the carrier lists (services/tracking.py, tasks/tracking_sync.py).       *)
(*                                                                         *)
(* A call to a carrier is no part of the database transaction: the carrier *)
(* may book and the answer, or the commit that follows, be lost.  The      *)
(* tracking tasks run every fifteen minutes, are redelivered when a worker *)
(* is lost, and share the shipments with the refresh a client may ask for. *)
(***************************************************************************)
EXTENDS Naturals, Sequences, FiniteSets, SequencesExt

CONSTANTS
  Parcels,     \* calls that book a shipment; each makes at most one row
  Reverses,    \* those of them that book a reverse pickup ...
  OriginalOf,  \* ... and the parcel each of them returns
  Carriers,
  Rankings,    \* the orders in which the rules engine may rank carriers
  Trackers,    \* executions of sync_shipment_tracking
  Coarse,      \* parcels whose carrier may stamp two scans with one time
  MaxScans     \* bound on the scans of each parcel

ASSUME ShipmentsAssumption ==
  /\ Reverses \subseteq Parcels
  /\ OriginalOf \in [Reverses -> Parcels \ Reverses]
  /\ Rankings \subseteq Seq(Carriers) \ {<<>>}
  /\ Coarse \subseteq Parcels
  /\ MaxScans \in [Parcels -> Nat]

VARIABLES
  shipment,    \* the shipments table: status ("absent" before the row) and carrier
  events,      \* tracking_events: how many rows hold each scan
  booking,     \* a booking call in progress: its step and the carriers left
  tracking,    \* a tracking call in progress
  booked,      \* at the carriers: who holds a booking for the parcel
  scans,       \* at the carrier of the row: the scans so far, oldest first
  told,        \* the status last pushed to Orders and to the customer
  mishap,      \* history: parcels with a booking call lost halfway
  crossed,     \* history: parcels followed by two calls at once
  misheard     \* history: parcels with a push that failed, or whose commit was lost

bookingVars == <<booking, booked, mishap>>
trackingVars == <<tracking, events, told, crossed, misheard>>
shipmentVars == <<shipment, scans, bookingVars, trackingVars>>

\* What the adapters map a scan to; picked up, in transit and out for delivery
\* are one here, and so are the ends other than "failed".
ScanStatus == {"in_transit", "failed", "delivered"}
Terminal == {"failed", "delivered"}
ShipmentStatus == {"created"} \cup ScanStatus

NoShipment == [status |-> "absent"]
NoTracking == [at |-> "idle"]
Present(p) == shipment[p].status # "absent"

\* The scans of a parcel come with times that never run backwards.
StampOf(p) == IF scans[p] = <<>> THEN 0 ELSE Last(scans[p]).time

ShipmentsInit ==
  /\ shipment = [p \in Parcels |-> NoShipment]
  /\ events = [p \in Parcels |-> [i \in 1..MaxScans[p] |-> 0]]
  /\ booking = [p \in Parcels |-> [at |-> "idle", left |-> <<>>]]
  /\ tracking = [t \in Trackers |-> NoTracking]
  /\ booked = [p \in Parcels |-> {}]
  /\ scans = [p \in Parcels |-> <<>>]
  /\ told = [p \in Parcels |-> "created"]
  /\ mishap = {}
  /\ crossed = {}
  /\ misheard = {}

-----------------------------------------------------------------------------
(* Booking.                                                                *)

StartBooking(p, ranking) ==
  /\ booking[p].at = "idle" /\ ~Present(p)
  /\ booking' = [booking EXCEPT ![p] = [at |-> "calling", left |-> ranking]]
  /\ UNCHANGED <<shipment, scans, booked, mishap, trackingVars>>

\* allocate_and_book_shipment: the serviceable carriers, best first; a
\* preferred one is moved to the front, which is another ranking.
AllocateShipment(p) ==
  p \notin Reverses /\ \E ranking \in Rankings : StartBooking(p, ranking)

\* create_reverse_pickup asks the original carrier, and no other.
CreateReversePickup(p) ==
  /\ p \in Reverses
  /\ Present(OriginalOf[p])
  /\ StartBooking(p, <<shipment[OriginalOf[p]].carrier>>)

Asked(p) == Head(booking[p].left)

\* Mutant: the loop goes on to the next carrier after a booking.
BookWithAll(p) ==
  /\ booking[p].at = "calling"
  /\ booked' = [booked EXCEPT ![p] = @ \cup {Asked(p)}]
  /\ booking' = IF Len(booking[p].left) = 1 THEN [booking EXCEPT ![p].at = "booked"]
                ELSE [booking EXCEPT ![p].left = Tail(@)]
  /\ UNCHANGED <<shipment, scans, mishap, trackingVars>>

CarrierBooks(p) ==
  /\ booking[p].at = "calling"
  /\ booked' = [booked EXCEPT ![p] = @ \cup {Asked(p)}]
  /\ booking' = [booking EXCEPT ![p].at = "booked"]
  /\ UNCHANGED <<shipment, scans, mishap, trackingVars>>

\* CarrierAPIError: fall through to the next carrier, or give up (a 422).
FallBack(p) ==
  booking' = IF Len(booking[p].left) = 1
             THEN [booking EXCEPT ![p] = [at |-> "idle", left |-> <<>>]]
             ELSE [booking EXCEPT ![p].left = Tail(@)]

CarrierRefuses(p) ==
  /\ booking[p].at = "calling"
  /\ FallBack(p)
  /\ UNCHANGED <<shipment, scans, booked, mishap, trackingVars>>

\* A timeout, or an answer without a waybill, is the same CarrierAPIError,
\* although the carrier may have booked.
AnswerLost(p) ==
  /\ booking[p].at = "calling"
  /\ booked' = [booked EXCEPT ![p] = @ \cup {Asked(p)}]
  /\ FallBack(p)
  /\ mishap' = mishap \cup {p}
  /\ UNCHANGED <<shipment, scans, trackingVars>>

\* The row, its audit event, and the commit of the route.
CommitShipment(p) ==
  /\ booking[p].at = "booked"
  /\ shipment' = [shipment EXCEPT ![p] = [status |-> "created", carrier |-> Asked(p)]]
  /\ booking' = [booking EXCEPT ![p] = [at |-> "idle", left |-> <<>>]]
  /\ UNCHANGED <<scans, booked, mishap, trackingVars>>

\* The request dies between the booking and the commit.  So does the insert of
\* a reverse pickup answered with the waybill of the original, which is unique.
LoseBooking(p) ==
  /\ booking[p].at = "booked"
  /\ booking' = [booking EXCEPT ![p] = [at |-> "idle", left |-> <<>>]]
  /\ mishap' = mishap \cup {p}
  /\ UNCHANGED <<shipment, scans, booked, trackingVars>>

-----------------------------------------------------------------------------
(* The carrier scans a parcel: a failed attempt may be followed by another.*)

ScanParcel(p) ==
  /\ Present(p)
  /\ Len(scans[p]) < MaxScans[p]
  /\ scans[p] # <<>> => Last(scans[p]).status # "delivered"
  /\ \E s \in ScanStatus, step \in IF p \in Coarse /\ scans[p] # <<>> THEN {0, 1} ELSE {1} :
       scans' = [scans EXCEPT ![p] = Append(@, [status |-> s, time |-> StampOf(p) + step])]
  /\ UNCHANGED <<shipment, bookingVars, trackingVars>>

-----------------------------------------------------------------------------
(* sync_shipment_tracking, by the task and by the refresh of a client.     *)

Following(t, p) == tracking[t].at # "idle" /\ tracking[t].parcel = p

\* The times of the checkpoints in the table.
StoredTimes(p) == {scans[p][i].time : i \in {j \in DOMAIN scans[p] : events[p][j] > 0}}

\* Mutant: the task selects the shipments that no scan has moved yet.
BeginUnscanned(t, p) ==
  /\ tracking[t].at = "idle"
  /\ Present(p) /\ shipment[p].status = "created"
  /\ tracking' = [tracking EXCEPT ![t] =
       [at |-> "loaded", parcel |-> p, status |-> shipment[p].status, known |-> StoredTimes(p)]]
  /\ crossed' = IF \E u \in Trackers : Following(u, p) THEN crossed \cup {p} ELSE crossed
  /\ UNCHANGED <<shipment, scans, bookingVars, events, told, misheard>>

\* The row and its events as loaded; a terminal shipment is left alone.
BeginTracking(t, p) ==
  /\ tracking[t].at = "idle"
  /\ Present(p) /\ shipment[p].status \notin Terminal
  /\ tracking' = [tracking EXCEPT ![t] =
       [at |-> "loaded", parcel |-> p, status |-> shipment[p].status, known |-> StoredTimes(p)]]
  /\ crossed' = IF \E u \in Trackers : Following(u, p) THEN crossed \cup {p} ELSE crossed
  /\ UNCHANGED <<shipment, scans, bookingVars, events, told, misheard>>

\* A checkpoint is new when no stored one has its time.
IsNew(scan, known) == scan.time \notin known

\* The new ones of the scans that the carrier lists, oldest first, by their place.
NewScans(t) ==
  LET p == tracking[t].parcel
  IN {i \in DOMAIN scans[p] : IsNew(scans[p][i], tracking[t].known)}

\* Mutant: the first of the new scans.
OldestOf(new) == Min(new)

NewestOf(new) == Max(new)

\* The carrier answers with the scans so far; with none new the call ends.
FetchTracking(t) ==
  /\ tracking[t].at = "loaded"
  /\ tracking' = [tracking EXCEPT ![t] =
       IF NewScans(t) = {} THEN NoTracking
       ELSE [at |-> "fetched", parcel |-> @.parcel, status |-> @.status, new |-> NewScans(t)]]
  /\ UNCHANGED <<shipment, scans, bookingVars, events, told, crossed, misheard>>

\* The carrier's error ends the call; so does a worker lost before the commit,
\* and its task is delivered again: another execution.
LoseTracking(t) ==
  /\ tracking[t].at # "idle"
  /\ tracking' = [tracking EXCEPT ![t] = NoTracking]
  /\ misheard' = IF tracking[t].at = "flushed" THEN misheard \cup {tracking[t].parcel} ELSE misheard
  /\ UNCHANGED <<shipment, scans, bookingVars, events, told, crossed>>

LatestStatus(t) == scans[tracking[t].parcel][NewestOf(tracking[t].new)].status
StatusChanged(t) == LatestStatus(t) # tracking[t].status

RowLocked(p) ==
  \E t \in Trackers : Following(t, p) /\ tracking[t].at = "flushed" /\ StatusChanged(t)

\* The flush, which locks the row when the status changes, and the push of
\* that change, whose failure is logged and forgotten.
FlushAndPush(t) ==
  LET p == tracking[t].parcel
  IN /\ tracking[t].at = "fetched"
     /\ StatusChanged(t) => ~RowLocked(p)
     /\ tracking' = [tracking EXCEPT ![t].at = "flushed"]
     /\ \/ /\ told' = IF StatusChanged(t) THEN [told EXCEPT ![p] = LatestStatus(t)] ELSE told
           /\ UNCHANGED misheard
        \/ /\ StatusChanged(t)
           /\ misheard' = misheard \cup {p}
           /\ UNCHANGED told
     /\ UNCHANGED <<shipment, scans, bookingVars, events, crossed>>

\* The commit: one row for each new checkpoint, and the status if it changed.
CommitTracking(t) ==
  LET p == tracking[t].parcel
  IN /\ tracking[t].at = "flushed"
     /\ events' = [events EXCEPT ![p] =
          [i \in 1..MaxScans[p] |-> @[i] + IF i \in tracking[t].new THEN 1 ELSE 0]]
     /\ shipment' = IF StatusChanged(t) THEN [shipment EXCEPT ![p].status = LatestStatus(t)]
                                        ELSE shipment
     /\ tracking' = [tracking EXCEPT ![t] = NoTracking]
     /\ UNCHANGED <<scans, bookingVars, told, crossed, misheard>>

-----------------------------------------------------------------------------
BookingStep(p) ==
  \/ AllocateShipment(p) \/ CreateReversePickup(p)
  \/ CarrierBooks(p) \/ CarrierRefuses(p) \/ AnswerLost(p)
  \/ CommitShipment(p) \/ LoseBooking(p)

TrackingStep(t) ==
  \/ \E p \in Parcels : BeginTracking(t, p)
  \/ FetchTracking(t) \/ LoseTracking(t) \/ FlushAndPush(t) \/ CommitTracking(t)

ShipmentsNext ==
  \/ \E p \in Parcels : BookingStep(p) \/ ScanParcel(p)
  \/ \E t \in Trackers : TrackingStep(t)

ShipmentsSpec == ShipmentsInit /\ [][ShipmentsNext]_shipmentVars

\* The schedule keeps asking for every parcel still on its way, and of the calls
\* about a parcel not all are lost, at the carrier or before their commit.
ShipmentsFairness ==
  \A p \in Parcels :
    /\ SF_shipmentVars(\E t \in Trackers : BeginTracking(t, p))
    /\ SF_shipmentVars(\E t \in Trackers : Following(t, p) /\ FetchTracking(t))
    /\ SF_shipmentVars(\E t \in Trackers : Following(t, p) /\ FlushAndPush(t))
    /\ SF_shipmentVars(\E t \in Trackers : Following(t, p) /\ CommitTracking(t))

-----------------------------------------------------------------------------
ShipmentsTypeOK ==
  /\ \A p \in Parcels :
       shipment[p] \in {NoShipment} \cup [status : ShipmentStatus, carrier : Carriers]
  /\ \A p \in Parcels : events[p] \in [1..MaxScans[p] -> Nat]
  /\ \A p \in Parcels : booking[p].at \in {"idle", "calling", "booked"}
  /\ \A p \in Parcels : (booking[p].at = "idle") = (booking[p].left = <<>>)
  /\ \A t \in Trackers : tracking[t].at \in {"idle", "loaded", "fetched", "flushed"}
  /\ booked \in [Parcels -> SUBSET Carriers]
  /\ told \in [Parcels -> ShipmentStatus]

\* Unless a booking call was lost halfway, a parcel has exactly one booking at
\* the carriers and it is the one of its row: the fallback books nothing twice.
\* And a row always names a carrier that holds a booking (allocation.py:62-98).
BookingsAccounted ==
  \A p \in Parcels :
    /\ Present(p) => shipment[p].carrier \in booked[p]
    /\ p \notin mishap =>
         booked[p] = IF Present(p) THEN {shipment[p].carrier}
                     ELSE IF booking[p].at = "booked" THEN {Asked(p)} ELSE {}

Stored(p) == {i \in DOMAIN scans[p] : events[p][i] > 0}

\* The status of a shipment is that of a stored checkpoint.
StatusIsScanned(p) ==
  Present(p) /\ shipment[p].status # "created" =>
    \E i \in Stored(p) : scans[p][i].status = shipment[p].status

\* Followed by one call at a time, with no two scans at one time, a shipment
\* stores each checkpoint once and has the status of the latest.
LatestWins(p) ==
  p \notin crossed \cup Coarse =>
    /\ \A i \in 1..MaxScans[p] : events[p][i] <= 1
    /\ Stored(p) # {} =>
         shipment[p].status = scans[p][Max(Stored(p))].status

\* However calls cross, and unless a push or its commit failed, what others were told is
\* the status of the row, or the one the call in progress is about to commit.
ToldInTime(p) ==
  Present(p) /\ p \notin misheard =>
    \/ told[p] = shipment[p].status
    \/ \E t \in Trackers :
         Following(t, p) /\ tracking[t].at = "flushed" /\ LatestStatus(t) = told[p]

\* What following a parcel keeps true of its row, its checkpoints and those who
\* are told of it, whatever the crashes and the redeliveries (tracking.py:24-76).
TrackingSafe == \A p \in Parcels : StatusIsScanned(p) /\ LatestWins(p) /\ ToldInTime(p)

\* A parcel scanned as delivered is seen to be so, or its shipment was already
\* over, unless two calls crossed or the carrier stamped two scans alike.
DeliveredIsSeen ==
  \A p \in Parcels \ Coarse :
    (scans[p] # <<>> /\ Last(scans[p]).status = "delivered")
      ~> (shipment[p].status \in Terminal \/ p \in crossed)
=============================================================================
