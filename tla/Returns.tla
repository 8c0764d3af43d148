------------------------------- MODULE Returns -------------------------------
(***************************************************************************)
(* Returns of the order service (services/return_services.py): a request    *)
(* is approved, sent to inspection or rejected by its tier as it is created,*)
(* and approved, rejected or completed later whatever its status is.        *)
(* Creation publishes its events before it commits; the others commit first *)
(* and then publish.  A publication that fails raises (events/publisher.py),*)
(* and a session writes only the columns that it changed.                   *)
(***************************************************************************)
EXTENDS Sequences, FiniteSets

CONSTANTS
  ReturnRequests,  \* return requests
  Callers          \* HTTP requests under way

Tiers == {"A", "B", "C"}

VARIABLES
  row,      \* return_requests: status, resolution and tier
  caller,   \* the row as a request has loaded it, and what it has yet to do
  published,     \* the last event published of the decision on each
  ordered,  \* what was asked of other services: "refund", "pickup"
  failed,   \* history: returns with a request that did not finish
  crossing  \* history: returns that two requests worked on at one time

returnsVars == <<row, caller, published, ordered, failed, crossing>>

NoRequestRow == [status |-> "absent", resolution |-> "none", tier |-> "none"]
IdleCaller == [op |-> "idle", plan |-> <<>>]

ReturnsInit ==
  /\ row = [r \in ReturnRequests |-> NoRequestRow]
  /\ caller = [c \in Callers |-> IdleCaller]
  /\ published = [r \in ReturnRequests |-> "none"]
  /\ ordered = [r \in ReturnRequests |-> {}]
  /\ failed = {} /\ crossing = {}

WorksOn(c, r) == caller[c] # IdleCaller /\ caller[c].on = r

\* Mutant: a rejection is published as an approval.
RejectPlan(tier, op) ==
  CASE op = "create" -> <<"commit">>
    [] op = "approve" -> <<"commit", "approved">>
    [] op = "reject" -> <<"commit", "approved">>
    [] op = "complete" -> <<"commit", "completed">>

\* The order of the publications and of the commit, by operation and tier.
Plan(tier, op) ==
  CASE op = "create" /\ tier = "A" -> <<"approved", "refund", "commit">>
    [] op = "create" /\ tier = "B" -> <<"inspection_pending", "pickup", "commit">>
    [] op = "create" /\ tier = "C" -> <<"rejected", "commit">>
    [] op = "approve" -> <<"commit", "approved">>
    [] op = "reject" -> <<"commit", "rejected">>
    [] op = "complete" -> <<"commit", "completed">>

\* The decision of the tier, and of those who decide later; a completion leaves
\* the resolution as it is.
Decision(tier, op, resolution) ==
  CASE op = "approve" \/ (op = "create" /\ tier = "A") -> [status |-> "approved", resolution |-> "refund"]
    [] op = "reject" \/ (op = "create" /\ tier = "C") -> [status |-> "rejected", resolution |-> "reject"]
    [] op = "create" /\ tier = "B" -> [status |-> "inspection_pending", resolution |-> "none"]
    [] op = "complete" -> [status |-> "completed", resolution |-> resolution]

-----------------------------------------------------------------------------
Start(c, r, op, tier) ==
  /\ caller[c] = IdleCaller
  /\ caller' = [caller EXCEPT ![c] =
       [op |-> op, on |-> r, tier |-> tier, loaded |-> row[r], plan |-> Plan(tier, op)]]
  /\ crossing' = IF \E d \in Callers : WorksOn(d, r) THEN crossing \cup {r} ELSE crossing
  /\ UNCHANGED <<row, published, ordered, failed>>

\* The id of a return is new: nobody has worked on it, or will if this fails.
create_return(c, r) ==
  /\ row[r] = NoRequestRow /\ published[r] = "none" /\ r \notin failed
  /\ \A d \in Callers : ~WorksOn(d, r)
  /\ \E tier \in Tiers : Start(c, r, "create", tier)

approve_return(c, r) == row[r] # NoRequestRow /\ Start(c, r, "approve", row[r].tier)
reject_return(c, r) == row[r] # NoRequestRow /\ Start(c, r, "reject", row[r].tier)
complete_return(c, r) == row[r] # NoRequestRow /\ Start(c, r, "complete", row[r].tier)

Ahead(c) == Head(caller[c].plan)
Advance(c) == caller' = [caller EXCEPT ![c] = IF Len(@.plan) = 1 THEN IdleCaller
                                                ELSE [@ EXCEPT !.plan = Tail(caller[c].plan)]]

\* The columns that the decision changes in what was loaded.
CommitReturn(c) ==
  LET r == caller[c].on
      loaded == caller[c].loaded
      new == Decision(caller[c].tier, caller[c].op, loaded.resolution)
  IN  /\ caller[c] # IdleCaller /\ Ahead(c) = "commit"
      /\ row' = [row EXCEPT
           ![r].status = IF new.status = loaded.status THEN @ ELSE new.status,
           ![r].resolution = IF new.resolution = loaded.resolution THEN @ ELSE new.resolution,
           ![r].tier = caller[c].tier]
      /\ Advance(c)
      /\ UNCHANGED <<published, ordered, failed, crossing>>

PublishReturn(c) ==
  LET r == caller[c].on
  IN  /\ caller[c] # IdleCaller /\ Ahead(c) # "commit"
      /\ IF Ahead(c) \in {"refund", "pickup"}
         THEN /\ ordered' = [ordered EXCEPT ![r] = @ \cup {Ahead(c)}]
              /\ UNCHANGED published
         ELSE /\ published' = [published EXCEPT ![r] = Ahead(c)]
              /\ UNCHANGED ordered
      /\ Advance(c)
      /\ UNCHANGED <<row, failed, crossing>>

\* Redis or the database fails, or the process dies: what is published stays
\* published, and what is not committed is rolled back.
AbandonReturn(c) ==
  /\ caller[c] # IdleCaller
  /\ failed' = failed \cup {caller[c].on}
  /\ caller' = [caller EXCEPT ![c] = IdleCaller]
  /\ UNCHANGED <<row, published, ordered, crossing>>

CallerStep(c) ==
  \/ CommitReturn(c) \/ PublishReturn(c) \/ AbandonReturn(c)
  \/ \E r \in ReturnRequests :
       \/ create_return(c, r) \/ approve_return(c, r)
       \/ reject_return(c, r) \/ complete_return(c, r)

ReturnsNext == \E c \in Callers : CallerStep(c)

ReturnsSpec == ReturnsInit /\ [][ReturnsNext]_returnsVars

-----------------------------------------------------------------------------
Decisions == {"inspection_pending", "approved", "rejected", "completed"}

ReturnsTypeOK ==
  /\ row \in [ReturnRequests -> [status : {"absent"} \cup Decisions,
                                 resolution : {"none", "refund", "reject"},
                                 tier : {"none"} \cup Tiers]]
  /\ \A c \in Callers : caller[c].op \in {"idle", "create", "approve", "reject", "complete"}
  /\ published \in [ReturnRequests -> {"none"} \cup Decisions]
  /\ ordered \in [ReturnRequests -> SUBSET {"refund", "pickup"}]
  /\ failed \subseteq ReturnRequests /\ crossing \subseteq ReturnRequests

Untouched(r) == \A c \in Callers : ~WorksOn(c, r)

\* While the requests on a return finish, one after the other, the last event
\* published is the status of its row, the resolution is that of the decision,
\* and a refund or a pickup was asked for by the tier alone.  A publication
\* that fails before the commit leaves an event of a return that does not
\* exist, one after it a decision that nobody hears of.
ReturnIsTold ==
  \A r \in ReturnRequests \ (failed \cup crossing) :
    Untouched(r) =>
      /\ published[r] = IF row[r].status = "absent" THEN "none" ELSE row[r].status
      /\ row[r].status = "approved" => row[r].resolution = "refund"
      /\ row[r].status = "rejected" => row[r].resolution = "reject"
      /\ "refund" \in ordered[r] => row[r].tier = "A"
      /\ "pickup" \in ordered[r] => row[r].tier = "B"
=============================================================================
