------------------------------ MODULE Addresses ------------------------------
(***************************************************************************)
(* The saved addresses of one user (services/address_service.py).  That one *)
(* of them is the default is kept by the application: a request reads, and  *)
(* commits what it changed of what it read; no row is locked and no index   *)
(* forbids two defaults.  A deletion commits, and promotes another address  *)
(* in a second transaction.                                                 *)
(***************************************************************************)
EXTENDS Integers, FiniteSets, FiniteSetsExt

CONSTANTS
  Visits,       \* requests that may be under way at once
  MaxAddresses  \* bound: addresses ever created

ASSUME AddressAssumption == MaxAddresses \in Nat

\* Addresses are numbered by created_at, the start of the request.
AddressIds == 1..MaxAddresses

VARIABLES
  address,  \* is_default of each row, or "absent"
  born,     \* how many requests have begun to create an address
  visit,    \* what each request has read, and its next step
  unset,    \* history: the default was given up, or its successor was lost
  clashed   \* history: a request wrote after another had changed what it read

addressVars == <<address, born, visit, unset, clashed>>

NoVisit == [op |-> "none", step |-> "none", on |-> 0, copy |-> "absent",
            loaded |-> {}, stale |-> FALSE]

AddressesInit ==
  /\ address = [a \in AddressIds |-> "absent"]
  /\ born = 0
  /\ visit = [v \in Visits |-> NoVisit]
  /\ unset = FALSE /\ clashed = FALSE

Saved == {a \in AddressIds : address[a] # "absent"}
Defaults == {a \in AddressIds : address[a] = "default"}

-----------------------------------------------------------------------------
(* Requests begin, and read.                                               *)

Open(v, op, step, a) ==
  /\ visit[v] = NoVisit
  /\ visit' = [visit EXCEPT ![v] = [op |-> op, step |-> step, on |-> a, copy |-> address[a],
                                    loaded |-> {}, stale |-> FALSE]]
  /\ UNCHANGED <<address, unset, clashed>>

\* The transaction of a new address starts, with or without is_default.
create_address(v) ==
  /\ born < MaxAddresses
  /\ born' = born + 1
  /\ \/ Open(v, "create", "clear", born + 1)
     \/ Open(v, "create", "count", born + 1)

set_default(v, a) ==
  a \in Saved /\ Open(v, "set", "clear", a) /\ UNCHANGED born

\* Only a change of is_default is modelled.
update_address(v, a) ==
  /\ a \in Saved /\ UNCHANGED born
  /\ Open(v, "set", "clear", a) \/ Open(v, "unset", "commit", a)

delete_address(v, a) ==
  a \in Saved /\ Open(v, "delete", "commit", a) /\ UNCHANGED born

\* Mutant: a request that sets a default leaves the others as they are.
ClearNothing(v) ==
  /\ visit[v].step = "clear"
  /\ visit' = [visit EXCEPT ![v].step = "commit"]
  /\ UNCHANGED <<address, born, unset, clashed>>

\* The rows that are default are loaded, to be written as plain ones.
_clear_default(v) ==
  /\ visit[v].step = "clear"
  /\ visit' = [visit EXCEPT ![v].step = "commit", ![v].loaded = Defaults]
  /\ UNCHANGED <<address, born, unset, clashed>>

\* The first address of a user is the default.
CountAddresses(v) ==
  /\ visit[v].step = "count"
  /\ visit' = [visit EXCEPT ![v].step = "commit",
                            ![v].op = IF Saved = {} THEN "create" ELSE "create_plain"]
  /\ UNCHANGED <<address, born, unset, clashed>>

\* After the deletion of a default: the latest of the other addresses.
SelectSuccessor(v) ==
  /\ visit[v].step = "promote"
  /\ IF Saved = {} THEN visit' = [visit EXCEPT ![v] = NoVisit]
     ELSE LET latest == Max(Saved)
          IN visit' = [visit EXCEPT ![v].op = "promote", ![v].step = "commit",
                                    ![v].on = latest, ![v].copy = address[latest]]
  /\ UNCHANGED <<address, born, unset, clashed>>

-----------------------------------------------------------------------------
(* Requests commit.  An UPDATE writes is_default where it differs from the *)
(* value that the session had read.                                        *)

Creates(s) == s.op \in {"create", "create_plain"}

ToDefault(s) ==
  IF s.op = "create" \/ (s.op \in {"set", "promote"} /\ s.copy = "plain") THEN {s.on} ELSE {}

ToPlain(s) ==
  (s.loaded \ {s.on})
    \cup (IF s.op = "create_plain" \/ (s.op = "unset" /\ s.copy = "default") THEN {s.on} ELSE {})

ToAbsent(s) == IF s.op = "delete" THEN {s.on} ELSE {}

RowsWritten(s) == ToDefault(s) \cup ToPlain(s) \cup ToAbsent(s)

\* A request has read something that a commit of another one may change.
HasRead(s) == s # NoVisit /\ ~(s.op = "create" /\ s.step \in {"clear", "count"})

CommitVisit(v) ==
  LET s == visit[v]
      writes == RowsWritten(s) # {}
      next == IF s.op = "delete" /\ s.copy = "default" THEN [s EXCEPT !.step = "promote"]
              ELSE NoVisit
  IN  /\ s.step = "commit"
      /\ \A a \in ToDefault(s) \cup ToPlain(s) : a \in Saved \/ (Creates(s) /\ a = s.on)
      /\ address' = [a \in AddressIds |->
           IF a \in ToDefault(s) THEN "default"
           ELSE IF a \in ToPlain(s) THEN "plain"
           ELSE IF a \in ToAbsent(s) THEN "absent" ELSE address[a]]
      /\ visit' = [u \in Visits |->
           IF u = v THEN next
           ELSE IF writes /\ HasRead(visit[u]) THEN [visit[u] EXCEPT !.stale = TRUE]
           ELSE visit[u]]
      /\ clashed' = (clashed \/ (s.stale /\ writes))
      /\ unset' = IF ToDefault(s) # {} THEN FALSE ELSE unset \/ (s.op = "unset" /\ writes)
      /\ UNCHANGED born

\* A request ends without a commit: a row that it updates was deleted
\* (StaleDataError), or its process or connection is lost.
FailVisit(v) ==
  /\ visit[v] # NoVisit
  /\ visit' = [visit EXCEPT ![v] = NoVisit]
  /\ unset' = (unset \/ visit[v].step = "promote" \/ visit[v].op = "promote")
  /\ UNCHANGED <<address, born, clashed>>

VisitStep(v) ==
  \/ create_address(v)
  \/ \E a \in AddressIds : set_default(v, a) \/ update_address(v, a) \/ delete_address(v, a)
  \/ _clear_default(v) \/ CountAddresses(v) \/ SelectSuccessor(v)
  \/ CommitVisit(v) \/ FailVisit(v)

AddressesNext == \E v \in Visits : VisitStep(v)

AddressesSpec == AddressesInit /\ [][AddressesNext]_addressVars

-----------------------------------------------------------------------------
AddressesTypeOK ==
  /\ address \in [AddressIds -> {"absent", "plain", "default"}]
  /\ born \in 0..MaxAddresses
  /\ visit \in [Visits ->
       [op : {"none", "create", "create_plain", "set", "unset", "delete", "promote"},
        step : {"none", "clear", "count", "commit", "promote"},
        on : 0..MaxAddresses, copy : {"absent", "plain", "default"},
        loaded : SUBSET AddressIds, stale : BOOLEAN]]
  /\ unset \in BOOLEAN /\ clashed \in BOOLEAN

\* A deletion has committed and the address it promotes has not.
Promoting == \E v \in Visits : visit[v].step = "promote" \/ visit[v].op = "promote"

\* A user has one default address at most, and one as soon as there is an
\* address, unless the user gave it up or a deletion ended before it promoted
\* another (then until the next default is set).  get_default_address raises
\* on two, and the checkout needs one.  It takes that no request wrote after
\* another had changed what it read, for no lock and no index forbids it.
OneDefault ==
  ~clashed =>
    /\ Cardinality(Defaults) <= 1
    /\ Defaults = {} => Saved = {} \/ unset \/ Promoting
=============================================================================
