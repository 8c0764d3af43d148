-------------------------------- MODULE MCPlant --------------------------------
(* Instances of Plant for TLC: a component row and a product row.            *)
EXTENDS Plant, TLC

CONSTANTS x, y, b1, b2

TwoItems == x :> "oats" @@ y :> "bar"
OnHand == x :> 2 @@ y :> 0

\* The bill of b1 names its component on two lines, as the API lets it.
Bills ==
  LET line == [row |-> x, quantity |-> 1]
  IN  [b \in Batches |-> IF b = b1 THEN <<line, line>> ELSE <<line>>]

Bars == [b \in Batches |-> y]

Symmetries == Permutations(ApiSessions)

\* Where requests for one batch cross, b1 is the only batch and sessions settle
\* one reservation at a time; where two settle one, there is no batch but b2.
Company ==
  /\ rivals = {} \/ (contested = {} /\ \A b \in Batches \ {b1} : batch[b].status = "absent")
  /\ contested = {} \/ \A b \in Batches \ {b2} : batch[b].status = "absent"

MCNext == PlantNext /\ Company'
MCSpec == PlantInit /\ [][MCNext]_plantVars
=============================================================================
