-------------------------- MODULE MCProductionOrders --------------------------
(***************************************************************************)
(* Two small instances of ProductionOrders in one, told apart by `focus`:  *)
(* two orders for one variant with every overlap of requests, and one order*)
(* of two variants with deposits, whose unlocked requests are alone with it*)
(* while production and hand-over may overlap.                             *)
(***************************************************************************)
EXTENDS ProductionOrders, TLC

CONSTANT Main       \* the variant of the instance with one

VARIABLE focus

Symmetry ==
    Permutations(Sales) \cup Permutations(Orders) \cup Permutations(Items) \cup Permutations(Workers)

InFlight == {w \in Workers : req[w] # Idle}

Overlap ==
    /\ \A w \in InFlight : req[w].op # "deposit" /\ req[w].variant = Main
    /\ \A v \in Variants \ {Main} : onHand[v] = 0

Alone ==
    /\ Cardinality({o \in Orders : state[o] # "none"}) <= 1
    /\ \A w \in InFlight : req[w].op # "remove"
    /\ (\E w \in InFlight : req[w].op \in Unlocked) => Cardinality(InFlight) = 1

\* Where the instance is, and stays.
Within == IF focus = "overlap" THEN Overlap ELSE Alone

FocusInit == Init /\ focus \in {"overlap", "alone"}
FocusNext == Next /\ focus' = focus /\ Within'
FocusSpec == FocusInit /\ [][FocusNext]_<<ovars, focus>>

-----------------------------------------------------------------------------
(* What holds only where unlocked requests are alone with their order *)

\* Deposits count for the sale that their order became.
AloneDeposits == focus = "alone" => DepositsFollowOrder

\* An order that is made is ready, and one that is delivered stays as it was sold.
AloneOrders == focus = "alone" => OrdersComplete
=============================================================================
