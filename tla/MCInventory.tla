---------------------------- MODULE MCInventory ----------------------------
(* Inventory for TLC: two warehouses and two orders that compete for one   *)
(* product, the second with a line more that starts on backorder.         *)
EXTENDS OrderScreens, TLC

CONSTANTS o1, o2

MCOrders == {o1, o2}

MCWarehouses ==
    <<[weight |-> 10, base |-> 24, perUnit |-> 1],
      [weight |-> 14, base |-> 20, perUnit |-> 1]>>

MCDemand ==
    (o1 :> <<[product |-> "laptop", qty |-> 2]>>)
      @@ (o2 :> <<[product |-> "laptop", qty |-> 1], [product |-> "mouse", qty |-> 1]>>)

Counted(n) == [inStock |-> n, reserved |-> 0]

MCOpeningStock ==
    <<[laptop |-> Counted(1), mouse |-> Counted(0)],
      [laptop |-> Counted(1), mouse |-> Counted(0)]>>

MCDeltas == {-1, 1}

MCMaxStock == [laptop |-> 2, mouse |-> 1]
=============================================================================
