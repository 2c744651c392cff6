-------------------------- MODULE MCInventoryTxn ---------------------------
(* InventoryTxn for TLC: two orders of one product in two warehouses.      *)
EXTENDS InventoryTxn, TLC

CONSTANTS o1, o2, h1, h2

MCOrders == {o1, o2}
MCHandlers == {h1, h2}

MCWarehouses ==
    <<[weight |-> 10, base |-> 24, perUnit |-> 1],
      [weight |-> 14, base |-> 20, perUnit |-> 1]>>

MCDemand == (o1 :> <<[product |-> "laptop", qty |-> 2]>>) @@ (o2 :> <<[product |-> "laptop", qty |-> 1]>>)

MCOpeningStock ==
    <<[laptop |-> [inStock |-> 1, reserved |-> 0]], [laptop |-> [inStock |-> 1, reserved |-> 0]]>>

MCDeltas == {-1, 1}

MCMaxStock == [laptop |-> 2]

Symmetry == Permutations(MCHandlers)
=============================================================================
