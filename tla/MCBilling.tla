----------------------------- MODULE MCBilling ------------------------------
(* Billing for TLC: an order of two units, or one with a subscription.     *)
EXTENDS BillingScreens, TLC

CONSTANTS o1, o2, r1, r2

MCOrders == {o1, o2}
MCOrdered == (o1 :> [l \in Lines |-> 2] @@ o2 :> [l \in Lines |-> 0])
MCTotal == [units \in [Lines -> 0..2] |-> MapThenSumSet(LAMBDA l : LineTotal(units[l], 2, 0, 0), Lines)]
MCRecurring == (o2 :> [cycle |-> "WEEKLY", unit |-> 4, qty |-> 1, amount |-> 4,
                       proration |-> "PRORATED", cancellation |-> "PRORATED"])
MCInstants == {0, 4, 7}
MCDates ==
    [o \in DOMAIN MCRecurring |->
        [day \in MCInstants |-> NextBillingDates(day, MCRecurring[o].cycle, 3)]]
MCRequests == {r1, r2}
Symmetry == Permutations(MCRequests)
=============================================================================
