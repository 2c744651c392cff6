---------------------------- MODULE OrderSplits ----------------------------
(***************************************************************************)
(* The split planner over every order and every stock of a bounded size:   *)
(* lines are added to an order and stock is counted, in any order, and     *)
(* after each step the plan is what the planner promises.                  *)
(*                                                                         *)
(* The promises hold for orders that name a product once.  Two lines of    *)
(* one product, which the builder allows, pass step 1 of the planner each  *)
(* on its own, and their plan may need more than a warehouse has.          *)
(***************************************************************************)
EXTENDS SplitPlanner

CONSTANTS
    MaxQty,       \* bound: units of a line
    MaxLines,     \* bound: lines of one product
    Counts        \* bound: the [inStock, reserved] a stock row may have

ASSUME BoundsType == MaxQty \in Nat /\ MaxLines \in Nat

VARIABLES stock, demand

vars == <<stock, demand>>

Init ==
    /\ stock \in [Sites -> [Products -> {[inStock |-> 0, reserved |-> 0]}]]
    /\ demand = <<>>

AddLine(p, n) ==
    /\ Cardinality(LinesOf(demand, p)) < MaxLines
    /\ demand' = Append(demand, [product |-> p, qty |-> n])
    /\ UNCHANGED stock

CountStock(w, p, count) ==
    /\ stock' = [stock EXCEPT ![w][p] = count]
    /\ UNCHANGED demand

Next ==
    \/ \E p \in Products, n \in 1..MaxQty : AddLine(p, n)
    \/ \E w \in Sites, p \in Products, count \in Counts : CountStock(w, p, count)

Spec == Init /\ [][Next]_vars

---------------------------------------------------------------------------
Plan == PlanWarehouseSplit(stock, demand)

Serving(alloc) == {w \in Sites : \E l \in DOMAIN demand : alloc[w][l] > 0}

Wanted(p) == MapThenSumSet(LAMBDA l : demand[l].qty, LinesOf(demand, p))

FreeUnits(p) == MapThenSumSet(LAMBDA w : Free(stock, w, p), Active)

(* A plan can be reserved as it stands: it takes from no warehouse more    *)
(* than is free there and gives no line more than it asks for, whatever    *)
(* the first pass has already taken when the second one divides the rest.  *)
(* And BUSINESS_RULES.md:215, the backordered quantity is minimal: what    *)
(* waits of a product is what all warehouses together cannot give.         *)
FitsFreeStock(plan) ==
    /\ \A w \in Sites, p \in Products : TakenFrom(demand, plan, w, p) \in 0..Free(stock, w, p)
    /\ \A l \in DOMAIN demand : Remaining(demand, plan, l) \in 0..demand[l].qty

BackorderedIsMissing(plan) ==
    \A p \in Products :
        MapThenSumSet(LAMBDA l : Remaining(demand, plan, l), LinesOf(demand, p))
          = Max({0, Wanted(p) - FreeUnits(p)})

PlanGivesWhatIsFree == LET plan == Plan IN FitsFreeStock(plan) /\ BackorderedIsMissing(plan)

(* BUSINESS_RULES.md:219, "If any one warehouse can cover every line in    *)
(* full, use it": then one warehouse serves the order, and no other that   *)
(* could has a lower weight, or the same weight and a lower estimate.      *)
(* BUSINESS_RULES.md:225, "a line is never split if it does not have to    *)
(* be": a line that comes from several warehouses, or only in part, fits   *)
(* in none of them.                                                        *)
OneShipmentWhenOneSuffices(plan) ==
    LET sufficient == {w \in Active : \A p \in Products : Free(stock, w, p) >= Wanted(p)}
        units == TotalUnits(demand)
    IN  demand # <<>> /\ sufficient # {} =>
            \E w \in sufficient :
                /\ Serving(plan) = {w}
                /\ \A v \in sufficient :
                      \/ Warehouses[w].weight < Warehouses[v].weight
                      \/ /\ Warehouses[w].weight = Warehouses[v].weight
                         /\ EstimateCost(w, units) <= EstimateCost(v, units)

LinesStayWhole(plan) ==
    \A l \in DOMAIN demand :
        LET givers == {w \in Sites : plan[w][l] > 0}
        IN  Cardinality(givers) > 1 \/ Remaining(demand, plan, l) > 0 =>
                \A w \in Active : Free(stock, w, demand[l].product) < demand[l].qty

NothingIsSplitNeedlessly ==
    LET plan == Plan IN OneShipmentWhenOneSuffices(plan) /\ LinesStayWhole(plan)
=============================================================================
