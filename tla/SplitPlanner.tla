---------------------------- MODULE SplitPlanner ----------------------------
(***************************************************************************)
(* How the lines of an order are split over the warehouses:                *)
(* planWarehouseSplit and checkBackorderConsolidation of warehouse.ts.     *)
(* Nothing here is a state.                                                *)
(*                                                                         *)
(* A demand is the sequence of an order's stockable lines; an allocation   *)
(* says how many units of each line each warehouse gives, and what a line  *)
(* lacks is its backorder.  Ids, names, dates and the rationale are left   *)
(* out.  A definition marked "Fault" belongs to no specification.          *)
(***************************************************************************)
EXTENDS Integers, Sequences, FiniteSets, FiniteSetsExt

CONSTANTS
    Products,     \* product ids
    Warehouses    \* the warehouses, in the order the database lists them

ASSUME WarehouseType ==
    Warehouses \in Seq([weight : Int, base : Nat, perUnit : Nat])

Sites == DOMAIN Warehouses
Line == [product : Products, qty : Nat]

(* A planner option of weight 0 takes no part.                             *)
Active == {w \in Sites : Warehouses[w].weight > 0}

StockLines(demand) == {l \in DOMAIN demand : demand[l].qty > 0}

(* Units neither reserved nor missing; never below zero.                   *)
Free(stock, w, p) == Max({0, stock[w][p].inStock - stock[w][p].reserved})

Nothing(demand) == [w \in Sites |-> [l \in DOMAIN demand |-> 0]]

Given(alloc, l) == SumFunction([w \in Sites |-> alloc[w][l]])

Remaining(demand, alloc, l) == demand[l].qty - Given(alloc, l)

LinesOf(demand, p) == {l \in DOMAIN demand : demand[l].product = p}

TakenFrom(demand, alloc, w, p) == SumFunctionOnSet(alloc[w], LinesOf(demand, p))

---------------------------------------------------------------------------
(* Step 1: one warehouse for the whole order.                              *)

TotalUnits(demand) == SumFunction([l \in DOMAIN demand |-> demand[l].qty])

EstimateCost(w, units) == Warehouses[w].base + Warehouses[w].perUnit * units

CoversAll(stock, demand, w) ==
    \A l \in StockLines(demand) : Free(stock, w, demand[l].product) >= demand[l].qty

SingleCandidates(stock, demand) == {w \in Active : CoversAll(stock, demand, w)}

(* The sort is stable: what weight and cost leave equal keeps the order of *)
(* the database.                                                           *)
(* Fault: the cost is compared before the weight.                          *)
Cheaper_CostFirst(v, w, units) ==
    \/ EstimateCost(v, units) < EstimateCost(w, units)
    \/ EstimateCost(v, units) = EstimateCost(w, units) /\ v < w
Cheaper(v, w, units) ==
    \/ Warehouses[v].weight < Warehouses[w].weight
    \/ /\ Warehouses[v].weight = Warehouses[w].weight
       /\ \/ EstimateCost(v, units) < EstimateCost(w, units)
          \/ EstimateCost(v, units) = EstimateCost(w, units) /\ v < w

SingleSite(stock, demand) ==
    CHOOSE w \in SingleCandidates(stock, demand) :
        \A v \in SingleCandidates(stock, demand) \ {w} :
            Cheaper(w, v, TotalUnits(demand))

(* A line without units is no stock line and is given none.                *)
AllFrom(demand, w) ==
    [Nothing(demand) EXCEPT ![w] = [l \in DOMAIN demand |-> demand[l].qty]]

---------------------------------------------------------------------------
(* Step 2: the warehouses in rank, whole lines first, then parts.          *)

FullyCoverable(stock, demand, w) ==
    Cardinality({l \in StockLines(demand) :
                    Free(stock, w, demand[l].product) >= demand[l].qty})

RankedBefore(stock, demand, v, w) ==
    LET coverV == FullyCoverable(stock, demand, v)
        coverW == FullyCoverable(stock, demand, w)
    IN  \/ coverV > coverW
        \/ /\ coverV = coverW
           /\ \/ Warehouses[v].weight < Warehouses[w].weight
              \/ Warehouses[v].weight = Warehouses[w].weight /\ v < w

(* A pass visits every line at every warehouse, in rank.                   *)
Visits(demand) == [site : Active, line : DOMAIN demand]

Earlier(stock, demand, u, v) ==
    \/ RankedBefore(stock, demand, u.site, v.site)
    \/ u.site = v.site /\ u.line < v.line

LastOf(stock, demand, visits) ==
    CHOOSE v \in visits : \A u \in visits \ {v} : Earlier(stock, demand, u, v)

WholeLine(need, left) == IF left >= need THEN need ELSE 0
(* Fault: what a warehouse has is given although less is needed.           *)
AnyPart_All(need, left) == left
AnyPart(need, left) == Min({need, left})

Give(stock, demand, whole, alloc, visit) ==
    LET w == visit.site
        l == visit.line
        p == demand[l].product
        need == Remaining(demand, alloc, l)
        left == Free(stock, w, p) - TakenFrom(demand, alloc, w, p)
    IN  [alloc EXCEPT ![w][l] = @ + IF whole THEN WholeLine(need, left) ELSE AnyPart(need, left)]

Pass(stock, demand, whole, alloc) ==
    MapThenFoldSet(LAMBDA visit, a : Give(stock, demand, whole, a, visit), alloc,
                   LAMBDA visit : visit,
                   LAMBDA visits : LastOf(stock, demand, visits),
                   Visits(demand))

Split(stock, demand) ==
    Pass(stock, demand, FALSE, Pass(stock, demand, TRUE, Nothing(demand)))

PlanWarehouseSplit(stock, demand) ==
    IF SingleCandidates(stock, demand) = {}
    THEN Split(stock, demand)
    ELSE AllFrom(demand, SingleSite(stock, demand))

(* Step 3: what is left over.                                              *)
Backorders(demand, alloc) == [l \in DOMAIN demand |-> Remaining(demand, alloc, l)]

---------------------------------------------------------------------------
(* Does live stock cover what is on backorder?  Each backorder is compared *)
(* with the whole free stock of a site, also when two are of one product.  *)

Waiting(back) == {l \in DOMAIN back : back[l] > 0}

Sources(stock, demand, back, l) ==
    {w \in Sites : stock[w][demand[l].product].inStock
                     - stock[w][demand[l].product].reserved >= back[l]}

Coverable(stock, demand, back) ==
    /\ Waiting(back) # {}
    /\ \A l \in Waiting(back) : Sources(stock, demand, back, l) # {}
=============================================================================
