----------------------------- MODULE Inventory -----------------------------
(***************************************************************************)
(* Orders, their fulfillments and the stock they take, when every HTTP     *)
(* request runs alone: an order is split when it is confirmed, the split   *)
(* is planned again, accepted or overridden, which reserves the units, and *)
(* shipped; stock is counted up and down, and a backorder that a restock   *)
(* covers is consolidated.                                                 *)
(*                                                                         *)
(* `back` is the backorders of a fulfillment, `ready` says whether its     *)
(* consolidationAvailableAt is set.  The denormalised `available` of a     *)
(* stock row is left out: no handler reads it.                             *)
(***************************************************************************)
EXTENDS SplitPlanner

CONSTANTS
    Orders,        \* order ids
    Demand,        \* [Orders -> Seq(Line)]: the stockable lines of each order
    OpeningStock,  \* the stock rows at the start
    Deltas,        \* what POST /stock/adjust may add
    MaxStock,      \* [Products -> Nat]: bound on the units a restock leads to
    Transactions,  \* whether the database runs transactions
    None           \* an order that is not confirmed yet

ASSUME DemandType == Demand \in [Orders -> Seq(Line)]
ASSUME OpeningStockType ==
    OpeningStock \in [Sites -> [Products -> [inStock : Nat, reserved : Nat]]]
ASSUME TransactionsType == Transactions \in BOOLEAN
ASSUME DeltasType == Deltas \subseteq Int

VARIABLES
    stock,         \* [Sites -> [Products -> row]]
    fulfillment,   \* [Orders -> Fulfillment \cup {None}]
    order          \* [Orders -> Order \cup {None}]

vars == <<stock, fulfillment, order>>

FulfillmentStatus == {"SPLIT_PENDING", "RESERVED", "PARTIALLY_SHIPPED", "SHIPPED", "BACKORDER"}
OrderStatus == {"CONFIRMED", "SHIPPED"}

LinesIn(o) == DOMAIN Demand[o]
Confirmed(o) == fulfillment[o] # None
HasBackorder(back) == Waiting(back) # {}

(* Units of a product that an allocation of order o takes at a site.       *)
Units(o, alloc, w, p) == TakenFrom(Demand[o], alloc, w, p)

(* $inc of `reserved` by an allocation, and its way back.                  *)
Reserving(rows, o, alloc) ==
    [w \in Sites |-> [p \in Products |->
        [rows[w][p] EXCEPT !.reserved = @ + Units(o, alloc, w, p)]]]

Releasing(rows, o, alloc) ==
    [w \in Sites |-> [p \in Products |->
        [rows[w][p] EXCEPT !.reserved = @ - Units(o, alloc, w, p)]]]

(* What a fulfillment holds reserved goes back before a new split.         *)
(* Fault: the earlier reservation stays.                                   *)
Released_Kept(o, f) == stock
Released(o, f) == IF f.reserved THEN Releasing(stock, o, f.alloc) ELSE stock

(* planAndApply: the split of an order against the rows it is given.       *)
Planned(o, rows) ==
    LET plan == PlanWarehouseSplit(rows, Demand[o])
        back == Backorders(Demand[o], plan)
    IN  [status |-> IF HasBackorder(back) THEN "BACKORDER" ELSE "SPLIT_PENDING",
         alloc |-> plan, shipped |-> {}, back |-> back,
         reserved |-> FALSE, ready |-> FALSE]

---------------------------------------------------------------------------
Init ==
    /\ stock = OpeningStock
    /\ fulfillment = [o \in Orders |-> None]
    /\ order = [o \in Orders |-> None]

(* createOrderFromQuotation: the split is planned with the order.          *)
Confirm(o) ==
    /\ ~Confirmed(o)
    /\ fulfillment' = [fulfillment EXCEPT ![o] = Planned(o, stock)]
    /\ order' = [order EXCEPT ![o] = [status |-> "CONFIRMED",
                                      qtyShipped |-> [l \in LinesIn(o) |-> 0]]]
    /\ UNCHANGED stock

(* Fault: what has left in part is planned as if it had not.               *)
Replannable_Partial(o) == Confirmed(o) /\ fulfillment[o].status # "SHIPPED"
Replannable(o) ==
    Confirmed(o) /\ fulfillment[o].status \notin {"SHIPPED", "PARTIALLY_SHIPPED"}

(* POST /fulfillment/plan/:orderId.  The release is part of a transaction, *)
(* the catalog of stock is read outside it: where transactions run, the    *)
(* new plan is made from the stock before the release.                     *)
Plan(o) ==
    /\ Replannable(o)
    /\ LET released == Released(o, fulfillment[o])
       IN  /\ stock' = released
           /\ fulfillment' = [fulfillment EXCEPT ![o] =
                  Planned(o, IF Transactions THEN stock ELSE released)]
    /\ UNCHANGED order

(* Each allocated line is checked against the free units on its own.       *)
(* Fault: the units others have reserved are counted.                      *)
AllAvailable_InStock(o, alloc) ==
    \A w \in Sites, l \in LinesIn(o) :
        alloc[w][l] > 0 => stock[w][Demand[o][l].product].inStock >= alloc[w][l]
AllAvailable(o, alloc) ==
    \A w \in Sites, l \in LinesIn(o) :
        alloc[w][l] > 0 => Free(stock, w, Demand[o][l].product) >= alloc[w][l]

StatusReserved(back) == IF HasBackorder(back) THEN "BACKORDER" ELSE "RESERVED"

Acceptable(o) ==
    Confirmed(o) /\ ~fulfillment[o].reserved /\ fulfillment[o].status # "SHIPPED"
Accepted(f) == [f EXCEPT !.reserved = TRUE, !.status = StatusReserved(f.back)]

(* POST /fulfillment/:id/accept *)
Accept(o) ==
    /\ Acceptable(o)
    /\ AllAvailable(o, fulfillment[o].alloc)
    /\ stock' = Reserving(stock, o, fulfillment[o].alloc)
    /\ fulfillment' = [fulfillment EXCEPT ![o] = Accepted(@)]
    /\ UNCHANGED order

(* Free units, and what this fulfillment holds itself.                     *)
Overridable(o, w, p) ==
    Free(stock, w, p)
      + IF fulfillment[o].reserved THEN Units(o, fulfillment[o].alloc, w, p) ELSE 0

Short(o, alloc) == [l \in LinesIn(o) |-> Max({0, Remaining(Demand[o], alloc, l)})]

MayOverride(o, alloc) ==
    /\ Replannable(o)
    /\ \A w \in Sites, p \in Products : Units(o, alloc, w, p) <= Overridable(o, w, p)

(* Fault: the mark of a consolidation stays.                               *)
Overridden_StillReady(o, alloc) ==
    LET back == Short(o, alloc)
    IN  [status |-> StatusReserved(back), alloc |-> alloc, shipped |-> {},
         back |-> back, reserved |-> TRUE, ready |-> fulfillment[o].ready]
Overridden(o, alloc) ==
    LET back == Short(o, alloc)
    IN  [status |-> StatusReserved(back), alloc |-> alloc, shipped |-> {},
         back |-> back, reserved |-> TRUE, ready |-> FALSE]

(* POST /fulfillment/:id/override: nothing keeps the choice from giving a  *)
(* line more than was ordered.                                             *)
Override(o, alloc) ==
    /\ MayOverride(o, alloc)
    /\ stock' = Reserving(Released(o, fulfillment[o]), o, alloc)
    /\ fulfillment' = [fulfillment EXCEPT ![o] = Overridden(o, alloc)]
    /\ UNCHANGED order

(* The part of an allocation that has not left yet.                        *)
(* Fault: what has left leaves again.                                      *)
Unshipped_All(f) == f.alloc
Unshipped(f) == [w \in Sites |->
    IF w \in f.shipped THEN [l \in DOMAIN f.alloc[w] |-> 0] ELSE f.alloc[w]]

(* qtyShipped never passes the ordered quantity.                           *)
Delivered(o, was, given) == [l \in LinesIn(o) |-> Min({Demand[o][l].qty, was[l] + given[l]})]

Serves(alloc, w) == \E l \in DOMAIN alloc[w] : alloc[w][l] > 0

(* Units that leave a reservation, and units that leave the free stock.    *)
Taking(rows, o, alloc) ==
    [w \in Sites |-> [p \in Products |->
        [rows[w][p] EXCEPT !.inStock = @ - Units(o, alloc, w, p),
                           !.reserved = @ - Units(o, alloc, w, p)]]]

Sending(rows, o, alloc) ==
    [w \in Sites |-> [p \in Products |->
        [rows[w][p] EXCEPT !.inStock = @ - Units(o, alloc, w, p)]]]

Shippable(o) ==
    Confirmed(o) /\ fulfillment[o].reserved /\ fulfillment[o].status # "SHIPPED"

ShippedAll(f) ==
    [f EXCEPT !.shipped = {w \in Sites : Serves(f.alloc, w)},
              !.status = IF HasBackorder(f.back) THEN "PARTIALLY_SHIPPED" ELSE "SHIPPED"]

OrderShipped(o, doc, picked) ==
    LET delivered == Delivered(o, doc.qtyShipped, [l \in LinesIn(o) |-> Given(picked, l)])
        complete == \A l \in LinesIn(o) : delivered[l] >= Demand[o][l].qty
    IN  [doc EXCEPT !.qtyShipped = delivered,
                    !.status = IF complete /\ @ = "CONFIRMED" THEN "SHIPPED" ELSE @]

(* POST /fulfillment/:id/ship: every allocation that has not left leaves.  *)
Ship(o) ==
    /\ Shippable(o)
    /\ LET picked == Unshipped(fulfillment[o])
       IN  /\ stock' = Taking(stock, o, picked)
           /\ fulfillment' = [fulfillment EXCEPT ![o] = ShippedAll(@)]
           /\ order' = [order EXCEPT ![o] = OrderShipped(o, @, picked)]

---------------------------------------------------------------------------
(* The backorders a count of product p lets go: only those of fulfillments *)
(* that nothing of has left.                                               *)
Flipped(o, p, rows) ==
    /\ Confirmed(o)
    /\ fulfillment[o].status = "BACKORDER"
    /\ \E l \in Waiting(fulfillment[o].back) : Demand[o][l].product = p
    /\ ~fulfillment[o].ready
    /\ Coverable(rows, Demand[o], fulfillment[o].back)

(* A row's new count is stored, and the backorders it covers are marked.   *)
Recount(w, p, inStock) ==
    /\ LET rows == [stock EXCEPT ![w][p].inStock = inStock]
       IN  /\ stock' = rows
           /\ fulfillment' = [o \in Orders |->
                  IF Flipped(o, p, rows) THEN [fulfillment[o] EXCEPT !.ready = TRUE]
                                         ELSE fulfillment[o]]
    /\ UNCHANGED order

(* POST /stock/adjust, which compares with the units in stock, reserved or *)
(* not.  Bound: a restock stops at MaxStock.                               *)
Adjust(w, p, delta) ==
    /\ stock[w][p].inStock + delta \in 0..MaxStock[p]
    /\ Recount(w, p, stock[w][p].inStock + delta)

(* A backorder is looked up again by its product: of two lines of one      *)
(* product the first one is delivered.                                     *)
Target(o, f, l) ==
    Min({k \in Waiting(f.back) : Demand[o][k].product = Demand[o][l].product})

Sourced(o, source) ==
    \A l \in DOMAIN source :
        source[l] \in Sources(stock, Demand[o], fulfillment[o].back, l)

MayConsolidate(o, source) ==
    /\ Confirmed(o)
    /\ fulfillment[o].ready
    /\ HasBackorder(fulfillment[o].back)
    /\ Sourced(o, source)

(* The units each site sends.                                              *)
Consolidation(o, f, source) ==
    LET From(w, l) == {k \in DOMAIN source : source[k] = w /\ Target(o, f, k) = l}
        Sent(w, l) == SumFunctionOnSet(f.back, From(w, l))
    IN  [w \in Sites |-> [l \in LinesIn(o) |-> Sent(w, l)]]

(* They leave at once; at a site that already serves the order they join   *)
(* its allocation, which keeps its mark.                                   *)
Joined(o, f, sent) ==
    [f EXCEPT !.alloc = [w \in Sites |-> [l \in LinesIn(o) |-> @[w][l] + sent[w][l]]],
              !.shipped = @ \cup {w \in Sites : Serves(sent, w) /\ ~Serves(f.alloc, w)}]

Consolidated(o, f, sent) ==
    [Joined(o, f, sent) EXCEPT !.back = [l \in LinesIn(o) |-> 0], !.ready = FALSE,
                               !.status = "SHIPPED"]

OrderSent(o, doc, sent) ==
    [doc EXCEPT !.qtyShipped = Delivered(o, @, [l \in LinesIn(o) |-> Given(sent, l)])]

(* POST /fulfillment/:id/consolidate, with the site that covers each       *)
(* backorder; the database lists the rows in no promised order.  The       *)
(* order's status is not looked at.                                        *)
Consolidate(o, source) ==
    /\ MayConsolidate(o, source)
    /\ LET sent == Consolidation(o, fulfillment[o], source)
       IN  /\ stock' = Sending(stock, o, sent)
           /\ fulfillment' = [fulfillment EXCEPT ![o] = Consolidated(o, @, sent)]
           /\ order' = [order EXCEPT ![o] = OrderSent(o, @, sent)]

(* Bound: a request asks no warehouse for more of a line than was ordered; *)
(* all warehouses together it may.                                         *)
OverrideRequests(o) ==
    [Sites -> {give \in [LinesIn(o) -> 0..TotalUnits(Demand[o])] :
                  \A l \in LinesIn(o) : give[l] <= Demand[o][l].qty}]

Next ==
    \/ \E o \in Orders : Confirm(o) \/ Plan(o) \/ Accept(o) \/ Ship(o)
    \/ \E o \in Orders : \E alloc \in OverrideRequests(o) : Override(o, alloc)
    \/ \E o \in Orders :
          /\ Confirmed(o)
          /\ \E source \in [Waiting(fulfillment[o].back) -> Sites] : Consolidate(o, source)
    \/ \E w \in Sites, p \in Products, delta \in Deltas : Adjust(w, p, delta)

Spec == Init /\ [][Next]_vars

---------------------------------------------------------------------------
Row == [inStock : Int, reserved : Nat]

Fulfillment(o) ==
    [status : FulfillmentStatus, alloc : [Sites -> [LinesIn(o) -> Nat]],
     shipped : SUBSET Sites, back : [LinesIn(o) -> Nat],
     reserved : BOOLEAN, ready : BOOLEAN]

Order(o) == [status : OrderStatus, qtyShipped : [LinesIn(o) -> Nat]]

ASSUME NoneIsNoFulfillment == \A o \in Orders : None \notin Fulfillment(o)

(* The units in stock may fall below zero - a write-down does not look at  *)
(* what is reserved - but a reservation is never given back twice.         *)
TypeOK ==
    /\ stock \in [Sites -> [Products -> Row]]
    /\ \A o \in Orders :
          \/ fulfillment[o] = None /\ order[o] = None
          \/ fulfillment[o] \in Fulfillment(o) /\ order[o] \in Order(o)

(* A fulfillment that was consolidated before its allocations left.        *)
LeftBehind(o) ==
    /\ Confirmed(o)
    /\ fulfillment[o].status = "SHIPPED"
    /\ \E w \in Sites : w \notin fulfillment[o].shipped /\ Serves(fulfillment[o].alloc, w)

(* Units that a fulfillment will still take when it ships.                 *)
Holders == {o \in Orders : Confirmed(o) /\ fulfillment[o].reserved
                              /\ fulfillment[o].status # "SHIPPED"}
Held(w, p) == SumFunction([o \in Holders |-> Units(o, Unshipped(fulfillment[o]), w, p)])

(* fulfillment.routes.ts:179, "Re-planning must never double-count": over  *)
(* plans, acceptances, overrides and shipments a row reserves what the     *)
(* fulfillments still to ship hold of it, and no more unless one of them   *)
(* was consolidated with its allocations left behind.  What was reserved at*)
(* the start is held by nobody here and stays reserved.                    *)
ReservedIsHeld ==
    \A w \in Sites, p \in Products :
        LET reserved == stock[w][p].reserved - OpeningStock[w][p].reserved
        IN  /\ reserved >= Held(w, p)
            /\ (\A o \in Orders : ~LeftBehind(o)) => reserved = Held(w, p)

(* And no unit of an order is forgotten or sent twice: allocation and      *)
(* backorder of a line make up what was ordered, and what counts as shipped*)
(* is what the shipped allocations carried.                                *)
LinesAddUp ==
    \A o \in Orders : Confirmed(o) =>
        LET f == fulfillment[o]
            Left(l) == SumFunctionOnSet([w \in Sites |-> f.alloc[w][l]], f.shipped)
        IN  \A l \in LinesIn(o) :
                /\ f.back[l] = Max({0, Demand[o][l].qty - Given(f.alloc, l)})
                /\ ~LeftBehind(o) => order[o].qtyShipped[l] = Min({Demand[o][l].qty, Left(l)})

UnitsAddUp == TypeOK /\ ReservedIsHeld /\ LinesAddUp

Overcommitted(w, p) == stock[w][p].reserved > stock[w][p].inStock

(* Only counting stock down makes a row promise more than it has: accepting*)
(* a split planned long ago, overriding one's own reservation and          *)
(* consolidating take no unit that another order has reserved.             *)
OnlyWriteDownsOvercommit ==
    [][\A w \in Sites, p \in Products :
          Overcommitted(w, p)' /\ ~Overcommitted(w, p) =>
              \E delta \in Deltas : delta < 0 /\ Adjust(w, p, delta)]_vars

OverGiven(o) ==
    Confirmed(o) /\ \E l \in LinesIn(o) : Given(fulfillment[o].alloc, l) > Demand[o][l].qty

UnitsOf(p) ==
    LET sent == [o \in {o \in Orders : Confirmed(o)} |->
                    SumFunctionOnSet(order[o].qtyShipped, LinesOf(Demand[o], p))]
    IN  SumFunction([w \in Sites |-> stock[w][p].inStock]) + SumFunction(sent)

(* Outside stock counts no unit appears or disappears: what leaves the     *)
(* warehouses is recorded as shipped on an order line, unless an override  *)
(* gave a line more than was ordered.                                      *)
UnitsAreKept ==
    \/ \A p \in Products : UnitsOf(p)' = UnitsOf(p)
    \/ \E o \in Orders : OverGiven(o)
    \/ \E w \in Sites, p \in Products, delta \in Deltas : Adjust(w, p, delta)

(* And what has left cannot be planned again: a shipped allocation and     *)
(* what an order has had shipped only grow, a shipped fulfillment stays so.*)
ShippedStaysShipped(o) ==
    LET before == fulfillment[o]
        after == fulfillment'[o]
    IN  /\ before.status = "SHIPPED" => after.status = "SHIPPED"
        /\ before.shipped \subseteq after.shipped
        /\ \A l \in LinesIn(o) :
              /\ order'[o].qtyShipped[l] >= order[o].qtyShipped[l]
              /\ \A w \in before.shipped : after.alloc[w][l] >= before.alloc[w][l]

ShippingIsFinal == [][UnitsAreKept /\ \A o \in Orders : Confirmed(o) => ShippedStaysShipped(o)]_vars

(* fulfillment.routes.ts:463, "Every allocated line has left the           *)
(* warehouse.": so the customer is told of a shipped fulfillment.          *)
ShippedMeansAllLeft == \A o \in Orders : ~LeftBehind(o)
=============================================================================
