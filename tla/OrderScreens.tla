---------------------------- MODULE OrderScreens ----------------------------
(***************************************************************************)
(* The screens of an order on its way out of the warehouses: the list of   *)
(* orders awaiting fulfillment, the page of a fulfillment with its buttons *)
(* and its editor of the split, the stepper of the order, and what the API *)
(* accepts of it from which role.  A page is taken to show the order as it *)
(* is.  In the editor the rows of a line that name one warehouse are one   *)
(* row.                                                                    *)
(***************************************************************************)
EXTENDS Inventory

ViewRoles == {"ADMIN", "FINANCE", "SALES_MANAGER", "SALES_REP"}
WriteRoles == {"ADMIN", "FINANCE", "SALES_MANAGER"}

SplitTable(f) ==
    [w \in {w \in Sites : Serves(f.alloc, w)} |-> {l \in DOMAIN f.back : f.alloc[w][l] > 0}]

(* GET /fulfillment: the orders awaiting fulfillment, as its page lists    *)
(* them.                                                                   *)
Awaiting == {o \in Orders : Confirmed(o) /\ fulfillment[o].status # "SHIPPED"}
AwaitingTable ==
    {[order |-> o, status |-> fulfillment[o].status,
      warehouses |-> DOMAIN SplitTable(fulfillment[o])] : o \in Awaiting}

---------------------------------------------------------------------------
(* What the page of a fulfillment shows and offers.                        *)

BackorderTable(f) == Waiting(f.back)

CanManageFulfillment(role) == role \in {"ADMIN", "FINANCE"}

(* "Mirrors the API's own guard"                                           *)
CanShip(f) == f.reserved /\ f.status # "SHIPPED"

CanInvoice(f) == f.status \in {"SHIPPED", "PARTIALLY_SHIPPED"}

HeaderOffers(f, role) ==
    {"accept", "override"}
      \cup {op \in {"ship"} : CanManageFulfillment(role) /\ CanShip(f)}
      \cup {op \in {"invoice"} : CanManageFulfillment(role) /\ CanInvoice(f)}

BannerOffers(f) == {op \in {"consolidate"} : f.ready}

FulfillmentPage(f, role) == HeaderOffers(f, role) \cup BannerOffers(f)

(* openOverride: a line of the editor for each line with an allocation or  *)
(* a backorder, seeded with the split as it is.                            *)
OpenOverride(f) ==
    LET rowsOf(l) == {w \in DOMAIN SplitTable(f) : l \in SplitTable(f)[w]}
        lines == {l \in DOMAIN f.back : rowsOf(l) # {}} \cup BackorderTable(f)
    IN  [l \in lines |-> [total |-> Given(f.alloc, l) + f.back[l],
                          rows |-> [w \in rowsOf(l) |-> f.alloc[w][l]]]]

(* The editor colours the count of a line whose quantity is all given.     *)
AllocatedQty(line) == SumFunction(line.rows)
FullyAllocated(line) == AllocatedQty(line) = line.total

(* groupRowsByWarehouse: what the editor sends.                            *)
GroupRowsByWarehouse(o, lines) ==
    [w \in Sites |-> [l \in LinesIn(o) |->
        IF l \in DOMAIN lines /\ w \in DOMAIN lines[l].rows THEN lines[l].rows[w] ELSE 0]]

(* The steps of InvoiceDetailPage.                                         *)
ORDER_STEPPER == <<"CONFIRMED", "SHIPPED", "INVOICED", "PAID">>
Steps(doc) ==
    LET reached == CHOOSE i \in DOMAIN ORDER_STEPPER : ORDER_STEPPER[i] = doc.status
    IN  [i \in DOMAIN ORDER_STEPPER |->
            IF i < reached THEN "done" ELSE IF i = reached THEN "active" ELSE "pending"]

---------------------------------------------------------------------------
(* What the API accepts.                                                   *)

AcceptsOverride(o, role, alloc) == role \in WriteRoles /\ MayOverride(o, alloc)
AcceptsShip(o, role) == role \in WriteRoles /\ Shippable(o)
AcceptsConsolidate(o, role) ==
    /\ role \in WriteRoles
    /\ fulfillment[o].ready
    /\ Coverable(stock, Demand[o], fulfillment[o].back)

---------------------------------------------------------------------------
(* fulfillment-detail.page.ts:265: the Ship button is there for those who  *)
(* manage fulfillment exactly when the API takes it from them.             *)
ShipMirrorsTheAPI(o) ==
    \A role \in ViewRoles :
        "ship" \in FulfillmentPage(fulfillment[o], role)
            <=> CanManageFulfillment(role) /\ AcceptsShip(o, role)

(* UI_SPEC.md:376: the banner is raised over a backorder only, and as long *)
(* as it is there its button works for whoever may write while stock       *)
(* covers the backorder.                                                   *)
BannerMeansBackorder(o) ==
    LET f == fulfillment[o]
    IN  "consolidate" \in BannerOffers(f) =>
            /\ BackorderTable(f) # {}
            /\ \A role \in WriteRoles :
                  Coverable(stock, Demand[o], f.back) => AcceptsConsolidate(o, role)

(* Whoever is owed goods finds the order in the list, which says so.       *)
GoodsOwedAreListed(o) ==
    BackorderTable(fulfillment[o]) # {} =>
        \E row \in AwaitingTable :
            row.order = o /\ row.status \in {"BACKORDER", "PARTIALLY_SHIPPED"}

(* What has left can be billed, and can be neither planned nor overridden  *)
(* again; an order is not called shipped before.                           *)
GoodsThatLeftAreSettled(o) ==
    LET f == fulfillment[o]
    IN  (\/ f.shipped # {}
         \/ order[o].status = "SHIPPED"
         \/ \E l \in LinesIn(o) : order[o].qtyShipped[l] # 0) =>
            /\ \A role \in {"ADMIN", "FINANCE"} : "invoice" \in FulfillmentPage(f, role)
            /\ ~Replannable(o)

(* USER_FLOWS.md:1125-1130: the chip.  RESERVED, "The stock is ours", over *)
(* a reserved split without a backorder; BACKORDER and PARTIALLY_SHIPPED   *)
(* as long as goods are owed.                                              *)
ChipIsTrue(o) ==
    LET f == fulfillment[o]
    IN  /\ f.status \in {"RESERVED", "PARTIALLY_SHIPPED"} => f.reserved
        /\ f.status = "SPLIT_PENDING" => ~f.reserved
        /\ f.status \in {"BACKORDER", "PARTIALLY_SHIPPED"} <=> BackorderTable(f) # {}

(* Over every sequence of plans, acceptances, overrides, shipments,        *)
(* restocks and consolidations, the pages of an order offer what fits it.  *)
OffersFitTheOrder ==
    \A o \in Orders : Confirmed(o) =>
        /\ ShipMirrorsTheAPI(o)
        /\ BannerMeansBackorder(o)
        /\ GoodsOwedAreListed(o)
        /\ GoodsThatLeftAreSettled(o)
        /\ ChipIsTrue(o)

(* fulfillment-detail.page.ts:300, "Seeds the editor from the CURRENT      *)
(* split": every line of the order that has units is in it with the        *)
(* quantity ordered, or given if that is more, and red when goods of it are*)
(* owed; and sending it back untouched is accepted of an accepted split,   *)
(* whatever the stock, and changes nothing but the mark of the banner.     *)
EditorFitsTheOrder ==
    \A o \in Orders : Replannable(o) =>
        LET f == fulfillment[o]
            editor == OpenOverride(f)
            untouched == GroupRowsByWarehouse(o, editor)
        IN  /\ StockLines(Demand[o]) \subseteq DOMAIN editor
            /\ \A l \in DOMAIN editor :
                  /\ editor[l].total = Max({Demand[o][l].qty, Given(f.alloc, l)})
                  /\ FullyAllocated(editor[l]) <=> l \notin BackorderTable(f)
            /\ f.reserved =>
                  /\ \A role \in WriteRoles : AcceptsOverride(o, role, untouched)
                  /\ Overridden(o, untouched) = [f EXCEPT !.ready = FALSE]

(* The stepper says Shipped when all of the order has been.                *)
StepperFollowsTheGoods ==
    \A o \in Orders : Confirmed(o) =>
        (Steps(order[o])[2] = "active" =>
            \A l \in LinesIn(o) : order[o].qtyShipped[l] = Demand[o][l].qty)

(* Units add up in the documents and on the screens.                       *)
ShownUnitsAddUp == UnitsAddUp /\ EditorFitsTheOrder /\ StepperFollowsTheGoods

(* fulfillment-detail.page.ts:278, "Stock has left the warehouse": so      *)
(* Ship is offered while something is left to send.                        *)
ShipSendsSomething ==
    \A o \in Orders : (Confirmed(o) /\ CanShip(fulfillment[o])) =>
        \E w \in Sites : Serves(Unshipped(fulfillment[o]), w)

(* USER_FLOWS.md:1140, "PartiallyShipped --> Shipped: the rest ships": once*)
(* stock covers the rest, somebody is offered to send it.                  *)
TheRestCanShip ==
    \A o \in Orders :
        /\ Confirmed(o)
        /\ fulfillment[o].status = "PARTIALLY_SHIPPED"
        /\ Coverable(stock, Demand[o], fulfillment[o].back)
        => "consolidate" \in FulfillmentPage(fulfillment[o], "ADMIN")
=============================================================================
