----------------------------- MODULE Catalogue -----------------------------
(***************************************************************************)
(* The catalogue behind the deals: products with their opening stock, the  *)
(* subscription plans that bill for them, and the customers whose tier     *)
(* decides their price list.  A request of an administrator reads first    *)
(* and writes later, only what differs from what it read, and may die      *)
(* between two writes; requests of several administrators overlap.  The    *)
(* bodies are those that the product, plan and customer forms send.        *)
(***************************************************************************)
EXTENDS Integers, FiniteSets, FiniteSetsExt, Functions

CONSTANTS
    Products, Warehouses, Customers, Tiers, PlanNames, None,
    Admins,    \* the requests that may be under way
    MaxSku,    \* numbers that a generated SKU may end in
    MaxWrites  \* bound on the requests

VARIABLES
    product,    \* [Products -> the product, None before it is created]
    stock,      \* units in the stock rows that exist, by product and warehouse
    active,     \* the warehouses that are active
    customer,   \* [Customers -> tier and price list, None before creation]
    plan,       \* [PlanNames -> the product it bills, None before creation]
    pending,    \* [Admins -> the request, None if none is under way]
    writes,     \* requests so far
    overlapped, \* products that two edits worked on at once
    touched,    \* products edited or restocked after their creation
    cut         \* products whose creation died half way

catalogueVars ==
    <<product, stock, active, customer, plan, pending, writes, overlapped, touched, cut>>

Categories == {"HARDWARE", "SERVICES", "SUBSCRIPTION"}
Cycles == {"MONTHLY", "YEARLY"}
IsStockedCategory(category) == category = "HARDWARE"

CatalogueInit ==
    /\ product = [p \in Products |-> None]
    /\ stock = <<>>
    /\ active = Warehouses
    /\ customer = [c \in Customers |-> None]
    /\ plan = [n \in PlanNames |-> None]
    /\ pending = [a \in Admins |-> None]
    /\ writes = 0 /\ overlapped = {} /\ touched = {} /\ cut = {}

(* What the products in the database look like.                            *)
ProductRecords ==
    [sku : 1 .. MaxSku, category : Categories, sub : BOOLEAN, cycle : Cycles \cup {None},
     onHand : {0, 2} \cup {SumFunction(opening) : opening \in [Warehouses -> {0, 1}]}]

Exists(p) == product[p] # None
SkusTaken == {product[p].sku : p \in {x \in Products : Exists(x)}}

Asked(a, request) ==
    /\ pending[a] = None
    /\ writes < MaxWrites
    /\ writes' = writes + 1
    /\ pending' = [pending EXCEPT ![a] = request]

Over(a) == pending' = [pending EXCEPT ![a] = None]

(* A request of this kind that has come so far.                            *)
At(a, kind, step) == pending[a] # None /\ pending[a].kind = kind /\ pending[a].step = step

---------------------------------------------------------------------------
(* Creating a product.                                                     *)

(* The form: ticking the subscription box sets the category, the category  *)
(* can be chosen freely while it is not ticked; a stocked category comes   *)
(* with the opening stock of the warehouses, the others with a quantity,   *)
(* which stays in the form when the category changes.                      *)
CreateBodies ==
    {body \in [category : Categories, sub : BOOLEAN, cycle : Cycles \cup {None},
               onHand : {0, 2}, opening : [Warehouses -> {0, 1}]] :
        /\ body.sub => body.category = "SUBSCRIPTION"
        /\ body.sub <=> body.cycle # None
        /\ ~IsStockedCategory(body.category) => \A w \in Warehouses : body.opening[w] = 0}

(* generateSku: the first number that is free.                             *)
FreeSkus == (1 .. MaxSku) \ SkusTaken
GenerateSku == Min(FreeSkus)

CreateRequests ==
    [kind : {"create"}, on : Products, body : CreateBodies, sku : 1 .. MaxSku, step : {"read", "created"}]

Allocations(body) == {w \in Warehouses : body.opening[w] > 0}
OpeningStock(body) == SumFunction(body.opening)

(* POST /products: the SKU and the warehouses are looked up first.         *)
CreateRead(a, p) ==
    /\ ~Exists(p)
    /\ \A b \in Admins : pending[b] # None => pending[b].on # p
    /\ FreeSkus # {}
    /\ \E body \in CreateBodies :
          /\ Allocations(body) \subseteq active
          /\ Asked(a, [kind |-> "create", on |-> p, body |-> body, sku |-> GenerateSku, step |-> "read"])
    /\ UNCHANGED <<product, stock, active, customer, plan, overlapped, touched, cut>>

(* The product is written; its quantity is the sum of the warehouses if    *)
(* the form gave them.  Fault: it is the quantity of the body.             *)
QuantityOnHand_Body(body) == body.onHand
QuantityOnHand(body) ==
    IF IsStockedCategory(body.category) THEN OpeningStock(body) ELSE body.onHand

CreateInsert(a) ==
    /\ At(a, "create", "read")
    /\ LET r == pending[a]
       IN  IF r.sku \in SkusTaken
           THEN Over(a) /\ UNCHANGED product
           ELSE /\ product' = [product EXCEPT ![r.on] =
                     [sku |-> r.sku, category |-> r.body.category, sub |-> r.body.sub,
                      cycle |-> r.body.cycle, onHand |-> QuantityOnHand(r.body)]]
                /\ IF Allocations(r.body) = {} THEN Over(a)
                   ELSE pending' = [pending EXCEPT ![a].step = "created"]
    /\ UNCHANGED <<stock, active, customer, plan, writes, overlapped, touched, cut>>

(* Then its stock rows.                                                    *)
CreateStock(a) ==
    /\ At(a, "create", "created")
    /\ LET r == pending[a]
           rows == {<<r.on, w>> : w \in Allocations(r.body)}
       IN  stock' = [k \in DOMAIN stock \cup rows |->
                        IF k \in rows THEN r.body.opening[k[2]] ELSE stock[k]]
    /\ Over(a)
    /\ UNCHANGED <<product, active, customer, plan, writes, overlapped, touched, cut>>

---------------------------------------------------------------------------
(* Editing a product.                                                      *)

(* ProductDetailPage.save sends every field of its form; the category is   *)
(* free whether the product is a subscription or not.                      *)
EditBodies ==
    {body \in [category : Categories, sub : BOOLEAN, cycle : Cycles \cup {None}, onHand : {0, 2}] :
        body.sub <=> body.cycle # None}

(* PUT /products/:id *)
EditRead(a, p) ==
    /\ Exists(p)
    /\ \E body \in EditBodies, sku \in 1 .. MaxSku :
          /\ sku = product[p].sku \/ sku \notin SkusTaken
          /\ Asked(a, [kind |-> "edit", on |-> p, body |-> body, sku |-> sku,
                       read |-> product[p], step |-> "read"])
    /\ overlapped' = IF \E b \in Admins \ {a} : At(b, "edit", "read") /\ pending[b].on = p
                     THEN overlapped \cup {p} ELSE overlapped
    /\ touched' = touched \cup {p}
    /\ UNCHANGED <<product, stock, active, customer, plan, cut>>

(* The copy with the form's fields in it; no subscription, no cycle.       *)
(* Fault: the cycle is not cleared.                                        *)
Edited_CycleKept(read, body, sku) ==
    [sku |-> sku, category |-> body.category, sub |-> body.sub, onHand |-> body.onHand,
     cycle |-> IF body.cycle = None THEN read.cycle ELSE body.cycle]
Edited(read, body, sku) ==
    [sku |-> sku, category |-> body.category, sub |-> body.sub, onHand |-> body.onHand,
     cycle |-> IF body.sub THEN body.cycle ELSE None]

(* save() writes the fields that differ from the document that was read.   *)
Differing(current, read, new) ==
    [f \in DOMAIN new |-> IF new[f] # read[f] THEN new[f] ELSE current[f]]

EditSave(a) ==
    /\ At(a, "edit", "read")
    /\ LET r == pending[a]
           saved == Differing(product[r.on], r.read, Edited(r.read, r.body, r.sku))
       IN  IF r.sku # r.read.sku /\ r.sku \in SkusTaken
           THEN UNCHANGED product
           ELSE product' = [product EXCEPT ![r.on] = saved]
    /\ Over(a)
    /\ UNCHANGED <<stock, active, customer, plan, writes, overlapped, touched, cut>>

(* The units of a row, 0 without one.                                      *)
Units(p, w) == IF <<p, w>> \in DOMAIN stock THEN stock[<<p, w>>] ELSE 0

(* POST /stock/adjust: the row is made if there is none, and the product's *)
(* own quantity is left alone.                                             *)
Adjust(p, w) ==
    /\ Exists(p)
    /\ writes < MaxWrites
    /\ writes' = writes + 1
    /\ stock' = [k \in DOMAIN stock \cup {<<p, w>>} |->
                    IF k = <<p, w>> THEN Units(p, w) + 1 ELSE stock[k]]
    /\ touched' = touched \cup {p}
    /\ UNCHANGED <<product, active, customer, plan, pending, overlapped, cut>>

(* PUT /warehouses/:id, as to who takes opening stock.                     *)
SetActive(w) ==
    /\ writes < MaxWrites
    /\ writes' = writes + 1
    /\ active' = IF w \in active THEN active \ {w} ELSE active \cup {w}
    /\ UNCHANGED <<product, stock, customer, plan, pending, overlapped, touched, cut>>

---------------------------------------------------------------------------
(* Plans.                                                                  *)

(* POST /subscription-plans: the name must be free and the product a       *)
(* subscription.                                                           *)
PlanRead(a, name, p) ==
    /\ plan[name] = None
    /\ Exists(p)
    /\ product[p].sub
    /\ Asked(a, [kind |-> "plan", on |-> p, name |-> name, step |-> "read"])
    /\ UNCHANGED <<product, stock, active, customer, plan, overlapped, touched, cut>>

PlanInsert(a) ==
    /\ At(a, "plan", "read")
    /\ plan' = IF plan[pending[a].name] = None
               THEN [plan EXCEPT ![pending[a].name] = pending[a].on] ELSE plan
    /\ Over(a)
    /\ UNCHANGED <<product, stock, active, customer, writes, overlapped, touched, cut>>

---------------------------------------------------------------------------
(* Customers.                                                              *)

(* Every tier has one price list (a unique index), named by the tier here. *)
CreateCustomer(c, tier) ==
    /\ customer[c] = None
    /\ writes < MaxWrites
    /\ writes' = writes + 1
    /\ customer' = [customer EXCEPT ![c] = [tier |-> tier, priceList |-> tier]]
    /\ UNCHANGED <<product, stock, active, plan, pending, overlapped, touched, cut>>

(* PATCH /customers/:id *)
PatchRead(a, c, tier) ==
    /\ customer[c] # None
    /\ Asked(a, [kind |-> "patch", on |-> c, tier |-> tier, read |-> customer[c], step |-> "read"])
    /\ UNCHANGED <<product, stock, active, customer, plan, overlapped, touched, cut>>

(* A new tier brings its price list.  Fault: it does not.                  *)
Retiered_TierOnly(read, tier) == [read EXCEPT !.tier = tier]
Retiered(read, tier) ==
    IF tier = read.tier THEN read ELSE [tier |-> tier, priceList |-> tier]

PatchSave(a) ==
    /\ At(a, "patch", "read")
    /\ LET r == pending[a]
       IN  customer' = [customer EXCEPT ![r.on] = Differing(@, r.read, Retiered(r.read, r.tier))]
    /\ Over(a)
    /\ UNCHANGED <<product, stock, active, plan, writes, overlapped, touched, cut>>

(* A process dies between two steps of a request.                          *)
Dies(a) ==
    /\ pending[a] # None
    /\ cut' = IF At(a, "create", "created") THEN cut \cup {pending[a].on} ELSE cut
    /\ Over(a)
    /\ UNCHANGED <<product, stock, active, customer, plan, writes, overlapped, touched>>

CatalogueNext ==
    \/ \E a \in Admins :
          \/ \E p \in Products : CreateRead(a, p) \/ EditRead(a, p)
          \/ \E p \in Products, name \in PlanNames : PlanRead(a, name, p)
          \/ \E c \in Customers, tier \in Tiers : PatchRead(a, c, tier)
          \/ CreateInsert(a) \/ CreateStock(a) \/ EditSave(a) \/ PlanInsert(a) \/ PatchSave(a)
          \/ Dies(a)
    \/ \E p \in Products, w \in Warehouses : Adjust(p, w)
    \/ \E w \in Warehouses : SetActive(w)
    \/ \E c \in Customers, tier \in Tiers : CreateCustomer(c, tier)

---------------------------------------------------------------------------
(* What the warehouses hold of a product.                                  *)
InStock(p) == SumFunction([w \in Warehouses |-> Units(p, w)])

Creating(p) == \E a \in Admins : At(a, "create", "created") /\ pending[a].on = p

(* The two are never allowed to drift apart (customers.routes.ts:100),     *)
(* whatever patches overlap.                                               *)
PriceListIsOfTheTier ==
    \A c \in Customers : customer[c] # None => customer[c].priceList = customer[c].tier

(* A product has a cycle exactly if it is a subscription, unless two edits *)
(* of it overlapped.                                                       *)
CycleFollowsSubscription ==
    \A p \in Products \ overlapped : Exists(p) => (product[p].sub <=> product[p].cycle # None)

(* A product that was only created stands in the catalogue with what the   *)
(* warehouses hold, unless its creation died half way.                     *)
OpeningStockIsCounted ==
    \A p \in Products \ (touched \cup cut) :
        (Exists(p) /\ IsStockedCategory(product[p].category) /\ ~Creating(p))
            => product[p].onHand = InStock(p)

CatalogueAgrees ==
    PriceListIsOfTheTier /\ CycleFollowsSubscription /\ OpeningStockIsCounted

---------------------------------------------------------------------------
(* What the comments and forms say and the code does not do.               *)

(* products.routes.ts:265, "must not carry a stale cycle": an edit that    *)
(* read the subscription before another cleared it writes its cycle only.  *)
NoStaleCycle ==
    \A p \in Products : (Exists(p) /\ ~product[p].sub) => product[p].cycle = None

(* product-list.page.ts:202, the quantity and the warehouses "can never    *)
(* disagree": restocking leaves the quantity alone, the product page edits *)
(* it, and a creation may die between the two writes.                      *)
QuantityNeverDisagrees ==
    \A p \in Products :
        (Exists(p) /\ IsStockedCategory(product[p].category) /\ ~Creating(p))
            => product[p].onHand = InStock(p)

(* product-list.page.ts:121, "Subscription products are always categorised *)
(* as Subscription": the product page lets them be anything.               *)
SubscriptionsAreCategorised ==
    \A p \in Products : (Exists(p) /\ product[p].sub) => product[p].category = "SUBSCRIPTION"

(* subscriptionPlans.routes.ts:56-60, a plan bills for a subscription      *)
(* product only: the product may stop being one later.                     *)
PlansBillSubscriptions ==
    \A name \in PlanNames : plan[name] # None => product[plan[name]].sub
=============================================================================
