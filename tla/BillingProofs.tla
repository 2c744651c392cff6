---------------------------- MODULE BillingProofs ----------------------------
(***************************************************************************)
(* Proofs about Billing, for every order, price, calendar and number of    *)
(* handlers, with any overlap of them and any of them dying anywhere.      *)
(*                                                                         *)
(* The invariant says of each handler under way that what it read is not   *)
(* ahead of what is stored: counters only grow, an invoice keeps its       *)
(* total, and nothing that a handler refers to ever disappears.  The last  *)
(* part counts units: what all the invoices of an order bill together.     *)
(***************************************************************************)
EXTENDS BillingScreens, WellFoundedInduction, FiniteSetTheorems, TLAPS

---------------------------------------------------------------------------
(* Arithmetic.                                                             *)

LEMMA RoundedIsInt ==
    ASSUME NEW num \in Int, NEW den \in Int, den > 0
    PROVE  RoundHalfAway(num, den) \in Int
BY DEF RoundHalfAway

LEMMA ClampedIsInt ==
    ASSUME NEW bound \in Int, NEW n \in Int
    PROVE  /\ AtLeast(bound, n) \in Int /\ AtMost(bound, n) \in Int
           /\ AtLeast(bound, n) >= bound /\ AtLeast(bound, n) >= n
           /\ AtMost(bound, n) <= bound /\ AtMost(bound, n) <= n
BY DEF AtLeast, AtMost

LEMMA CycleDaysPositive ==
    ASSUME NEW cycle \in Cycles
    PROVE  CycleDays[cycle] \in Int /\ CycleDays[cycle] > 0
BY DEF Cycles, CycleDays

LEMMA ShareIsInt ==
    ASSUME NEW amount \in Nat, NEW days \in Int, NEW cycle \in Cycles
    PROVE  MulMoney(amount, days, CycleDays[cycle]) \in Int
<1>1. amount * days \in Int
    OBVIOUS
<1>. QED
    BY <1>1, CycleDaysPositive, RoundedIsInt DEF MulMoney

LEMMA NetIsInt ==
    ASSUME NEW old \in Nat, NEW new \in Nat, NEW remaining \in Int, NEW cycle \in Cycles,
           NEW rule \in ProrationRules
    PROVE  Prorate(old, new, remaining, cycle, rule).net \in Int
<1>. DEFINE left == AtMost(CycleDays[cycle], AtLeast(0, remaining))
            credit == MulMoney(old, left, CycleDays[cycle])
            charge == MulMoney(new, left, CycleDays[cycle])
<1>1. left \in Int
  <2>1. CycleDays[cycle] \in Int
      BY CycleDaysPositive
  <2>2. AtLeast(0, remaining) \in Int
      BY ClampedIsInt
  <2>. QED
      BY <2>1, <2>2, ClampedIsInt
<1>2. credit \in Int /\ charge \in Int
    BY <1>1, ShareIsInt
<1>3. charge - credit \in Int
    BY <1>2
<1>. HIDE DEF credit, charge
<1>4. Prorate(old, new, remaining, cycle, rule) =
          CASE rule = "NONE" -> [credit |-> 0, charge |-> 0, net |-> 0]
            [] rule = "FULL_PERIOD" -> [credit |-> 0, charge |-> new, net |-> new]
            [] OTHER -> [credit |-> credit, charge |-> charge, net |-> charge - credit]
    BY Zenon DEF Prorate, credit, charge
<1>. QED
    BY <1>3, <1>4 DEF ProrationRules

LEMMA CreditIsInt ==
    ASSUME NEW amount \in Nat, NEW remaining \in Int, NEW cycle \in Cycles,
           NEW rule \in ProrationRules
    PROVE  CancellationCredit(amount, remaining, cycle, rule) \in Int
<1>1. AtLeast(0, remaining) \in Int
    BY ClampedIsInt
<1>2. MulMoney(amount, AtLeast(0, remaining), CycleDays[cycle]) \in Int
    BY <1>1, ShareIsInt
<1>. QED
    BY <1>2 DEF CancellationCredit

(* The first and the last of some periods.                                 *)
LEMMA MinIsIn ==
    ASSUME NEW S \in SUBSET Nat, S # {}
    PROVE  Min(S) \in S /\ \A y \in S : Min(S) <= y
<1>. DEFINE R == OpToRel(<, Nat)
<1>1. IsWellFoundedOn(R, Nat)
    BY NatLessThanWellFounded
<1>2. \A x, y \in Nat : x < y => <<x, y>> \in R
    BY DEF OpToRel
<1>. HIDE DEF R
<1>3. PICK x \in S : \A y \in S : ~(<<y, x>> \in R)
    BY <1>1, WFMin
<1>4. ASSUME NEW y \in S PROVE x <= y
  <2>1. x \in Nat /\ y \in Nat /\ ~(y < x)
      BY <1>2, <1>3
  <2>. QED
      BY <2>1
<1>. QED
    BY <1>4 DEF Min

LEMMA MaxIsIn ==
    ASSUME NEW n \in Nat, NEW S \in SUBSET (1..n), S # {}
    PROVE  Max(S) \in S
<1>. DEFINE T == {n - k : k \in S}
<1>1. \A k \in S : n - k \in Nat
    OBVIOUS
<1>2. T \in SUBSET Nat /\ T # {}
    BY <1>1, Zenon
<1>3. Min(T) \in T /\ \A y \in T : Min(T) <= y
    BY <1>2, MinIsIn
<1>4. PICK k \in S : Min(T) = n - k
    BY <1>3
<1>5. ASSUME NEW j \in S PROVE k >= j
  <2>1. n - j \in T
      OBVIOUS
  <2>2. n - k <= n - j
      BY <2>1, <1>3, <1>4
  <2>. QED
      BY <2>2
<1>. QED
    BY <1>4, <1>5 DEF Max

---------------------------------------------------------------------------
(* The invariant.                                                          *)

Subs == DOMAIN Recurring

Bounded(o, doc) ==
    \A l \in Lines : doc.invoiced[l] <= doc.shipped[l] /\ doc.shipped[l] <= Ordered[o][l]

Balanced(doc) == doc.due = doc.total - doc.paid

(* What the handler that holds h may rely on.                              *)
Reads(h) ==
    /\ h.at \in {"generate.insert", "generate.save"} =>
           /\ h.o \in Orders /\ order[h.o] \in OrderRecord
           /\ h.snap \in OrderRecord /\ Bounded(h.o, h.snap)
           /\ \A l \in Lines : h.snap.shipped[l] <= order[h.o].shipped[l]
    /\ h.at = "pay.save" =>
           /\ h.i \in DOMAIN invoice
           /\ h.snap \in InvoiceRecord /\ Balanced(h.snap)
           /\ h.snap.total = invoice[h.i].total /\ h.snap.order = invoice[h.i].order
           /\ h.amount \in Nat /\ h.amount > 0 /\ h.amount <= h.snap.due
    /\ h.at = "pay.order" => h.o \in Orders /\ order[h.o] \in OrderRecord
    /\ h.at = "convert.subscribe" => h.o \in Subs /\ h.day \in Instants /\ order[h.o] \in OrderRecord
    /\ h.at = "convert.invoice" =>
           /\ h.o \in Subs /\ order[h.o] \in OrderRecord
           /\ subscription[h.o] \in Subscription /\ h.snap \in Subscription
    /\ h.at \in {"subscription.save", "credit"} =>
           /\ h.o \in Subs /\ order[h.o] \in OrderRecord
           /\ subscription[h.o] \in Subscription
           /\ h.snap \in Subscription /\ h.new \in Subscription
    /\ h.at = "credit" => h.credit \in Int
    /\ h.at = "run" =>
           /\ h.todo \subseteq Subs /\ h.o \in h.todo
           /\ \A s \in h.todo : /\ order[s] \in OrderRecord
                                /\ subscription[s] \in Subscription
                                /\ h.docs[s] \in Subscription
           /\ h.snap \in Subscription /\ h.new \in Subscription

StoreInv ==
    /\ TypeOK
    /\ \A o \in Orders : order[o] \in OrderRecord => Bounded(o, order[o])
    /\ \A o \in Orders : subscription[o] \in Subscription => o \in Subs /\ order[o] \in OrderRecord
    /\ \A i \in DOMAIN invoice : Balanced(invoice[i]) /\ order[invoice[i].order] \in OrderRecord

BillingInv ==
    /\ StoreInv
    /\ DOMAIN request = Requests
    /\ \A r \in Requests : Reads(request[r])

(* What every step does to the store.                                      *)
Grows ==
    /\ \A o \in Orders : order[o] \in OrderRecord =>
           /\ order'[o] \in OrderRecord
           /\ \A l \in Lines : order[o].shipped[l] <= order'[o].shipped[l]
    /\ \A i \in DOMAIN invoice :
           /\ i \in DOMAIN invoice'
           /\ invoice'[i].total = invoice[i].total /\ invoice'[i].order = invoice[i].order
    /\ \A o \in Orders : subscription[o] \in Subscription => subscription'[o] \in Subscription

---------------------------------------------------------------------------
(* How requests move.                                                      *)

LEMMA ReadsKept ==
    ASSUME StoreInv, Grows, NEW h, Reads(h)
    PROVE  Reads(h)'
<1>1. CASE h.at \in {"generate.insert", "generate.save"}
  <2>1. h.o \in Orders /\ order[h.o] \in OrderRecord /\ order'[h.o] \in OrderRecord
      BY <1>1 DEF Reads, Grows
  <2>2. \A l \in Lines : h.snap.shipped[l] <= order'[h.o].shipped[l]
    <3>. TAKE l \in Lines
    <3>1. /\ h.snap.shipped[l] <= order[h.o].shipped[l]
          /\ order[h.o].shipped[l] <= order'[h.o].shipped[l]
        BY <1>1, <2>1 DEF Reads, Grows
    <3>2. /\ h.snap.shipped[l] \in Int /\ order[h.o].shipped[l] \in Int
          /\ order'[h.o].shipped[l] \in Int
        BY <1>1, <2>1 DEF Reads, OrderRecord, Units
    <3>. QED
        BY <3>1, <3>2
  <2>. QED
      BY <1>1, <2>1, <2>2 DEF Reads, Bounded
<1>2. CASE h.at = "pay.save"
    BY <1>2 DEF Reads, Grows, Balanced
<1>3. CASE h.at \in {"pay.order", "convert.subscribe", "convert.invoice", "subscription.save",
                     "credit", "run"}
    BY <1>3, RecurringType DEF Reads, Grows, Subs
<1>4. CASE h.at \notin {"generate.insert", "generate.save", "pay.save", "pay.order",
                        "convert.subscribe", "convert.invoice", "subscription.save",
                        "credit", "run"}
    BY <1>4 DEF Reads
<1>. QED
    BY <1>1, <1>2, <1>3, <1>4

(* A step that changes one slot, and one that changes none.                *)
LEMMA SlotChanged ==
    ASSUME BillingInv, StoreInv', Grows, NEW r \in Requests, NEW state,
           request' = [request EXCEPT ![r] = state], Reads(state)'
    PROVE  BillingInv'
<1>1. DOMAIN request' = Requests
    BY DEF BillingInv
<1>2. ASSUME NEW q \in Requests PROVE Reads(request[q])'
  <2>1. CASE q = r
    <3>1. request'[q] = state
        BY <2>1 DEF BillingInv
    <3>. QED
        BY <3>1
  <2>2. CASE q # r
    <3>1. request'[q] = request[q] /\ Reads(request[q])
        BY <2>2 DEF BillingInv
    <3>. DEFINE h == request[q]
    <3>. QED
        BY <3>1, ReadsKept DEF BillingInv
  <2>. QED
      BY <2>1, <2>2
<1>. QED
    BY <1>1, <1>2 DEF BillingInv

LEMMA SlotsKept ==
    ASSUME BillingInv, StoreInv', Grows, request' = request
    PROVE  BillingInv'
<1>1. ASSUME NEW q \in Requests PROVE Reads(request[q])'
    BY ReadsKept DEF BillingInv
<1>. QED
    BY <1>1 DEF BillingInv

LEMMA IdleReads == Reads(Idle)'
BY DEF Reads, Idle

(* A handler that begins, goes on or ends touches the clock and the        *)
(* accidents as the type says.                                             *)
LEMMA BeginTypes ==
    ASSUME TypeOK, NEW r \in Requests, NEW state, Begin(r, state)
    PROVE  /\ clock' \in Instants /\ accidents' \in 0..MaxAccidents
           /\ request' = [request EXCEPT ![r] = state]
BY MaxAccidentsType DEF Begin, Accident, TypeOK

LEMMA ContinueTypes ==
    ASSUME TypeOK, NEW r \in Requests, NEW state, Continue(r, state)
    PROVE  /\ clock' \in Instants /\ accidents' \in 0..MaxAccidents
           /\ request' = [request EXCEPT ![r] = state]
BY DEF Continue, TypeOK

(* A handler that only reads.                                              *)
LEMMA OnlyReads ==
    ASSUME BillingInv, NEW r \in Requests, NEW state, Begin(r, state), UNCHANGED store, Reads(state)'
    PROVE  BillingInv'
<1>1. StoreInv'
    BY BeginTypes DEF BillingInv, StoreInv, TypeOK, store, Bounded, Balanced
<1>2. Grows
    BY DEF Grows, store, BillingInv, StoreInv, TypeOK, OrderRecord, Units
<1>. QED
    BY <1>1, <1>2, BeginTypes, SlotChanged DEF BillingInv, StoreInv
---------------------------------------------------------------------------
(* One-time invoices.                                                      *)

(* Changing the counters or the status of one order.                       *)
LEMMA OrderChanged ==
    ASSUME BillingInv, NEW o \in Orders, NEW doc \in OrderRecord, Bounded(o, doc),
           order[o] \in OrderRecord => \A l \in Lines : order[o].shipped[l] <= doc.shipped[l],
           order' = [order EXCEPT ![o] = doc],
           UNCHANGED <<invoice, subscription, credits>>,
           clock' \in Instants, accidents' \in 0..MaxAccidents
    PROVE  StoreInv' /\ Grows
<1>1. order' \in [Orders -> OrderRecord \cup {None}]
    BY DEF BillingInv, StoreInv, TypeOK
<1>2. TypeOK'
    BY <1>1 DEF BillingInv, StoreInv, TypeOK
<1>3. \A p \in Orders : order[p] \in OrderRecord => order'[p] \in OrderRecord
    BY DEF BillingInv, StoreInv, TypeOK
<1>4. ASSUME NEW p \in Orders, order'[p] \in OrderRecord PROVE Bounded(p, order'[p])
    BY <1>4 DEF BillingInv, StoreInv, TypeOK
<1>5. \A i \in DOMAIN invoice : invoice[i].order \in Orders
  <2>1. \A i \in DOMAIN invoice : invoice[i] \in InvoiceRecord
      BY DEF BillingInv, StoreInv, TypeOK
  <2>. QED
      BY <2>1 DEF InvoiceRecord
<1>6. StoreInv'
    BY <1>2, <1>3, <1>4, <1>5 DEF BillingInv, StoreInv, Bounded, Balanced
<1>7. ASSUME NEW p \in Orders, order[p] \in OrderRecord, NEW l \in Lines
      PROVE  order[p].shipped[l] <= order'[p].shipped[l]
  <2>1. CASE p = o
      BY <1>7, <2>1 DEF BillingInv, StoreInv, TypeOK
  <2>2. CASE p # o
    <3>1. order'[p] = order[p] /\ order[p].shipped[l] \in Int
        BY <1>7, <2>2 DEF BillingInv, StoreInv, TypeOK, OrderRecord, Units
    <3>. QED
        BY <3>1
  <2>. QED
      BY <2>1, <2>2
<1>8. Grows
    BY <1>3, <1>7 DEF Grows
<1>. QED
    BY <1>6, <1>8

LEMMA ShipKeeps ==
    ASSUME BillingInv, NEW o \in Orders, NEW units \in Units, Ship(o, units)
    PROVE  BillingInv' /\ Grows
<1>. DEFINE shipped == [l \in Lines |-> order[o].shipped[l] + units[l]]
            all == order[o].status = "CONFIRMED" /\ shipped = Ordered[o]
            doc == [order[o] EXCEPT !.shipped = shipped,
                                    !.status = IF all THEN "SHIPPED" ELSE @]
<1>1. order[o] \in OrderRecord
    BY DEF Ship, BillingInv, StoreInv, TypeOK
<1>2. \A l \in Lines : /\ order[o].shipped[l] \in Nat /\ units[l] \in Nat
                        /\ shipped[l] <= Ordered[o][l] /\ Ordered[o][l] \in 0..MaxUnits
    BY <1>1, OrderedType DEF Ship, OrderRecord, Units
<1>3. shipped \in Units
  <2>1. \A l \in Lines : shipped[l] \in 0..MaxUnits
      BY <1>2, OrderedType
  <2>. QED
      BY <2>1 DEF Units
<1>4. doc \in OrderRecord
    BY <1>1, <1>3 DEF OrderRecord, OrderStatus
<1>5. doc.shipped = shipped /\ doc.invoiced = order[o].invoiced
    BY <1>1 DEF OrderRecord
<1>6. \A l \in Lines : order[o].shipped[l] <= doc.shipped[l]
    BY <1>2, <1>5
<1>7. Bounded(o, doc)
  <2>. HIDE DEF doc, shipped
  <2>. SUFFICES ASSUME NEW l \in Lines
                PROVE  doc.invoiced[l] <= doc.shipped[l] /\ doc.shipped[l] <= Ordered[o][l]
      BY DEF Bounded
  <2>1. /\ order[o].invoiced[l] \in Nat /\ order[o].shipped[l] \in Nat
        /\ order[o].invoiced[l] <= order[o].shipped[l]
      BY <1>1 DEF BillingInv, StoreInv, Bounded, OrderRecord, Units
  <2>2. doc.shipped[l] \in Nat
      BY <1>4 DEF OrderRecord, Units
  <2>3. order[o].shipped[l] <= doc.shipped[l] /\ doc.shipped[l] <= Ordered[o][l]
      BY <1>2, <1>5, <1>6
  <2>. QED
      BY <2>1, <2>2, <2>3, <1>5
<1>8. order' = [order EXCEPT ![o] = doc]
    BY <1>1 DEF Ship, BillingInv, StoreInv, TypeOK, OrderRecord
<1>9. StoreInv' /\ Grows
  <2>1. clock' \in Instants /\ accidents' \in 0..MaxAccidents
      BY DEF Ship, BillingInv, StoreInv, TypeOK
  <2>. HIDE DEF doc
  <2>. QED
      BY <1>1, <1>4, <1>6, <1>7, <1>8, <2>1, OrderChanged DEF Ship
<1>. QED
    BY <1>9, SlotsKept DEF Ship

LEMMA GenerateReadKeeps ==
    ASSUME BillingInv, NEW r \in Requests, NEW o \in Orders, GenerateRead(r, o)
    PROVE  BillingInv'
<1>. PICK snap : snap = order[o]
    OBVIOUS
<1>. DEFINE state == [at |-> "generate.insert", inserts |-> 1, o |-> o, snap |-> snap]
<1>1. order[o] \in OrderRecord
    BY DEF GenerateRead, BillingInv, StoreInv, TypeOK
<1>2. \A l \in Lines : order[o].shipped[l] \in Nat
    BY <1>1 DEF OrderRecord, Units
<1>3. order' = order /\ Begin(r, state) /\ UNCHANGED store
    BY DEF GenerateRead, store
<1>4. Reads(state)'
    BY <1>1, <1>2, <1>3 DEF Reads, BillingInv, StoreInv, Bounded
<1>. QED
    BY <1>3, <1>4, OnlyReads

(* Inserting an invoice.                                                   *)
LEMMA InvoiceAdded ==
    ASSUME BillingInv, NEW o \in Orders, order[o] \in OrderRecord, NEW period \in 0..Horizon,
           NEW units \in Units, NEW total \in Nat,
           invoice' = Append(invoice, NewInvoice(o, period, units, total)),
           UNCHANGED <<order, subscription, credits>>,
           clock' \in Instants, accidents' \in 0..MaxAccidents
    PROVE  /\ StoreInv' /\ Grows /\ Len(invoice) + 1 \in Nat
<1>. DEFINE new == NewInvoice(o, period, units, total)
<1>1. new \in InvoiceRecord /\ Balanced(new) /\ new.order = o
    BY DEF NewInvoice, InvoiceRecord, InvoiceStatus, Balanced
<1>2. invoice \in Seq(InvoiceRecord)
    BY DEF BillingInv, StoreInv, TypeOK
<1>. HIDE DEF new
<1>3. /\ invoice' \in Seq(InvoiceRecord) /\ Len(invoice) \in Nat
      /\ DOMAIN invoice = 1..Len(invoice) /\ DOMAIN invoice' = 1..(Len(invoice) + 1)
      /\ \A i \in DOMAIN invoice : invoice'[i] = invoice[i]
      /\ invoice'[Len(invoice) + 1] = new
    BY <1>1, <1>2 DEF new
<1>4. TypeOK'
    BY <1>3 DEF BillingInv, StoreInv, TypeOK
<1>5. \A i \in DOMAIN invoice' : i \in DOMAIN invoice \/ i = Len(invoice) + 1
    BY <1>3
<1>6. \A i \in DOMAIN invoice' : Balanced(invoice'[i]) /\ order[invoice'[i].order] \in OrderRecord
    BY <1>1, <1>3, <1>5 DEF BillingInv, StoreInv
<1>7. StoreInv'
    BY <1>4, <1>6 DEF BillingInv, StoreInv, Bounded, Balanced
<1>8. Grows
    BY <1>3 DEF Grows, BillingInv, StoreInv, TypeOK, OrderRecord, Units
<1>. QED
    BY <1>3, <1>7, <1>8

LEMMA BillableIsUnits ==
    ASSUME NEW o \in Orders, NEW doc \in OrderRecord, Bounded(o, doc)
    PROVE  /\ Billable(o, doc) \in Units
           /\ \A l \in Lines : Billable(o, doc)[l] = doc.shipped[l] - doc.invoiced[l]
<1>1. ASSUME NEW l \in Lines
      PROVE  /\ Billable(o, doc)[l] \in 0..MaxUnits
             /\ Billable(o, doc)[l] = doc.shipped[l] - doc.invoiced[l]
  <2>1. /\ doc.shipped[l] \in 0..MaxUnits /\ doc.invoiced[l] \in 0..MaxUnits
        /\ Ordered[o][l] \in 0..MaxUnits
        /\ doc.invoiced[l] <= doc.shipped[l] /\ doc.shipped[l] <= Ordered[o][l]
      BY OrderedType DEF OrderRecord, Units, Bounded
  <2>2. Billable(o, doc)[l] = Invoiceable(Ordered[o][l], doc.shipped[l], doc.invoiced[l])
      BY DEF Billable
  <2>. QED
      BY <2>1, <2>2, OrderedType DEF Invoiceable, AtLeast, AtMost
<1>2. Billable(o, doc) = [l \in Lines |-> Billable(o, doc)[l]]
    BY DEF Billable
<1>. QED
    BY <1>1, <1>2 DEF Units

LEMMA GenerateInsertKeeps ==
    ASSUME BillingInv, NEW r \in Requests, GenerateInsert(r)
    PROVE  BillingInv'
<1>. PICK h : h = request[r]
    OBVIOUS
<1>. DEFINE units == Billable(h.o, h.snap)
            state == [at |-> "generate.save", inserts |-> 0, o |-> h.o, snap |-> h.snap]
<1>1. /\ h.o \in Orders /\ order[h.o] \in OrderRecord
      /\ h.snap \in OrderRecord /\ Bounded(h.o, h.snap)
      /\ \A l \in Lines : h.snap.shipped[l] <= order[h.o].shipped[l]
    BY DEF BillingInv, Reads, GenerateInsert, At
<1>2. units \in Units /\ Total[units] \in Nat
    BY <1>1, BillableIsUnits, TotalType
<1>3. order' = order /\ Continue(r, state)
    BY DEF GenerateInsert
<1>4. StoreInv' /\ Grows
  <2>1. 0 \in 0..Horizon
      BY HorizonType
  <2>. QED
      BY <1>1, <1>2, <1>3, <2>1, ContinueTypes, InvoiceAdded DEF GenerateInsert, BillingInv, StoreInv
<1>5. Reads(state)'
    BY <1>1, <1>3 DEF Reads, Bounded
<1>. QED
    BY <1>3, <1>4, <1>5, ContinueTypes, SlotChanged DEF BillingInv, StoreInv

LEMMA GenerateSaveKeeps ==
    ASSUME BillingInv, NEW r \in Requests, GenerateSave(r)
    PROVE  BillingInv' /\ Grows
<1>. DEFINE h == request[r]
            cur == order[h.o]
            invoiced == InvoicedWritten(h.o, cur, h.snap)
            doc == [cur EXCEPT !.invoiced = invoiced,
                               !.status = IF h.snap.status = "SHIPPED" THEN "INVOICED" ELSE @]
<1>1. /\ h.o \in Orders /\ cur \in OrderRecord
      /\ h.snap \in OrderRecord /\ Bounded(h.o, h.snap)
      /\ \A l \in Lines : h.snap.shipped[l] <= cur.shipped[l]
    BY DEF BillingInv, Reads, GenerateSave, At
<1>2. Bounded(h.o, cur)
    BY <1>1 DEF BillingInv, StoreInv
<1>3. ASSUME NEW l \in Lines
      PROVE  invoiced[l] \in 0..MaxUnits /\ invoiced[l] <= cur.shipped[l]
  <2>1. invoiced[l] = IF Billable(h.o, h.snap)[l] > 0
                      THEN h.snap.invoiced[l] + Billable(h.o, h.snap)[l] ELSE cur.invoiced[l]
      BY DEF InvoicedWritten
  <2>2. Billable(h.o, h.snap)[l] = h.snap.shipped[l] - h.snap.invoiced[l]
      BY <1>1, BillableIsUnits
  <2>3. /\ h.snap.shipped[l] \in 0..MaxUnits /\ h.snap.invoiced[l] \in 0..MaxUnits
        /\ cur.shipped[l] \in 0..MaxUnits /\ cur.invoiced[l] \in 0..MaxUnits
      BY <1>1 DEF OrderRecord, Units
  <2>4. h.snap.shipped[l] <= cur.shipped[l] /\ cur.invoiced[l] <= cur.shipped[l]
      BY <1>1, <1>2 DEF Bounded
  <2>. QED
      BY <2>1, <2>2, <2>3, <2>4
<1>4. invoiced \in Units
    BY <1>3 DEF InvoicedWritten, Units
<1>. HIDE DEF invoiced
<1>5. doc \in OrderRecord /\ doc.shipped = cur.shipped /\ doc.invoiced = invoiced
    BY <1>1, <1>4 DEF OrderRecord, OrderStatus
<1>6. Bounded(h.o, doc)
    BY <1>2, <1>3, <1>5 DEF Bounded
<1>7. \A l \in Lines : cur.shipped[l] <= doc.shipped[l]
    BY <1>1, <1>5 DEF OrderRecord, Units
<1>8. order' = [order EXCEPT ![h.o] = doc]
    BY <1>1 DEF GenerateSave, BillingInv, StoreInv, TypeOK, OrderRecord, invoiced
<1>9. Continue(r, Idle)
    BY DEF GenerateSave, Finish
<1>10. StoreInv' /\ Grows
  <2>. HIDE DEF doc
  <2>. QED
      BY <1>1, <1>5, <1>6, <1>7, <1>8, <1>9, ContinueTypes, OrderChanged
      DEF GenerateSave, BillingInv, StoreInv
<1>. QED
    BY <1>9, <1>10, IdleReads, ContinueTypes, SlotChanged DEF BillingInv, StoreInv
---------------------------------------------------------------------------
(* Payments.                                                               *)

LEMMA InvoicesTyped ==
    ASSUME BillingInv
    PROVE  /\ invoice \in Seq(InvoiceRecord)
           /\ \A i \in DOMAIN invoice : invoice[i] \in InvoiceRecord /\ Balanced(invoice[i])
BY DEF BillingInv, StoreInv, TypeOK

LEMMA PayReadKeeps ==
    ASSUME BillingInv, NEW r \in Requests, NEW i \in DOMAIN invoice, NEW amount \in Amounts,
           PayRead(r, i, amount)
    PROVE  BillingInv'
<1>. PICK snap : snap = invoice[i]
    OBVIOUS
<1>. DEFINE state == [at |-> "pay.save", inserts |-> 0, i |-> i, snap |-> snap, amount |-> amount]
<1>1. invoice' = invoice /\ Begin(r, state) /\ UNCHANGED store
    BY DEF PayRead, store
<1>2. snap \in InvoiceRecord /\ Balanced(snap) /\ amount \in Nat /\ amount > 0 /\ amount <= snap.due
    BY InvoicesTyped, AmountsType DEF PayRead
<1>3. Reads(state)'
    BY <1>1, <1>2 DEF Reads, Balanced
<1>. QED
    BY <1>1, <1>3, OnlyReads

LEMMA PaymentWritten ==
    ASSUME NEW cur \in InvoiceRecord, NEW snap \in InvoiceRecord, Balanced(snap),
           snap.total = cur.total, NEW amount \in Nat, amount <= snap.due
    PROVE  LET doc == InvoiceWritten(cur, snap, Received(snap, amount), amount)
           IN  /\ doc \in InvoiceRecord /\ Balanced(doc)
               /\ doc.total = cur.total /\ doc.order = cur.order
<1>. DEFINE due == snap.total - (snap.paid + amount)
            new == Received(snap, amount)
            doc == InvoiceWritten(cur, snap, new, amount)
<1>1. snap.paid + amount \in Nat /\ due \in Nat
    BY DEF InvoiceRecord, Balanced
<1>2. /\ new.paid = snap.paid + amount /\ new.due = due
      /\ new.status \in {"PAID", "PARTIALLY_PAID"}
    BY <1>1 DEF Received, InvoiceRecord
<1>. HIDE DEF new, due
<1>3. doc = [cur EXCEPT !.paid = new.paid, !.due = new.due, !.received = cur.received + amount,
                        !.status = IF new.status # snap.status THEN new.status ELSE cur.status]
    BY DEF InvoiceWritten, InvoiceRecord
<1>4. cur.received + amount \in Nat
    BY DEF InvoiceRecord
<1>5. doc \in InvoiceRecord /\ doc.paid = new.paid /\ doc.due = due
      /\ doc.total = cur.total /\ doc.order = cur.order
    BY <1>1, <1>2, <1>3, <1>4 DEF InvoiceRecord, InvoiceStatus
<1>6. due = cur.total - new.paid
    BY <1>2 DEF due
<1>. QED
    BY <1>5, <1>6 DEF Balanced, new

LEMMA PaySaveKeeps ==
    ASSUME BillingInv, NEW r \in Requests, PaySave(r)
    PROVE  BillingInv'
<1>. PICK h : h = request[r]
    OBVIOUS
<1>. DEFINE new == Received(h.snap, h.amount)
            doc == InvoiceWritten(invoice[h.i], h.snap, new, h.amount)
            next == [at |-> "pay.order", inserts |-> 0, o |-> h.snap.order]
<1>1. /\ h.i \in DOMAIN invoice
      /\ h.snap \in InvoiceRecord /\ Balanced(h.snap)
      /\ h.snap.total = invoice[h.i].total /\ h.snap.order = invoice[h.i].order
      /\ h.amount \in Nat /\ h.amount > 0 /\ h.amount <= h.snap.due
    BY DEF PaySave, At, BillingInv, Reads
<1>2. /\ doc \in InvoiceRecord /\ Balanced(doc)
      /\ doc.total = invoice[h.i].total /\ doc.order = invoice[h.i].order
    BY <1>1, InvoicesTyped, PaymentWritten
<1>3. /\ invoice' = [invoice EXCEPT ![h.i] = doc]
      /\ UNCHANGED <<order, subscription, credits>>
      /\ Continue(r, next) \/ Continue(r, Idle)
    BY DEF PaySave, Finish
<1>. HIDE DEF doc
<1>4. /\ invoice' \in Seq(InvoiceRecord) /\ DOMAIN invoice' = DOMAIN invoice
      /\ \A i \in DOMAIN invoice : invoice'[i] = IF i = h.i THEN doc ELSE invoice[i]
    BY <1>1, <1>2, <1>3, InvoicesTyped
<1>5. clock' \in Instants /\ accidents' \in 0..MaxAccidents
    BY <1>3, ContinueTypes DEF BillingInv, StoreInv
<1>6. StoreInv'
  <2>1. TypeOK'
      BY <1>3, <1>4, <1>5 DEF BillingInv, StoreInv, TypeOK
  <2>2. \A i \in DOMAIN invoice' : Balanced(invoice'[i]) /\ order[invoice'[i].order] \in OrderRecord
      BY <1>2, <1>4 DEF BillingInv, StoreInv
  <2>. QED
      BY <1>3, <2>1, <2>2 DEF BillingInv, StoreInv, Bounded, Balanced
<1>7. Grows
    BY <1>2, <1>3, <1>4 DEF Grows, BillingInv, StoreInv, TypeOK, OrderRecord, Units
<1>8. Reads(next)'
  <2>1. h.snap.order \in Orders /\ order[h.snap.order] \in OrderRecord
      BY <1>1 DEF InvoiceRecord, BillingInv, StoreInv
  <2>. QED
      BY <1>3, <2>1 DEF Reads
<1>. QED
    BY <1>3, <1>6, <1>7, <1>8, IdleReads, ContinueTypes, SlotChanged DEF BillingInv, StoreInv

LEMMA PayOrderKeeps ==
    ASSUME BillingInv, NEW r \in Requests, PayOrder(r)
    PROVE  BillingInv'
<1>. PICK h : h = request[r]
    OBVIOUS
<1>. DEFINE doc == [order[h.o] EXCEPT !.status = "PAID"]
<1>1. h.o \in Orders /\ order[h.o] \in OrderRecord /\ Bounded(h.o, order[h.o])
    BY DEF PayOrder, At, BillingInv, StoreInv, Reads
<1>2. doc \in OrderRecord /\ doc.shipped = order[h.o].shipped /\ doc.invoiced = order[h.o].invoiced
    BY <1>1 DEF OrderRecord, OrderStatus
<1>3. Bounded(h.o, doc) /\ \A l \in Lines : order[h.o].shipped[l] <= doc.shipped[l]
    BY <1>1, <1>2 DEF Bounded, OrderRecord, Units
<1>4. /\ order' = [order EXCEPT ![h.o] = doc] /\ Continue(r, Idle)
      /\ UNCHANGED <<invoice, subscription, credits>>
    BY DEF PayOrder, Finish
<1>. HIDE DEF doc
<1>5. StoreInv' /\ Grows
    BY <1>1, <1>2, <1>3, <1>4, ContinueTypes, OrderChanged DEF BillingInv, StoreInv
<1>. QED
    BY <1>4, <1>5, IdleReads, ContinueTypes, SlotChanged DEF BillingInv, StoreInv
---------------------------------------------------------------------------
(* Subscriptions.                                                          *)

LEMMA SubscriptionChanged ==
    ASSUME BillingInv, NEW o \in Subs, order[o] \in OrderRecord, NEW doc \in Subscription,
           subscription' = [subscription EXCEPT ![o] = doc],
           UNCHANGED <<order, invoice, credits>>,
           clock' \in Instants, accidents' \in 0..MaxAccidents
    PROVE  StoreInv' /\ Grows
<1>1. o \in Orders
    BY RecurringType DEF Subs
<1>2. /\ subscription' \in [Orders -> Subscription \cup {None}]
      /\ \A p \in Orders : subscription'[p] = IF p = o THEN doc ELSE subscription[p]
    BY <1>1 DEF BillingInv, StoreInv, TypeOK
<1>3. TypeOK'
    BY <1>2 DEF BillingInv, StoreInv, TypeOK
<1>4. StoreInv'
    BY <1>2, <1>3 DEF BillingInv, StoreInv, Bounded, Balanced
<1>5. Grows
    BY <1>2 DEF Grows, BillingInv, StoreInv, TypeOK, OrderRecord, Units
<1>. QED
    BY <1>4, <1>5

(* What is saved is put together from three subscriptions.                 *)
LEMMA WrittenIsSubscription ==
    ASSUME NEW cur \in Subscription, NEW snap \in Subscription, NEW new \in Subscription
    PROVE  SubscriptionWritten(cur, snap, new) \in Subscription
<1>. DEFINE doc == SubscriptionWritten(cur, snap, new)
            entry(k) == doc.schedule[k]
<1>1. ASSUME NEW k \in 1..Horizon
      PROVE  /\ cur.schedule[k] \in Entry /\ snap.schedule[k] \in Entry /\ new.schedule[k] \in Entry
    BY DEF Subscription
<1>2. doc.schedule \in [1..Horizon -> Entry]
    BY <1>1 DEF SubscriptionWritten, Entry
<1>3. /\ doc.status \in SubscriptionStatus /\ doc.start \in Instants
      /\ doc.next \in Int \cup {None} /\ doc.unit \in Nat /\ doc.qty \in Nat /\ doc.amount \in Nat
    BY DEF SubscriptionWritten, Subscription
<1>4. doc = [status |-> doc.status, start |-> doc.start, next |-> doc.next, unit |-> doc.unit,
             qty |-> doc.qty, amount |-> doc.amount, schedule |-> doc.schedule]
    BY DEF SubscriptionWritten
<1>. HIDE DEF doc
<1>5. doc \in Subscription
    BY <1>2, <1>3, <1>4 DEF Subscription
<1>. QED
    BY <1>5 DEF doc

LEMMA PeriodsAreDays ==
    ASSUME NEW o \in Subs, NEW sub \in Subscription, NEW k \in 1..Horizon, NEW day \in Instants
    PROVE  PeriodStart(o, sub, k) \in Int /\ DaysLeft(o, sub, k, day) \in Int
<1>1. sub.start \in Instants /\ k \in 1..(Horizon + 1) /\ k + 1 \in 1..(Horizon + 1)
    BY HorizonType DEF Subscription
<1>2. Dates[o][sub.start][k] \in Int /\ Dates[o][sub.start][k + 1] \in Int
  <2>1. Dates[o] \in [Instants -> [1..(Horizon + 1) -> Int]]
      BY DatesType DEF Subs
  <2>2. Dates[o][sub.start] \in [1..(Horizon + 1) -> Int]
      BY <1>1, <2>1
  <2>. QED
      BY <1>1, <2>2
<1>3. day \in Int
    BY DatesType
<1>. QED
    BY <1>2, <1>3 DEF PeriodStart, DaysLeft

LEMMA DateIsTyped ==
    ASSUME NEW o \in Subs, NEW sub \in Subscription, NEW periods \in SUBSET (1..Horizon)
    PROVE  DateOf(o, sub, periods) \in Int \cup {None}
<1>1. CASE periods = {}
    BY <1>1 DEF DateOf
<1>2. CASE periods # {}
  <2>1. Min(periods) \in 1..Horizon
    <3>1. periods \in SUBSET Nat
        OBVIOUS
    <3>. QED
        BY <1>2, <3>1, MinIsIn
  <2>2. PeriodStart(o, sub, Min(periods)) \in Int
    <3>1. sub.start \in Instants
        BY DEF Subscription
    <3>. QED
        BY <2>1, <3>1, PeriodsAreDays
  <2>. QED
      BY <1>2, <2>2 DEF DateOf
<1>. QED
    BY <1>1, <1>2

LEMMA CurrentPeriodIsPeriod ==
    ASSUME NEW o \in Subs, NEW sub, NEW day
    PROVE  CurrentPeriod(o, sub, day) \in 1..Horizon
<1>. DEFINE begun == {k \in 1..Horizon : PeriodStart(o, sub, k) <= day}
<1>1. begun \in SUBSET (1..Horizon)
    OBVIOUS
<1>. HIDE DEF begun
<1>2. begun # {} => Max(begun) \in 1..Horizon
    BY <1>1, MaxIsIn, HorizonType
<1>3. CurrentPeriod(o, sub, day) = IF begun = {} THEN 1 ELSE Max(begun)
    BY DEF CurrentPeriod, begun
<1>. QED
    BY <1>2, <1>3, HorizonType

LEMMA NextUnbilledArePeriods ==
    ASSUME NEW o \in Subs, NEW sub, NEW day
    PROVE  NextUnbilled(o, sub, day) \in SUBSET (1..Horizon)
<1>. DEFINE ahead == {k \in Unbilled(sub) : PeriodStart(o, sub, k) >= day}
<1>1. Unbilled(sub) \in SUBSET (1..Horizon) /\ ahead \in SUBSET (1..Horizon)
    BY DEF Unbilled
<1>2. NextUnbilled(o, sub, day) = IF ahead # {} THEN {Min(ahead)}
                                  ELSE IF Unbilled(sub) # {} THEN {Min(Unbilled(sub))} ELSE {}
    BY DEF NextUnbilled
<1>. HIDE DEF ahead
<1>3. /\ ahead # {} => Min(ahead) \in 1..Horizon
      /\ Unbilled(sub) # {} => Min(Unbilled(sub)) \in 1..Horizon
  <2>1. ahead \in SUBSET Nat /\ Unbilled(sub) \in SUBSET Nat
      BY <1>1
  <2>. QED
      BY <1>1, <2>1, MinIsIn
<1>. QED
    BY <1>2, <1>3

LEMMA ConvertKeeps ==
    ASSUME BillingInv, NEW r \in Requests, NEW o \in Orders, Convert(r, o)
    PROVE  BillingInv'
<1>. PICK day : day = clock
    OBVIOUS
<1>. DEFINE doc == [status |-> "CONFIRMED", shipped |-> NoUnits, invoiced |-> NoUnits]
            state == [at |-> "convert.subscribe", inserts |-> 1, o |-> o, day |-> day]
<1>1. order[o] \notin OrderRecord
    BY NoneIsNoRecord DEF Convert
<1>2. doc \in OrderRecord /\ Bounded(o, doc)
    BY OrderedType DEF OrderRecord, OrderStatus, Units, NoUnits, Bounded
<1>3. /\ order' = [order EXCEPT ![o] = doc]
      /\ UNCHANGED <<invoice, subscription, credits>>
      /\ \/ o \in Subs /\ Begin(r, state)
         \/ UNCHANGED <<clock, request, accidents>>
    BY DEF Convert, Subs
<1>. HIDE DEF doc
<1>4. day \in Instants /\ clock' \in Instants /\ accidents' \in 0..MaxAccidents
    BY <1>3, BeginTypes DEF BillingInv, StoreInv, TypeOK
<1>5. StoreInv' /\ Grows
    BY <1>1, <1>2, <1>3, <1>4, OrderChanged
<1>6. order'[o] = doc
    BY <1>3 DEF BillingInv, StoreInv, TypeOK
<1>7. CASE o \in Subs /\ Begin(r, state)
  <2>1. Reads(state)'
      BY <1>2, <1>4, <1>6, <1>7 DEF Reads
  <2>. QED
      BY <1>5, <1>7, <2>1, BeginTypes, SlotChanged DEF BillingInv, StoreInv
<1>. QED
    BY <1>3, <1>5, <1>7, SlotsKept

LEMMA ConvertSubscribeKeeps ==
    ASSUME BillingInv, NEW r \in Requests, ConvertSubscribe(r)
    PROVE  BillingInv'
<1>. PICK h : h = request[r]
    OBVIOUS
<1>. DEFINE new == NewSubscription(h.o, h.day)
            state == [at |-> "convert.invoice", inserts |-> 1, o |-> h.o, snap |-> new]
<1>1. h.o \in Subs /\ h.day \in Instants /\ order[h.o] \in OrderRecord
    BY DEF ConvertSubscribe, At, BillingInv, Reads
<1>2. new \in Subscription
  <2>1. /\ Recurring[h.o].unit \in Nat /\ Recurring[h.o].qty \in Nat
        /\ Recurring[h.o].amount \in Nat /\ h.day \in Int
      BY <1>1, RecurringType, DatesType DEF Subs
  <2>. QED
      BY <1>1, <2>1 DEF NewSubscription, Subscription, SubscriptionStatus, Entry
<1>3. /\ subscription' = [subscription EXCEPT ![h.o] = new]
      /\ UNCHANGED <<order, invoice, credits>> /\ Continue(r, state)
    BY DEF ConvertSubscribe
<1>. HIDE DEF new
<1>4. StoreInv' /\ Grows
    BY <1>1, <1>2, <1>3, ContinueTypes, SubscriptionChanged DEF BillingInv, StoreInv
<1>5. subscription'[h.o] = new
    BY <1>1, <1>3, RecurringType DEF BillingInv, StoreInv, TypeOK, Subs
<1>6. Reads(state)'
    BY <1>1, <1>2, <1>3, <1>5 DEF Reads
<1>. QED
    BY <1>3, <1>4, <1>6, ContinueTypes, SlotChanged DEF BillingInv, StoreInv

LEMMA ConvertInvoiceKeeps ==
    ASSUME BillingInv, NEW r \in Requests, ConvertInvoice(r)
    PROVE  BillingInv'
<1>. PICK h, n : h = request[r] /\ n = Len(invoice) + 1
    OBVIOUS
<1>. DEFINE new == [h.snap EXCEPT !.schedule[1].invoice = n]
            state == [at |-> "subscription.save", inserts |-> 0, o |-> h.o, snap |-> h.snap,
                      new |-> new]
<1>1. /\ h.o \in Subs /\ order[h.o] \in OrderRecord
      /\ subscription[h.o] \in Subscription /\ h.snap \in Subscription
    BY DEF ConvertInvoice, At, BillingInv, Reads
<1>2. /\ invoice' = Append(invoice, NewInvoice(h.o, 1, NoUnits, h.snap.amount))
      /\ UNCHANGED <<order, subscription, credits>> /\ Continue(r, state)
    BY DEF ConvertInvoice
<1>3. NoUnits \in Units /\ 1 \in 0..Horizon /\ h.snap.amount \in Nat /\ h.o \in Orders
  <2>1. NoUnits \in Units
      BY OrderedType DEF NoUnits, Units
  <2>2. 1 \in 0..Horizon
      BY HorizonType
  <2>. QED
      BY <1>1, <2>1, <2>2, RecurringType DEF Subscription, Subs
<1>4. StoreInv' /\ Grows /\ n \in Nat
    BY <1>1, <1>2, <1>3, ContinueTypes, InvoiceAdded DEF BillingInv, StoreInv
<1>5. new \in Subscription
  <2>1. 1 \in 1..Horizon /\ h.snap.schedule[1] \in Entry
      BY <1>1, HorizonType, SMTT(30) DEF Subscription
  <2>2. [h.snap.schedule[1] EXCEPT !.invoice = n] \in Entry
      BY <1>4, <2>1 DEF Entry
  <2>. QED
      BY <1>1, <2>1, <2>2 DEF Subscription
<1>. HIDE DEF new
<1>6. Reads(state)'
    BY <1>1, <1>2, <1>5 DEF Reads
<1>. QED
    BY <1>2, <1>4, <1>6, ContinueTypes, SlotChanged DEF BillingInv, StoreInv

LEMMA SubscriptionSaveKeeps ==
    ASSUME BillingInv, NEW r \in Requests, SubscriptionSave(r)
    PROVE  BillingInv'
<1>. PICK h : h = request[r]
    OBVIOUS
<1>. DEFINE doc == SubscriptionWritten(subscription[h.o], h.snap, h.new)
<1>1. /\ h.o \in Subs /\ order[h.o] \in OrderRecord
      /\ subscription[h.o] \in Subscription /\ h.snap \in Subscription /\ h.new \in Subscription
    BY DEF SubscriptionSave, At, BillingInv, Reads
<1>2. doc \in Subscription
    BY <1>1, WrittenIsSubscription
<1>3. /\ subscription' = [subscription EXCEPT ![h.o] = doc]
      /\ UNCHANGED <<order, invoice, credits>> /\ Continue(r, Idle)
    BY DEF SubscriptionSave, Finish
<1>. HIDE DEF doc
<1>4. StoreInv' /\ Grows
    BY <1>1, <1>2, <1>3, ContinueTypes, SubscriptionChanged DEF BillingInv, StoreInv
<1>. QED
    BY <1>3, <1>4, IdleReads, ContinueTypes, SlotChanged DEF BillingInv, StoreInv
---------------------------------------------------------------------------
(* The billing run.                                                        *)

LEMMA DueArePeriods ==
    ASSUME NEW o, NEW sub, NEW day
    PROVE  Due(o, sub, day) \in SUBSET (1..Horizon)
BY DEF Due

LEMMA RunReads ==
    ASSUME NEW todo \in SUBSET Subs, NEW o \in todo, NEW docs, NEW day,
           NEW state, state = RunState(todo, o, docs, day),
           \A s \in todo : /\ order'[s] \in OrderRecord
                           /\ subscription'[s] \in Subscription /\ docs[s] \in Subscription
    PROVE  Reads(state)'
<1>1. /\ state.at = "run" /\ state.todo = todo /\ state.o = o /\ state.docs = docs
      /\ state.snap = docs[o] /\ state.new = docs[o]
    BY DEF RunState
<1>. QED
    BY <1>1 DEF Reads

LEMMA RunReadKeeps ==
    ASSUME BillingInv, NEW r \in Requests, RunRead(r)
    PROVE  BillingInv'
<1>. PICK read, day : read = subscription /\ day = clock
    OBVIOUS
<1>. PICK todo : todo = {o \in Orders : Billed(o) /\ Due(o, subscription[o], clock) # {}}
    OBVIOUS
<1>. DEFINE docs == [s \in todo |-> read[s]]
<1>1. PICK o \in todo : Begin(r, RunState(todo, o, docs, day))
    BY DEF RunRead
<1>2. UNCHANGED store /\ order' = order /\ subscription' = subscription
    BY DEF RunRead, store
<1>3. \A s \in todo : /\ s \in Subs /\ order[s] \in OrderRecord
                      /\ subscription[s] \in Subscription /\ docs[s] \in Subscription
    BY DEF Billed, BillingInv, StoreInv, TypeOK
<1>. HIDE DEF docs
<1>. PICK state : state = RunState(todo, o, docs, day)
    OBVIOUS
<1>4. Reads(state)'
    BY <1>2, <1>3, RunReads
<1>. QED
    BY <1>1, <1>2, <1>4, OnlyReads

LEMMA RunInsertKeeps ==
    ASSUME BillingInv, NEW r \in Requests, RunInsert(r)
    PROVE  BillingInv'
<1>. PICK h, n : h = request[r] /\ n = Len(invoice) + 1
    OBVIOUS
<1>. DEFINE due == Due(h.o, h.new, h.day)
            k == Min(due)
            state == [h EXCEPT !.inserts = @ - 1, !.new.schedule[k].invoice = n]
<1>1. /\ h.at = "run" /\ h.todo \subseteq Subs /\ h.o \in h.todo
      /\ \A s \in h.todo : /\ order[s] \in OrderRecord
                            /\ subscription[s] \in Subscription /\ h.docs[s] \in Subscription
      /\ h.snap \in Subscription /\ h.new \in Subscription
    BY DEF RunInsert, At, BillingInv, Reads
<1>2. k \in 1..Horizon
  <2>1. due \in SUBSET (1..Horizon) /\ due # {}
      BY DueArePeriods DEF RunInsert
  <2>2. due \in SUBSET Nat
      BY <2>1
  <2>. QED
      BY <2>1, <2>2, MinIsIn
<1>3. h.new.schedule[k] \in Entry /\ h.new.schedule[k].amount \in Nat
    BY <1>1, <1>2 DEF Subscription, Entry
<1>4. /\ invoice' = Append(invoice, NewInvoice(h.o, k, NoUnits, h.new.schedule[k].amount))
      /\ UNCHANGED <<order, subscription, credits>> /\ Continue(r, state)
    BY DEF RunInsert
<1>. HIDE DEF k
<1>5. StoreInv' /\ Grows /\ n \in Nat
  <2>1. NoUnits \in Units
      BY OrderedType DEF NoUnits, Units
  <2>2. h.o \in Orders /\ order[h.o] \in OrderRecord /\ k \in 0..Horizon
      BY <1>1, <1>2, RecurringType DEF Subs
  <2>. QED
      BY <1>3, <1>4, <2>1, <2>2, ContinueTypes, InvoiceAdded DEF BillingInv, StoreInv
<1>6. /\ state.at = h.at /\ state.todo = h.todo /\ state.o = h.o /\ state.docs = h.docs
      /\ state.snap = h.snap /\ state.new = [h.new EXCEPT !.schedule[k].invoice = n]
    BY DEF BillingInv
<1>. HIDE DEF state
<1>7. state.new \in Subscription
  <2>1. [h.new.schedule[k] EXCEPT !.invoice = n] \in Entry
      BY <1>3, <1>5 DEF Entry
  <2>2. [h.new EXCEPT !.schedule[k].invoice = n] \in Subscription
      BY <1>1, <1>2, <2>1 DEF Subscription
  <2>. QED
      BY <1>6, <2>2
<1>8. Reads(state)'
    BY <1>1, <1>4, <1>6, <1>7 DEF Reads
<1>. QED
    BY <1>4, <1>5, <1>8, ContinueTypes, SlotChanged DEF BillingInv, StoreInv

LEMMA RunSaveKeeps ==
    ASSUME BillingInv, NEW r \in Requests, RunSave(r)
    PROVE  BillingInv'
<1>. PICK h : h = request[r]
    OBVIOUS
<1>. PICK todo : todo = h.todo \ {h.o}
    OBVIOUS
<1>. DEFINE marked == [h.new EXCEPT !.next = DateOf(h.o, h.new, Unbilled(h.new))]
            doc == RunWritten(h.o, subscription[h.o], h.snap, h.new)
<1>1. /\ h.todo \subseteq Subs /\ h.o \in Subs /\ h.o \in h.todo
      /\ \A s \in h.todo : /\ order[s] \in OrderRecord
                            /\ subscription[s] \in Subscription /\ h.docs[s] \in Subscription
      /\ h.snap \in Subscription /\ h.new \in Subscription
    BY DEF RunSave, At, BillingInv, Reads
<1>2. marked \in Subscription
  <2>1. Unbilled(h.new) \in SUBSET (1..Horizon)
      BY DEF Unbilled
  <2>2. DateOf(h.o, h.new, Unbilled(h.new)) \in Int \cup {None}
      BY <1>1, <2>1, DateIsTyped
  <2>. QED
      BY <1>1, <2>2 DEF Subscription
<1>3. doc \in Subscription
    BY <1>1, <1>2, WrittenIsSubscription DEF RunWritten
<1>4. /\ subscription' = [subscription EXCEPT ![h.o] = doc]
      /\ UNCHANGED <<order, invoice, credits>>
      /\ \/ Continue(r, Idle)
         \/ \E o \in todo : Continue(r, RunState(todo, o, h.docs, h.day))
    BY DEF RunSave, Finish
<1>. HIDE DEF doc
<1>5. StoreInv' /\ Grows
    BY <1>1, <1>3, <1>4, ContinueTypes, SubscriptionChanged DEF BillingInv, StoreInv
<1>6. CASE Continue(r, Idle)
    BY <1>5, <1>6, IdleReads, ContinueTypes, SlotChanged DEF BillingInv, StoreInv
<1>7. CASE \E o \in todo : Continue(r, RunState(todo, o, h.docs, h.day))
  <2>1. PICK o \in todo : Continue(r, RunState(todo, o, h.docs, h.day))
      BY <1>7
  <2>2. ASSUME NEW s \in todo
        PROVE  order'[s] \in OrderRecord /\ subscription'[s] \in Subscription
      BY <1>1, <1>4, <1>5, RecurringType DEF Grows, Subs
  <2>. PICK state : state = RunState(todo, o, h.docs, h.day)
      OBVIOUS
  <2>3. Reads(state)'
    <3>1. todo \in SUBSET Subs /\ \A s \in todo : h.docs[s] \in Subscription
        BY <1>1
    <3>. QED
        BY <2>2, <3>1, RunReads
  <2>. QED
      BY <1>5, <2>1, <2>3, ContinueTypes, SlotChanged DEF BillingInv, StoreInv
<1>. QED
    BY <1>4, <1>6, <1>7
---------------------------------------------------------------------------
(* Changes of a subscription.                                              *)

LEMMA ChangeKeeps ==
    ASSUME BillingInv, NEW r \in Requests, NEW o \in Subs, subscription[o] # None,
           NEW credit \in Int, NEW new \in Subscription, ChangeThenSave(r, o, credit, new)
    PROVE  BillingInv'
<1>. PICK snap : snap = subscription[o]
    OBVIOUS
<1>. DEFINE state == [at |-> IF credit > 0 THEN "credit" ELSE "subscription.save", inserts |-> 0,
                      o |-> o, snap |-> snap, new |-> new, credit |-> credit]
<1>1. snap \in Subscription /\ order[o] \in OrderRecord
    BY RecurringType DEF BillingInv, StoreInv, TypeOK, Subs
<1>2. Begin(r, state) /\ UNCHANGED store /\ order' = order /\ subscription' = subscription
    BY DEF ChangeThenSave, store
<1>3. Reads(state)'
    BY <1>1, <1>2 DEF Reads
<1>. QED
    BY <1>2, <1>3, OnlyReads

LEMMA ModifiedTypes ==
    ASSUME NEW o \in Subs, NEW sub \in Subscription, NEW qty \in Nat, NEW unit \in Nat,
           NEW day \in Instants
    PROVE  LET change == Modified(o, sub, qty, unit, day)
           IN  change.credit \in Int /\ change.doc \in Subscription
<1>. DEFINE amount == unit * qty
            k == CurrentPeriod(o, sub, day)
            left == DaysLeft(o, sub, k, day)
            net == Prorate(sub.amount, amount, left, Recurring[o].cycle, Recurring[o].proration).net
            charged == IF net > 0 THEN NextUnbilled(o, sub, day) ELSE {}
            schedule == [e \in 1..Horizon |->
                            IF sub.schedule[e].invoice # 0 THEN sub.schedule[e]
                            ELSE [sub.schedule[e] EXCEPT !.amount = IF e \in charged THEN amount + net
                                                                          ELSE amount]]
            doc == [sub EXCEPT !.unit = unit, !.qty = qty, !.amount = amount, !.schedule = schedule]
<1>1. Modified(o, sub, qty, unit, day) = [credit |-> -net, doc |-> doc]
    BY Zenon DEF Modified
<1>2. amount \in Nat
    OBVIOUS
<1>3. net \in Int
  <2>1. left \in Int
      BY CurrentPeriodIsPeriod, PeriodsAreDays
  <2>2. /\ sub.amount \in Nat /\ Recurring[o].cycle \in Cycles
        /\ Recurring[o].proration \in ProrationRules
      BY RecurringType DEF Subscription, Subs
  <2>. HIDE DEF amount, left
  <2>. QED
      BY <1>2, <2>1, <2>2, NetIsInt
<1>. HIDE DEF amount, net
<1>4. ASSUME NEW e \in 1..Horizon PROVE schedule[e] \in Entry
  <2>1. sub.schedule[e] \in Entry
      BY DEF Subscription
  <2>2. e \in charged => amount + net \in Nat
      BY <1>2, <1>3
  <2>. QED
      BY <1>2, <2>1, <2>2 DEF Entry
<1>. HIDE DEF schedule
<1>5. schedule \in [1..Horizon -> Entry]
    BY <1>4 DEF schedule
<1>6. doc \in Subscription
    BY <1>2, <1>5 DEF Subscription
<1>. HIDE DEF doc
<1>7. Modified(o, sub, qty, unit, day).credit = -net /\ Modified(o, sub, qty, unit, day).doc = doc
    BY <1>1
<1>. QED
    BY <1>3, <1>6, <1>7

LEMMA ModifyKeeps ==
    ASSUME BillingInv, NEW r \in Requests, NEW o \in Subs, Modify(r, o)
    PROVE  BillingInv'
<1>1. PICK qty \in Quantities \cup {subscription[o].qty}, unit \in PlanAmounts \cup {subscription[o].unit} :
          LET change == Modified(o, subscription[o], qty, unit, clock)
          IN  ChangeThenSave(r, o, change.credit, change.doc)
    BY DEF Modify
<1>2. subscription[o] # None /\ subscription[o] \in Subscription /\ clock \in Instants
    BY RecurringType DEF Modify, BillingInv, StoreInv, TypeOK, Subs
<1>3. qty \in Nat /\ unit \in Nat
    BY <1>2, AmountsType DEF Subscription
<1>. PICK change : change = Modified(o, subscription[o], qty, unit, clock)
    OBVIOUS
<1>4. change.credit \in Int /\ change.doc \in Subscription
    BY <1>2, <1>3, ModifiedTypes
<1>. QED
    BY <1>1, <1>2, <1>4, ChangeKeeps

LEMMA CancelKeeps ==
    ASSUME BillingInv, NEW r \in Requests, NEW o \in Subs, Cancel(r, o)
    PROVE  BillingInv'
<1>. PICK sub : sub = subscription[o]
    OBVIOUS
<1>. PICK credit : credit = CancellationCredit(sub.amount,
                       DaysLeft(o, sub, CurrentPeriod(o, sub, clock), clock),
                       Recurring[o].cycle, Recurring[o].cancellation)
    OBVIOUS
<1>. DEFINE doc == [sub EXCEPT !.status = "CANCELLED", !.next = None]
<1>1. subscription[o] # None /\ sub \in Subscription /\ clock \in Instants
    BY RecurringType DEF Cancel, BillingInv, StoreInv, TypeOK, Subs
<1>2. doc \in Subscription
    BY <1>1 DEF Subscription, SubscriptionStatus
<1>3. credit \in Int
  <2>1. DaysLeft(o, sub, CurrentPeriod(o, sub, clock), clock) \in Int
      BY <1>1, CurrentPeriodIsPeriod, PeriodsAreDays
  <2>2. /\ sub.amount \in Nat /\ Recurring[o].cycle \in Cycles
        /\ Recurring[o].cancellation \in ProrationRules
      BY <1>1, RecurringType DEF Subscription, Subs
  <2>. QED
      BY <2>1, <2>2, CreditIsInt
<1>4. ChangeThenSave(r, o, credit, doc)
    BY DEF Cancel
<1>. QED
    BY <1>1, <1>2, <1>3, <1>4, ChangeKeeps

LEMMA PauseKeeps ==
    ASSUME BillingInv, NEW r \in Requests, NEW o \in Subs, Pause(r, o)
    PROVE  BillingInv'
<1>. PICK doc : doc = [subscription[o] EXCEPT !.status = "PAUSED", !.next = None]
    OBVIOUS
<1>1. subscription[o] # None /\ subscription[o] \in Subscription
    BY RecurringType DEF Pause, BillingInv, StoreInv, TypeOK, Subs
<1>2. doc \in Subscription
    BY <1>1 DEF Subscription, SubscriptionStatus
<1>. QED
    BY <1>1, <1>2, ChangeKeeps DEF Pause

LEMMA ResumeKeeps ==
    ASSUME BillingInv, NEW r \in Requests, NEW o \in Subs, Resume(r, o)
    PROVE  BillingInv'
<1>. PICK sub, date : sub = subscription[o] /\ date = DateOf(o, sub, NextUnbilled(o, sub, clock))
    OBVIOUS
<1>. PICK doc : doc = [sub EXCEPT !.status = "ACTIVE", !.next = date]
    OBVIOUS
<1>1. subscription[o] # None /\ sub \in Subscription
    BY RecurringType DEF Resume, BillingInv, StoreInv, TypeOK, Subs
<1>2. date \in Int \cup {None}
    BY <1>1, NextUnbilledArePeriods, DateIsTyped
<1>3. doc \in Subscription
    BY <1>1, <1>2 DEF Subscription, SubscriptionStatus
<1>4. ChangeThenSave(r, o, 0, doc)
    BY DEF Resume
<1>. QED
    BY <1>1, <1>3, <1>4, ChangeKeeps, SMTT(30)

LEMMA IssueCreditKeeps ==
    ASSUME BillingInv, NEW r \in Requests, IssueCredit(r)
    PROVE  BillingInv'
<1>. PICK h : h = request[r]
    OBVIOUS
<1>. DEFINE state == [at |-> "subscription.save", inserts |-> 0, o |-> h.o, snap |-> h.snap,
                      new |-> h.new]
<1>1. /\ h.o \in Subs /\ h.o \in Orders /\ order[h.o] \in OrderRecord /\ h.credit \in Int
      /\ subscription[h.o] \in Subscription /\ h.snap \in Subscription /\ h.new \in Subscription
    BY RecurringType DEF IssueCredit, At, BillingInv, Reads, Subs
<1>2. /\ credits' = [credits EXCEPT ![h.o] = Append(@, h.credit)]
      /\ UNCHANGED <<order, invoice, subscription>> /\ Continue(r, state)
    BY DEF IssueCredit
<1>3. credits' \in [Orders -> Seq(Int)]
  <2>1. credits \in [Orders -> Seq(Int)] /\ Append(credits[h.o], h.credit) \in Seq(Int)
      BY <1>1 DEF BillingInv, StoreInv, TypeOK
  <2>. QED
      BY <1>2, <2>1
<1>4. StoreInv'
    BY <1>2, <1>3, ContinueTypes DEF BillingInv, StoreInv, TypeOK, Bounded, Balanced
<1>5. Grows
    BY <1>2 DEF Grows, BillingInv, StoreInv, TypeOK, OrderRecord, Units
<1>6. Reads(state)'
    BY <1>1, <1>2 DEF Reads
<1>. QED
    BY <1>2, <1>4, <1>5, <1>6, ContinueTypes, SlotChanged DEF BillingInv, StoreInv

---------------------------------------------------------------------------
(* The theorem.                                                            *)

LEMMA StoreKept ==
    ASSUME BillingInv, UNCHANGED <<order, invoice, subscription, credits>>,
           clock' \in Instants, accidents' \in 0..MaxAccidents
    PROVE  StoreInv' /\ Grows
<1>1. StoreInv'
    BY DEF BillingInv, StoreInv, TypeOK, Bounded, Balanced
<1>2. Grows
    BY DEF Grows, BillingInv, StoreInv, TypeOK, OrderRecord, Units
<1>. QED
    BY <1>1, <1>2

LEMMA TickKeeps ==
    ASSUME BillingInv, Tick
    PROVE  BillingInv'
<1>1. clock' \in Instants /\ UNCHANGED <<order, invoice, subscription, credits, request, accidents>>
    BY DEF Tick
<1>2. accidents' \in 0..MaxAccidents
    BY <1>1 DEF BillingInv, StoreInv, TypeOK
<1>. QED
    BY <1>1, <1>2, StoreKept, SlotsKept

LEMMA FailKeeps ==
    ASSUME BillingInv, NEW r \in Requests, Fail(r)
    PROVE  BillingInv'
<1>1. /\ request' = [request EXCEPT ![r] = Idle] /\ accidents' \in 0..MaxAccidents
      /\ UNCHANGED <<clock, order, invoice, subscription, credits>>
    BY MaxAccidentsType DEF Fail, Accident, BillingInv, StoreInv, TypeOK
<1>2. clock' \in Instants
    BY <1>1 DEF BillingInv, StoreInv, TypeOK
<1>. QED
    BY <1>1, <1>2, StoreKept, IdleReads, SlotChanged

LEMMA StutterKeeps ==
    ASSUME BillingInv, UNCHANGED vars
    PROVE  BillingInv'
<1>1. /\ UNCHANGED <<order, invoice, subscription, credits>> /\ request' = request
      /\ clock' \in Instants /\ accidents' \in 0..MaxAccidents
    BY DEF vars, BillingInv, StoreInv, TypeOK
<1>. QED
    BY <1>1, StoreKept, SlotsKept

LEMMA StartKeeps ==
    ASSUME BillingInv, NEW r \in Requests, StartRequest(r)
    PROVE  BillingInv'
BY ConvertKeeps, GenerateReadKeeps, PayReadKeeps, RunReadKeeps, ModifyKeeps, CancelKeeps,
   PauseKeeps, ResumeKeeps
DEF StartRequest, Subs

LEMMA ContinueKeeps ==
    ASSUME BillingInv, NEW r \in Requests, ContinueRequest(r)
    PROVE  BillingInv'
BY GenerateInsertKeeps, GenerateSaveKeeps, PaySaveKeeps, PayOrderKeeps, ConvertSubscribeKeeps,
   ConvertInvoiceKeeps, SubscriptionSaveKeeps, RunInsertKeeps, RunSaveKeeps, IssueCreditKeeps
DEF ContinueRequest

LEMMA InitHolds == Init => BillingInv
<1>. SUFFICES ASSUME Init PROVE BillingInv
    OBVIOUS
<1>1. clock \in Instants
    BY DatesType, MinIsIn DEF Init
<1>2. /\ order \in [Orders -> OrderRecord \cup {None}] /\ invoice \in Seq(InvoiceRecord)
      /\ subscription \in [Orders -> Subscription \cup {None}] /\ credits \in [Orders -> Seq(Int)]
      /\ accidents \in 0..MaxAccidents
    BY MaxAccidentsType DEF Init
<1>3. DOMAIN invoice = {}
    BY DEF Init
<1>4. \A o \in Orders : order[o] \notin OrderRecord /\ subscription[o] \notin Subscription
    BY NoneIsNoRecord DEF Init
<1>5. StoreInv
    BY <1>1, <1>2, <1>3, <1>4 DEF StoreInv, TypeOK
<1>6. DOMAIN request = Requests /\ \A r \in Requests : Reads(request[r])
    BY DEF Init, Reads
<1>. QED
    BY <1>5, <1>6 DEF BillingInv

LEMMA StepKeeps == BillingInv /\ [Next]_vars => BillingInv'
<1>. SUFFICES ASSUME BillingInv, [Next]_vars PROVE BillingInv'
    OBVIOUS
<1>1. ASSUME NEW r \in Requests, StartRequest(r) \/ ContinueRequest(r) \/ Fail(r)
      PROVE  BillingInv'
    BY <1>1, StartKeeps, ContinueKeeps, FailKeeps
<1>2. ASSUME NEW o \in Orders, NEW units \in Units, Ship(o, units)
      PROVE  BillingInv'
    BY <1>2, ShipKeeps
<1>. QED
    BY <1>1, <1>2, TickKeeps, StutterKeeps DEF Next

LEMMA InvConsistent == BillingInv => Consistent
BY DEF BillingInv, StoreInv, Consistent, InvoicedHasShipped, BalanceAddsUp, Bounded, Balanced, TypeOK

(* Whatever handlers overlap and wherever they die, nothing is counted as  *)
(* invoiced that has not shipped and every balance adds up.                *)
THEOREM BillingStaysConsistent == Spec => []Consistent
<1>1. Spec => []BillingInv
    BY InitHolds, StepKeeps, PTL DEF Spec
<1>. QED
    BY <1>1, InvConsistent, PTL

---------------------------------------------------------------------------
(* Undisturbed: handlers neither overlap nor die.  Then a handler's copy   *)
(* is what is stored, and a schedule names the invoices of its periods -   *)
(* the stored one, or the one its handler is about to save.                *)

Booked(o, doc) ==
    \A i \in DOMAIN invoice :
        (invoice[i].order = o /\ invoice[i].period > 0) =>
            doc.schedule[invoice[i].period] = [amount |-> invoice[i].total, invoice |-> i]

(* What is invoiced keeps its amount and the subscription its start.       *)
Continues(new, snap) ==
    /\ new.start = snap.start
    /\ \A k \in 1..Horizon :
          new.schedule[k].invoice # 0 => new.schedule[k].amount = snap.schedule[k].amount

Saving == {"run", "subscription.save"}

Alone(h) ==
    /\ h.at = "pay.save" => h.snap = invoice[h.i]
    /\ h.at = "convert.subscribe" => subscription[h.o] = None
    /\ h.at = "convert.invoice" =>
          /\ h.snap = subscription[h.o] /\ h.snap.status = "ACTIVE"
          /\ \A k \in 1..Horizon : h.snap.schedule[k] = [amount |-> h.snap.amount, invoice |-> 0]
    /\ h.at \in {"credit", "subscription.save"} =>
          /\ h.snap = subscription[h.o] /\ h.snap.status # "CANCELLED"
          /\ Booked(h.o, h.new) /\ Continues(h.new, h.snap)
    /\ h.at = "run" =>
          /\ \A s \in h.todo : h.docs[s] = subscription[s] /\ h.docs[s].status = "ACTIVE"
          /\ h.snap = h.docs[h.o]
          /\ Booked(h.o, h.new) /\ Continues(h.new, h.snap)
          /\ \A k \in 1..Horizon : h.new.schedule[k].amount = h.snap.schedule[k].amount

Settles(doc) ==
    /\ doc.received = doc.paid
    /\ (doc.status = "PAID") = (doc.due = 0 /\ doc.paid > 0)

Accounts ==
    \A i \in DOMAIN invoice :
        /\ invoice[i].period > 0 => subscription[invoice[i].order] # None
        /\ Settles(invoice[i])

Orderly ==
    /\ \A r, p \in Busy : r = p
    /\ \A r \in Requests : Alone(request[r])
    /\ Accounts
    /\ \A o \in Orders :
          subscription[o] # None =>
              \/ Booked(o, subscription[o])
              \/ \E r \in Requests : request[r].at \in Saving /\ request[r].o = o

CalmInv == Calm => Orderly

(* What a handler relies on does not depend on the other handlers, and     *)
(* nothing is written before the last handler is done.                     *)
LEMMA IdleIsAlone == Alone(Idle)'
BY DEF Alone, Idle

LEMMA OnlyOneBusy ==
    ASSUME BillingInv, Orderly, NEW r \in Requests, request[r] # Idle, NEW q \in Requests, q # r
    PROVE  request[q] = Idle
BY DEF Orderly, Busy

LEMMA OthersBooked ==
    ASSUME BillingInv, Orderly, NEW r \in Requests, request[r] # Idle,
           NEW o \in Orders, subscription[o] # None,
           ~(request[r].at \in Saving /\ request[r].o = o)
    PROVE  Booked(o, subscription[o])
<1>. SUFFICES ASSUME NEW q \in Requests, request[q].at \in Saving, request[q].o = o
              PROVE  FALSE
    BY DEF Orderly
<1>1. q # r
    OBVIOUS
<1>2. request[q] = Idle
    BY <1>1, OnlyOneBusy
<1>. QED
    BY <1>2 DEF Idle, Saving

LEMMA CalmStarts ==
    ASSUME BillingInv, Orderly, NEW r \in Requests, NEW state, Begin(r, state), Calm',
           UNCHANGED <<invoice, subscription>>, Alone(state)'
    PROVE  Orderly'
<1>1. Busy = {}
    BY DEF Begin, Accident, Calm, BillingInv, StoreInv, TypeOK
<1>2. request' = [request EXCEPT ![r] = state] /\ DOMAIN request = Requests
    BY DEF Begin, BillingInv
<1>3. \A q \in Requests : request[q] = Idle
    BY <1>1 DEF Busy
<1>4. \A q, p \in Busy' : q = p
    BY <1>2, <1>3 DEF Busy
<1>5. ASSUME NEW q \in Requests PROVE Alone(request[q])'
  <2>. DEFINE h == request'[q]
  <2>1. h = state \/ h = Idle
      BY <1>2, <1>3
  <2>2. Alone(Idle)'
      BY IdleIsAlone
  <2>. QED
      BY <2>1, <2>2
<1>6. Accounts'
    BY DEF Orderly, Accounts, Settles
<1>7. ASSUME NEW o \in Orders, subscription'[o] # None PROVE Booked(o, subscription[o])'
  <2>1. \A q \in Requests : request[q].at \notin Saving
      BY <1>3 DEF Idle, Saving
  <2>2. Booked(o, subscription[o])
      BY <1>7, <2>1 DEF Orderly
  <2>. QED
      BY <2>2 DEF Booked
<1>. QED
    BY <1>4, <1>5, <1>6, <1>7 DEF Orderly

LEMMA CalmGoesOn ==
    ASSUME BillingInv, Orderly, NEW r \in Requests, request[r] # Idle,
           NEW state, request' = [request EXCEPT ![r] = state], Alone(state)', Accounts',
           \A o \in Orders : subscription'[o] # None =>
               Booked(o, subscription[o])' \/ (state.at \in Saving /\ state.o = o)
    PROVE  Orderly'
<1>1. DOMAIN request = Requests
    BY DEF BillingInv
<1>2. \A q \in Requests : q # r => request'[q] = Idle
    BY <1>1, OnlyOneBusy
<1>3. request'[r] = state
    BY <1>1
<1>4. \A q, p \in Busy' : q = p
    BY <1>2 DEF Busy
<1>5. ASSUME NEW q \in Requests PROVE Alone(request[q])'
  <2>1. request'[q] = state \/ request'[q] = Idle
      BY <1>2, <1>3
  <2>2. Alone(Idle)'
      BY IdleIsAlone
  <2>. QED
      BY <2>1, <2>2
<1>6. \A o \in Orders : subscription'[o] # None =>
          Booked(o, subscription[o])' \/ \E q \in Requests : request'[q].at \in Saving /\ request'[q].o = o
    BY <1>3
<1>. QED
    BY <1>4, <1>5, <1>6 DEF Orderly

(* An invoice that is no period of a subscription leaves it booked.        *)
LEMMA BookedKept ==
    ASSUME BillingInv, NEW p \in Orders, NEW period \in 0..Horizon, NEW units, NEW total,
           invoice' = Append(invoice, NewInvoice(p, period, units, total)),
           NEW o \in Orders, NEW doc, Booked(o, doc), o # p \/ period = 0
    PROVE  Booked(o, doc)'
<1>. DEFINE new == NewInvoice(p, period, units, total)
<1>1. new.order = p /\ new.period = period
    BY DEF NewInvoice
<1>2. invoice \in Seq(InvoiceRecord)
    BY InvoicesTyped
<1>. HIDE DEF new
<1>3. /\ \A i \in DOMAIN invoice' : i \in DOMAIN invoice \/ i = Len(invoice) + 1
      /\ \A i \in DOMAIN invoice : invoice'[i] = invoice[i]
      /\ invoice'[Len(invoice) + 1] = new
    BY <1>2 DEF new
<1>. QED
    BY <1>1, <1>3 DEF Booked

(* An invoice of a period joins the schedule that names it.                *)
LEMMA BookedJoined ==
    ASSUME BillingInv, NEW o \in Orders, NEW k \in 1..Horizon, NEW units, NEW doc, NEW new,
           Booked(o, doc), doc \in Subscription, doc.schedule[k].invoice = 0,
           invoice' = Append(invoice, NewInvoice(o, k, units, doc.schedule[k].amount)),
           new = [doc EXCEPT !.schedule[k].invoice = Len(invoice) + 1]
    PROVE  Booked(o, new)'
<1>. DEFINE added == NewInvoice(o, k, units, doc.schedule[k].amount)
            n == Len(invoice) + 1
<1>1. added.order = o /\ added.period = k /\ added.total = doc.schedule[k].amount
    BY DEF NewInvoice
<1>2. invoice \in Seq(InvoiceRecord)
    BY InvoicesTyped
<1>. HIDE DEF added
<1>3. /\ \A i \in DOMAIN invoice' : i \in DOMAIN invoice \/ i = n
      /\ \A i \in DOMAIN invoice : invoice'[i] = invoice[i] /\ i # 0
      /\ invoice'[n] = added
    BY <1>2 DEF added
<1>4. /\ doc.schedule \in [1..Horizon -> Entry] /\ new.schedule = [doc.schedule EXCEPT ![k].invoice = n]
    BY DEF Subscription
<1>. HIDE DEF n
<1>5. new.schedule[k] = [amount |-> doc.schedule[k].amount, invoice |-> n]
    BY <1>4 DEF Entry
<1>6. \A e \in 1..Horizon : e # k => new.schedule[e] = doc.schedule[e]
    BY <1>4
<1>. SUFFICES ASSUME NEW i \in DOMAIN invoice', invoice'[i].order = o, invoice'[i].period > 0
              PROVE  new.schedule[invoice'[i].period] = [amount |-> invoice'[i].total, invoice |-> i]
    BY DEF Booked
<1>7. CASE i = n
    BY <1>1, <1>3, <1>5, <1>7
<1>8. CASE i \in DOMAIN invoice
  <2>1. /\ invoice'[i] = invoice[i] /\ invoice[i].period \in 1..Horizon
      BY <1>3, <1>8, InvoicesTyped, HorizonType, SMTT(30) DEF InvoiceRecord
  <2>2. doc.schedule[invoice[i].period] = [amount |-> invoice[i].total, invoice |-> i]
      BY <1>8, <2>1 DEF Booked
  <2>3. invoice[i].period # k
      BY <1>3, <1>8, <2>2
  <2>. QED
      BY <1>6, <2>1, <2>2, <2>3
<1>. QED
    BY <1>3, <1>7, <1>8

(* A new invoice has had no payment.                                       *)
LEMMA AccountsKept ==
    ASSUME BillingInv, Accounts, NEW o \in Orders, NEW period \in 0..Horizon, NEW units, NEW total,
           invoice' = Append(invoice, NewInvoice(o, period, units, total)),
           subscription' = subscription, period > 0 => subscription[o] # None
    PROVE  Accounts'
<1>. DEFINE new == NewInvoice(o, period, units, total)
<1>1. new.order = o /\ new.period = period /\ Settles(new)
    BY DEF NewInvoice, Settles
<1>2. invoice \in Seq(InvoiceRecord)
    BY InvoicesTyped
<1>. HIDE DEF new
<1>3. /\ \A i \in DOMAIN invoice' : i \in DOMAIN invoice \/ i = Len(invoice) + 1
      /\ \A i \in DOMAIN invoice : invoice'[i] = invoice[i]
      /\ invoice'[Len(invoice) + 1] = new
    BY <1>2 DEF new
<1>. QED
    BY <1>1, <1>3 DEF Accounts, Settles

---------------------------------------------------------------------------
(* Undisturbed handlers begin.                                             *)

LEMMA OrderlyKept ==
    ASSUME BillingInv, Orderly, UNCHANGED <<invoice, subscription, request>>
    PROVE  Orderly'
<1>1. ASSUME NEW q \in Requests PROVE Alone(request[q])'
    BY DEF Orderly, Alone, Booked, Continues
<1>2. Accounts'
    BY DEF Orderly, Accounts, Settles
<1>3. ASSUME NEW o \in Orders, subscription'[o] # None
      PROVE  \/ Booked(o, subscription[o])'
             \/ \E r \in Requests : request'[r].at \in Saving /\ request'[r].o = o
    BY <1>3 DEF Orderly, Booked
<1>4. \A q, p \in Busy' : q = p
    BY DEF Orderly, Busy
<1>. QED
    BY <1>1, <1>2, <1>3, <1>4 DEF Orderly

LEMMA FreeWhenBegun ==
    ASSUME BillingInv, NEW r, NEW state, Begin(r, state), Calm'
    PROVE  Busy = {}
BY DEF Begin, Accident, Calm, BillingInv, StoreInv, TypeOK

LEMMA AllBooked ==
    ASSUME BillingInv, Orderly, Busy = {}, NEW o \in Orders, subscription[o] # None
    PROVE  Booked(o, subscription[o])
<1>1. \A q \in Requests : request[q].at \notin Saving
    BY DEF Busy, Idle, Saving
<1>. QED
    BY <1>1 DEF Orderly

LEMMA ConvertCalm ==
    ASSUME BillingInv, Orderly, Calm', NEW r \in Requests, NEW o \in Orders, Convert(r, o)
    PROVE  Orderly'
<1>. PICK day : day = clock
    OBVIOUS
<1>. DEFINE state == [at |-> "convert.subscribe", inserts |-> 1, o |-> o, day |-> day]
<1>1. /\ UNCHANGED <<invoice, subscription>>
      /\ Begin(r, state) \/ UNCHANGED request
    BY DEF Convert
<1>2. subscription[o] = None
    BY NoneIsNoRecord DEF Convert, BillingInv, StoreInv, TypeOK
<1>3. Alone(state)'
    BY <1>1, <1>2 DEF Alone, Saving
<1>. QED
    BY <1>1, <1>3, CalmStarts, OrderlyKept

LEMMA GenerateReadCalm ==
    ASSUME BillingInv, Orderly, Calm', NEW r \in Requests, NEW o \in Orders, GenerateRead(r, o)
    PROVE  Orderly'
<1>. PICK snap : snap = order[o]
    OBVIOUS
<1>. DEFINE state == [at |-> "generate.insert", inserts |-> 1, o |-> o, snap |-> snap]
<1>1. UNCHANGED <<invoice, subscription>> /\ Begin(r, state)
    BY DEF GenerateRead, store
<1>2. Alone(state)'
    BY DEF Alone
<1>. QED
    BY <1>1, <1>2, CalmStarts

LEMMA PayReadCalm ==
    ASSUME BillingInv, Orderly, Calm', NEW r \in Requests, NEW i \in DOMAIN invoice,
           NEW amount \in Amounts, PayRead(r, i, amount)
    PROVE  Orderly'
<1>. PICK snap : snap = invoice[i]
    OBVIOUS
<1>. DEFINE state == [at |-> "pay.save", inserts |-> 0, i |-> i, snap |-> snap, amount |-> amount]
<1>1. UNCHANGED <<invoice, subscription>> /\ Begin(r, state)
    BY DEF PayRead, store
<1>2. Alone(state)'
    BY <1>1 DEF Alone
<1>. QED
    BY <1>1, <1>2, CalmStarts

(* What the run holds when it turns to a subscription it has read.         *)
LEMMA RunAlone ==
    ASSUME NEW todo \in SUBSET Orders, NEW o \in todo, NEW docs, NEW day,
           NEW state, state = RunState(todo, o, docs, day),
           \A s \in todo : docs[s] = subscription'[s] /\ docs[s].status = "ACTIVE",
           Booked(o, subscription[o])'
    PROVE  Alone(state)'
<1>1. /\ state.at = "run" /\ state.todo = todo /\ state.o = o /\ state.docs = docs
      /\ state.snap = docs[o] /\ state.new = docs[o]
    BY DEF RunState
<1>2. Booked(o, docs[o])'
    BY DEF Booked
<1>3. Booked(state.o, state.new)'
    BY <1>1, <1>2 DEF Booked
<1>4. Continues(state.new, state.snap)
    BY <1>1 DEF Continues
<1>. QED
    BY <1>1, <1>3, <1>4 DEF Alone, Continues

LEMMA RunReadCalm ==
    ASSUME BillingInv, Orderly, Calm', NEW r \in Requests, RunRead(r)
    PROVE  Orderly'
<1>. PICK read, day : read = subscription /\ day = clock
    OBVIOUS
<1>. PICK todo : todo = {o \in Orders : Billed(o) /\ Due(o, subscription[o], clock) # {}}
    OBVIOUS
<1>. DEFINE docs == [s \in todo |-> read[s]]
<1>1. PICK o \in todo : Begin(r, RunState(todo, o, docs, day))
    BY DEF RunRead
<1>2. UNCHANGED <<invoice, subscription>>
    BY DEF RunRead, store
<1>3. \A s \in todo : /\ docs[s] = subscription'[s] /\ docs[s].status = "ACTIVE"
                      /\ subscription[s] # None /\ s \in Orders
    BY <1>2 DEF Billed
<1>4. Booked(o, subscription[o])'
  <2>1. Booked(o, subscription[o])
      BY <1>1, <1>3, FreeWhenBegun, AllBooked
  <2>. QED
      BY <1>2, <2>1 DEF Booked
<1>. HIDE DEF docs
<1>. PICK state : state = RunState(todo, o, docs, day)
    OBVIOUS
<1>5. Alone(state)'
  <2>1. todo \in SUBSET Orders
      BY <1>3
  <2>. QED
      BY <1>3, <1>4, <2>1, RunAlone
<1>. QED
    BY <1>1, <1>2, <1>5, CalmStarts

LEMMA ChangeCalm ==
    ASSUME BillingInv, Orderly, Calm', NEW r \in Requests, NEW o \in Subs, subscription[o] # None,
           subscription[o].status # "CANCELLED",
           NEW credit, NEW new, ChangeThenSave(r, o, credit, new),
           new.start = subscription[o].start,
           \A k \in 1..Horizon :
               (subscription[o].schedule[k].invoice # 0 \/ new.schedule[k].invoice # 0)
                   => new.schedule[k] = subscription[o].schedule[k]
    PROVE  Orderly'
<1>. PICK snap : snap = subscription[o]
    OBVIOUS
<1>. DEFINE state == [at |-> IF credit > 0 THEN "credit" ELSE "subscription.save", inserts |-> 0,
                      o |-> o, snap |-> snap, new |-> new, credit |-> credit]
<1>1. Begin(r, state) /\ UNCHANGED <<invoice, subscription>>
    BY DEF ChangeThenSave, store
<1>2. Booked(o, snap)
    BY <1>1, RecurringType, FreeWhenBegun, AllBooked DEF Subs
<1>3. Booked(o, new)'
  <2>. SUFFICES ASSUME NEW i \in DOMAIN invoice, invoice[i].order = o, invoice[i].period > 0
                PROVE  new.schedule[invoice[i].period] = [amount |-> invoice[i].total, invoice |-> i]
      BY <1>1 DEF Booked
  <2>1. snap.schedule[invoice[i].period] = [amount |-> invoice[i].total, invoice |-> i]
      BY <1>2 DEF Booked
  <2>2. i # 0 /\ invoice[i].period \in 1..Horizon
      BY InvoicesTyped, HorizonType, SMTT(30) DEF InvoiceRecord
  <2>. QED
      BY <2>1, <2>2
<1>4. Continues(new, snap)
    BY DEF Continues
<1>5. state.at \in {"credit", "subscription.save"} /\ state.o = o /\ state.snap = snap /\ state.new = new
    BY DEF Subs
<1>. HIDE DEF state
<1>6. Alone(state)'
    BY <1>1, <1>3, <1>4, <1>5 DEF Alone, Continues
<1>. QED
    BY <1>1, <1>6, CalmStarts

LEMMA ModifyCalm ==
    ASSUME BillingInv, Orderly, Calm', NEW r \in Requests, NEW o \in Subs, Modify(r, o)
    PROVE  Orderly'
<1>1. PICK qty \in Quantities \cup {subscription[o].qty}, unit \in PlanAmounts \cup {subscription[o].unit} :
          LET change == Modified(o, subscription[o], qty, unit, clock)
          IN  ChangeThenSave(r, o, change.credit, change.doc)
    BY DEF Modify
<1>. PICK sub : sub = subscription[o]
    OBVIOUS
<1>2. /\ subscription[o] # None /\ subscription[o].status # "CANCELLED" /\ sub \in Subscription
    BY RecurringType DEF Modify, BillingInv, StoreInv, TypeOK, Subs
<1>. DEFINE amount == unit * qty
            k == CurrentPeriod(o, sub, clock)
            net == Prorate(sub.amount, amount, DaysLeft(o, sub, k, clock),
                           Recurring[o].cycle, Recurring[o].proration).net
            charged == IF net > 0 THEN NextUnbilled(o, sub, clock) ELSE {}
            schedule == [e \in 1..Horizon |->
                            IF sub.schedule[e].invoice # 0 THEN sub.schedule[e]
                            ELSE [sub.schedule[e] EXCEPT !.amount = IF e \in charged THEN amount + net
                                                                          ELSE amount]]
            doc == [sub EXCEPT !.unit = unit, !.qty = qty, !.amount = amount, !.schedule = schedule]
<1>3. Modified(o, sub, qty, unit, clock) = [credit |-> -net, doc |-> doc]
    BY Zenon DEF Modified
<1>4. ASSUME NEW e \in 1..Horizon, sub.schedule[e].invoice # 0 \/ schedule[e].invoice # 0
      PROVE  schedule[e] = sub.schedule[e]
  <2>1. sub.schedule[e] \in Entry
      BY <1>2 DEF Subscription
  <2>2. sub.schedule[e].invoice = 0 => schedule[e].invoice = 0
    <3>. HIDE DEF amount, net, charged
    <3>. QED
        BY <2>1 DEF Entry
  <2>. HIDE DEF amount, net, charged
  <2>. QED
      BY <1>4, <2>2
<1>. HIDE DEF amount, net, charged, schedule
<1>5. doc.start = sub.start /\ doc.schedule = schedule
    BY <1>2 DEF Subscription
<1>. HIDE DEF doc
<1>6. Modified(o, sub, qty, unit, clock).doc = doc
    BY <1>3
<1>. PICK credit, new : credit = Modified(o, sub, qty, unit, clock).credit /\ new = doc
    OBVIOUS
<1>7. ChangeThenSave(r, o, credit, new)
    BY <1>1, <1>6
<1>. QED
    BY <1>2, <1>4, <1>5, <1>7, ChangeCalm

LEMMA CancelCalm ==
    ASSUME BillingInv, Orderly, Calm', NEW r \in Requests, NEW o \in Subs, Cancel(r, o)
    PROVE  Orderly'
<1>. PICK sub : sub = subscription[o]
    OBVIOUS
<1>. PICK credit : credit = CancellationCredit(sub.amount,
                       DaysLeft(o, sub, CurrentPeriod(o, sub, clock), clock),
                       Recurring[o].cycle, Recurring[o].cancellation)
    OBVIOUS
<1>. DEFINE doc == [sub EXCEPT !.status = "CANCELLED", !.next = None]
<1>1. subscription[o] # None /\ sub.status # "CANCELLED" /\ sub \in Subscription
    BY RecurringType DEF Cancel, BillingInv, StoreInv, TypeOK, Subs
<1>2. doc.start = sub.start /\ doc.schedule = sub.schedule
    BY <1>1 DEF Subscription
<1>3. ChangeThenSave(r, o, credit, doc)
    BY DEF Cancel
<1>. HIDE DEF doc
<1>. QED
    BY <1>1, <1>2, <1>3, ChangeCalm

LEMMA PauseCalm ==
    ASSUME BillingInv, Orderly, Calm', NEW r \in Requests, NEW o \in Subs, Pause(r, o)
    PROVE  Orderly'
<1>. PICK doc : doc = [subscription[o] EXCEPT !.status = "PAUSED", !.next = None]
    OBVIOUS
<1>1. subscription[o] # None /\ subscription[o].status = "ACTIVE" /\ subscription[o] \in Subscription
    BY RecurringType DEF Pause, BillingInv, StoreInv, TypeOK, Subs
<1>2. doc.start = subscription[o].start /\ doc.schedule = subscription[o].schedule
    BY <1>1 DEF Subscription
<1>. QED
    BY <1>1, <1>2, ChangeCalm DEF Pause

LEMMA ResumeCalm ==
    ASSUME BillingInv, Orderly, Calm', NEW r \in Requests, NEW o \in Subs, Resume(r, o)
    PROVE  Orderly'
<1>. PICK sub, date : sub = subscription[o] /\ date = DateOf(o, sub, NextUnbilled(o, sub, clock))
    OBVIOUS
<1>. PICK doc : doc = [sub EXCEPT !.status = "ACTIVE", !.next = date]
    OBVIOUS
<1>1. sub # None /\ sub.status = "PAUSED" /\ sub \in Subscription
    BY RecurringType DEF Resume, BillingInv, StoreInv, TypeOK, Subs
<1>2. doc.start = sub.start /\ doc.schedule = sub.schedule
    BY <1>1 DEF Subscription
<1>3. ChangeThenSave(r, o, 0, doc)
    BY DEF Resume
<1>. QED
    BY <1>1, <1>2, <1>3, ChangeCalm

---------------------------------------------------------------------------
(* Undisturbed handlers go on.                                             *)

LEMMA SameBooks ==
    ASSUME BillingInv, Orderly, NEW r \in Requests, request[r] # Idle, request[r].at \notin Saving,
           NEW state, Continue(r, state), UNCHANGED <<invoice, subscription>>, Alone(state)'
    PROVE  Orderly'
<1>1. request' = [request EXCEPT ![r] = state]
    BY DEF Continue
<1>2. Accounts'
    BY DEF Orderly, Accounts, Settles
<1>3. ASSUME NEW o \in Orders, subscription'[o] # None PROVE Booked(o, subscription[o])'
  <2>1. Booked(o, subscription[o])
      BY <1>3, OthersBooked
  <2>. QED
      BY <2>1 DEF Booked
<1>. QED
    BY <1>1, <1>2, <1>3, CalmGoesOn

LEMMA GenerateInsertCalm ==
    ASSUME BillingInv, Orderly, NEW r \in Requests, GenerateInsert(r)
    PROVE  Orderly'
<1>. PICK h : h = request[r]
    OBVIOUS
<1>. DEFINE units == Billable(h.o, h.snap)
            state == [at |-> "generate.save", inserts |-> 0, o |-> h.o, snap |-> h.snap]
<1>1. h.o \in Orders /\ h.at = "generate.insert" /\ request[r] # Idle
    BY DEF BillingInv, Reads, GenerateInsert, At, Idle
<1>2. /\ invoice' = Append(invoice, NewInvoice(h.o, 0, units, Total[units]))
      /\ subscription' = subscription /\ request' = [request EXCEPT ![r] = state]
    BY DEF GenerateInsert, Continue
<1>3. Alone(state)'
    BY DEF Alone
<1>4. 0 \in 0..Horizon
    BY HorizonType
<1>5. Accounts'
    BY <1>1, <1>2, <1>4, AccountsKept DEF Orderly
<1>6. ASSUME NEW o \in Orders, subscription'[o] # None PROVE Booked(o, subscription[o])'
  <2>. PICK doc : doc = subscription[o]
      OBVIOUS
  <2>1. Booked(o, doc)
      BY <1>1, <1>2, <1>6, OthersBooked DEF Saving
  <2>2. Booked(o, doc)'
      BY <1>1, <1>2, <1>4, <2>1, BookedKept
  <2>. QED
      BY <1>2, <2>2
<1>. QED
    BY <1>1, <1>2, <1>3, <1>5, <1>6, CalmGoesOn

LEMMA GenerateSaveCalm ==
    ASSUME BillingInv, Orderly, NEW r \in Requests, GenerateSave(r)
    PROVE  Orderly'
<1>1. request[r] # Idle /\ request[r].at \notin Saving
    BY DEF GenerateSave, At, Idle, Saving
<1>2. Continue(r, Idle) /\ UNCHANGED <<invoice, subscription>>
    BY DEF GenerateSave, Finish
<1>. QED
    BY <1>1, <1>2, IdleIsAlone, SameBooks

LEMMA PayOrderCalm ==
    ASSUME BillingInv, Orderly, NEW r \in Requests, PayOrder(r)
    PROVE  Orderly'
<1>1. request[r] # Idle /\ request[r].at \notin Saving
    BY DEF PayOrder, At, Idle, Saving
<1>2. Continue(r, Idle) /\ UNCHANGED <<invoice, subscription>>
    BY DEF PayOrder, Finish
<1>. QED
    BY <1>1, <1>2, IdleIsAlone, SameBooks

(* The payment of the only handler finds the invoice as it was read.       *)
LEMMA PaymentSettles ==
    ASSUME NEW cur \in InvoiceRecord, Balanced(cur), Settles(cur),
           NEW amount \in Nat, amount > 0, amount <= cur.due
    PROVE  Settles(InvoiceWritten(cur, cur, Received(cur, amount), amount))
<1>. DEFINE due == cur.total - (cur.paid + amount)
            new == Received(cur, amount)
            doc == InvoiceWritten(cur, cur, new, amount)
<1>1. cur.paid \in Nat /\ cur.received = cur.paid /\ due \in Nat /\ cur.status \in InvoiceStatus
    BY DEF InvoiceRecord, Balanced, Settles
<1>2. /\ new.paid = cur.paid + amount /\ new.due = due
      /\ new.status = IF due <= 0 THEN "PAID" ELSE "PARTIALLY_PAID"
    BY <1>1 DEF Received, InvoiceRecord
<1>. HIDE DEF new, due
<1>3. doc = [cur EXCEPT !.paid = new.paid, !.due = new.due, !.received = cur.received + amount,
                        !.status = IF new.status # cur.status THEN new.status ELSE cur.status]
    BY DEF InvoiceWritten, InvoiceRecord
<1>4. doc.received = doc.paid /\ doc.due = due /\ doc.paid > 0 /\ doc.status = new.status
    BY <1>1, <1>2, <1>3 DEF InvoiceRecord
<1>. HIDE DEF doc
<1>5. (doc.status = "PAID") = (doc.due = 0)
    BY <1>1, <1>2, <1>4
<1>6. Settles(doc)
    BY <1>4, <1>5 DEF Settles
<1>. QED
    BY <1>6 DEF doc, new

LEMMA PaySaveCalm ==
    ASSUME BillingInv, Orderly, NEW r \in Requests, PaySave(r)
    PROVE  Orderly'
<1>. PICK h, cur : h = request[r] /\ cur = invoice[h.i]
    OBVIOUS
<1>. DEFINE doc == InvoiceWritten(cur, cur, Received(cur, h.amount), h.amount)
            next == [at |-> "pay.order", inserts |-> 0, o |-> h.snap.order]
<1>1. /\ h.i \in DOMAIN invoice /\ h.snap = cur /\ h.at = "pay.save" /\ request[r] # Idle
      /\ cur \in InvoiceRecord /\ Balanced(cur) /\ Settles(cur)
      /\ h.amount \in Nat /\ h.amount > 0 /\ h.amount <= cur.due
  <2>1. h.at = "pay.save" /\ request[r] # Idle
      BY DEF PaySave, At, Idle
  <2>2. Reads(h) /\ Alone(h) /\ Accounts
      BY DEF BillingInv, Orderly
  <2>3. /\ h.i \in DOMAIN invoice /\ h.snap = cur
        /\ h.amount \in Nat /\ h.amount > 0 /\ h.amount <= h.snap.due
      BY <2>1, <2>2 DEF Reads, Alone
  <2>. QED
      BY <2>1, <2>2, <2>3, InvoicesTyped DEF Accounts
<1>2. doc \in InvoiceRecord /\ doc.order = cur.order /\ doc.total = cur.total
    BY <1>1, PaymentWritten
<1>3. Settles(doc)
    BY <1>1, PaymentSettles
<1>4. doc.period = cur.period
    BY <1>1 DEF InvoiceWritten, InvoiceRecord
<1>5. /\ invoice' = [invoice EXCEPT ![h.i] = doc] /\ UNCHANGED subscription
      /\ \/ request' = [request EXCEPT ![r] = next]
         \/ request' = [request EXCEPT ![r] = Idle]
    BY <1>1 DEF PaySave, Finish, Continue
<1>. HIDE DEF doc
<1>6. /\ DOMAIN invoice' = DOMAIN invoice
      /\ \A i \in DOMAIN invoice : /\ invoice'[i].order = invoice[i].order
                                   /\ invoice'[i].period = invoice[i].period
                                   /\ invoice'[i].total = invoice[i].total
                                   /\ Settles(invoice'[i])
  <2>1. invoice \in Seq(InvoiceRecord)
      BY InvoicesTyped
  <2>2. /\ DOMAIN invoice' = DOMAIN invoice
        /\ \A i \in DOMAIN invoice : invoice'[i] = IF i = h.i THEN doc ELSE invoice[i]
      BY <1>1, <1>2, <1>5, <2>1
  <2>3. \A i \in DOMAIN invoice : Settles(invoice[i])
      BY DEF Orderly, Accounts
  <2>. QED
      BY <1>1, <1>2, <1>3, <1>4, <2>2, <2>3
<1>7. Accounts'
    BY <1>5, <1>6 DEF Orderly, Accounts, Settles
<1>8. ASSUME NEW o \in Orders, subscription'[o] # None PROVE Booked(o, subscription[o])'
  <2>1. Booked(o, subscription[o])
      BY <1>1, <1>5, <1>8, OthersBooked DEF Saving
  <2>. QED
      BY <1>5, <1>6, <2>1 DEF Booked
<1>9. Alone(next)'
    BY DEF Alone
<1>. QED
    BY <1>1, <1>5, <1>7, <1>8, <1>9, IdleIsAlone, CalmGoesOn

LEMMA ConvertSubscribeCalm ==
    ASSUME BillingInv, Orderly, NEW r \in Requests, ConvertSubscribe(r)
    PROVE  Orderly'
<1>. PICK h : h = request[r]
    OBVIOUS
<1>. DEFINE new == NewSubscription(h.o, h.day)
            state == [at |-> "convert.invoice", inserts |-> 1, o |-> h.o, snap |-> new]
<1>1. h.o \in Orders /\ subscription[h.o] = None /\ h.at = "convert.subscribe" /\ request[r] # Idle
  <2>1. h.at = "convert.subscribe" /\ request[r] # Idle
      BY DEF ConvertSubscribe, At, Idle
  <2>2. Reads(h) /\ Alone(h)
      BY DEF BillingInv, Orderly
  <2>. QED
      BY <2>1, <2>2, RecurringType DEF Reads, Alone, Subs
<1>2. /\ subscription' = [subscription EXCEPT ![h.o] = new] /\ UNCHANGED invoice
      /\ request' = [request EXCEPT ![r] = state]
    BY DEF ConvertSubscribe, Continue
<1>3. /\ new.status = "ACTIVE"
      /\ \A k \in 1..Horizon : new.schedule[k] = [amount |-> new.amount, invoice |-> 0]
    BY DEF NewSubscription
<1>. HIDE DEF new
<1>4. /\ subscription'[h.o] = new
      /\ \A o \in Orders : o # h.o => subscription'[o] = subscription[o]
    BY <1>1, <1>2 DEF BillingInv, StoreInv, TypeOK
<1>5. Alone(state)'
    BY <1>3, <1>4 DEF Alone, Saving
<1>6. \A i \in DOMAIN invoice : invoice[i].period > 0 => invoice[i].order # h.o
    BY <1>1 DEF Orderly, Accounts
<1>7. Accounts'
  <2>1. \A i \in DOMAIN invoice : invoice[i].order \in Orders
      BY InvoicesTyped DEF InvoiceRecord
  <2>. QED
      BY <1>2, <1>4, <1>6, <2>1 DEF Orderly, Accounts, Settles
<1>8. ASSUME NEW o \in Orders, subscription'[o] # None PROVE Booked(o, subscription[o])'
  <2>1. CASE o = h.o
      BY <1>2, <1>6, <2>1 DEF Booked
  <2>2. CASE o # h.o
    <3>1. subscription'[o] = subscription[o]
        BY <1>4, <2>2
    <3>2. Booked(o, subscription[o])
        BY <1>1, <1>8, <3>1, OthersBooked DEF Saving
    <3>. QED
        BY <1>2, <3>1, <3>2 DEF Booked
  <2>. QED
      BY <2>1, <2>2
<1>. QED
    BY <1>1, <1>2, <1>5, <1>7, <1>8, CalmGoesOn

LEMMA IssueCreditCalm ==
    ASSUME BillingInv, Orderly, NEW r \in Requests, IssueCredit(r)
    PROVE  Orderly'
<1>. PICK h : h = request[r]
    OBVIOUS
<1>. DEFINE state == [at |-> "subscription.save", inserts |-> 0, o |-> h.o, snap |-> h.snap,
                      new |-> h.new]
<1>1. h.at = "credit" /\ request[r] # Idle /\ h.at \notin Saving
    BY DEF IssueCredit, At, Idle, Saving
<1>2. Continue(r, state) /\ UNCHANGED <<invoice, subscription>>
    BY DEF IssueCredit
<1>3. Alone(h)
    BY DEF Orderly
<1>4. Alone(state)'
    BY <1>1, <1>2, <1>3 DEF Alone, Booked, Continues
<1>. QED
    BY <1>1, <1>2, <1>4, SameBooks

(* save() of what was changed since it was stored stores the change.       *)
LEMMA WrittenIsNew ==
    ASSUME NEW snap \in Subscription, NEW new \in Subscription, new.start = snap.start
    PROVE  SubscriptionWritten(snap, snap, new) = new
<1>. DEFINE doc == SubscriptionWritten(snap, snap, new)
<1>1. /\ doc.status = new.status /\ doc.start = new.start /\ doc.next = new.next
      /\ doc.unit = new.unit /\ doc.qty = new.qty /\ doc.amount = new.amount
    BY DEF SubscriptionWritten
<1>2. doc.schedule = [k \in 1..Horizon |-> [amount |-> new.schedule[k].amount,
                                            invoice |-> new.schedule[k].invoice]]
    BY DEF SubscriptionWritten
<1>3. new.schedule \in [1..Horizon -> Entry]
    BY DEF Subscription
<1>4. \A k \in 1..Horizon : new.schedule[k] = [amount |-> new.schedule[k].amount,
                                               invoice |-> new.schedule[k].invoice]
    BY <1>3 DEF Entry
<1>5. doc.schedule = new.schedule
    BY <1>2, <1>3, <1>4
<1>6. doc = [status |-> doc.status, start |-> doc.start, next |-> doc.next, unit |-> doc.unit,
             qty |-> doc.qty, amount |-> doc.amount, schedule |-> doc.schedule]
    BY DEF SubscriptionWritten
<1>7. new = [status |-> new.status, start |-> new.start, next |-> new.next, unit |-> new.unit,
             qty |-> new.qty, amount |-> new.amount, schedule |-> new.schedule]
    BY DEF Subscription
<1>. HIDE DEF doc
<1>8. doc = new
    BY <1>1, <1>5, <1>6, <1>7
<1>. QED
    BY <1>8 DEF doc

LEMMA ConvertInvoiceCalm ==
    ASSUME BillingInv, Orderly, NEW r \in Requests, ConvertInvoice(r)
    PROVE  Orderly'
<1>. PICK h, n : h = request[r] /\ n = Len(invoice) + 1
    OBVIOUS
<1>. DEFINE new == [h.snap EXCEPT !.schedule[1].invoice = n]
            state == [at |-> "subscription.save", inserts |-> 0, o |-> h.o, snap |-> h.snap,
                      new |-> new]
<1>1. /\ h.at = "convert.invoice" /\ request[r] # Idle
      /\ h.o \in Subs /\ h.o \in Orders /\ h.snap \in Subscription
      /\ h.snap = subscription[h.o] /\ h.snap.status = "ACTIVE"
      /\ \A k \in 1..Horizon : h.snap.schedule[k] = [amount |-> h.snap.amount, invoice |-> 0]
  <2>1. h.at = "convert.invoice" /\ request[r] # Idle
      BY DEF ConvertInvoice, At, Idle
  <2>2. Reads(h) /\ Alone(h)
      BY DEF BillingInv, Orderly
  <2>. QED
      BY <2>1, <2>2, RecurringType DEF Reads, Alone, Subs
<1>2. /\ invoice' = Append(invoice, NewInvoice(h.o, 1, NoUnits, h.snap.amount))
      /\ subscription' = subscription /\ request' = [request EXCEPT ![r] = state]
    BY DEF ConvertInvoice, Continue
<1>3. 1 \in 1..Horizon /\ 1 \in 0..Horizon /\ subscription[h.o] # None
    BY <1>1, HorizonType, NoneIsNoRecord
<1>4. Accounts'
    BY <1>1, <1>2, <1>3, AccountsKept DEF Orderly
<1>5. Booked(h.o, new)'
  <2>1. Booked(h.o, h.snap)
      BY <1>1, <1>3, OthersBooked DEF Saving
  <2>2. h.snap.schedule[1].invoice = 0 /\ h.snap.schedule[1].amount = h.snap.amount
      BY <1>1, <1>3
  <2>3. invoice' = Append(invoice, NewInvoice(h.o, 1, NoUnits, h.snap.schedule[1].amount))
      BY <1>2, <2>2
  <2>. QED
      BY <1>1, <1>3, <2>1, <2>2, <2>3, BookedJoined
<1>6. Continues(new, h.snap)
    BY <1>1 DEF Continues, Subscription, Entry
<1>. HIDE DEF new
<1>7. Alone(state)'
    BY <1>1, <1>2, <1>5, <1>6 DEF Alone, Continues
<1>8. ASSUME NEW o \in Orders, subscription'[o] # None
      PROVE  Booked(o, subscription[o])' \/ (state.at \in Saving /\ state.o = o)
  <2>1. CASE o = h.o
      BY <2>1 DEF Saving
  <2>2. CASE o # h.o
    <3>. PICK doc : doc = subscription[o]
        OBVIOUS
    <3>1. Booked(o, doc)
        BY <1>1, <1>2, <1>8, OthersBooked DEF Saving
    <3>2. Booked(o, doc)'
        BY <1>1, <1>2, <1>3, <2>2, <3>1, BookedKept
    <3>. QED
        BY <1>2, <3>2
  <2>. QED
      BY <2>1, <2>2
<1>. HIDE DEF state
<1>. QED
    BY <1>1, <1>2, <1>4, <1>7, <1>8, CalmGoesOn

(* The only handler stores a schedule that books every invoice.            *)
LEMMA SavedBooks ==
    ASSUME BillingInv, Orderly, NEW r \in Requests, request[r] # Idle,
           NEW o \in Orders, request[r].o = o, NEW doc \in Subscription,
           subscription' = [subscription EXCEPT ![o] = doc], UNCHANGED invoice, Booked(o, doc)
    PROVE  /\ Accounts'
           /\ \A p \in Orders : subscription'[p] # None => Booked(p, subscription[p])'
<1>1. \A p \in Orders : subscription'[p] = IF p = o THEN doc ELSE subscription[p]
    BY DEF BillingInv, StoreInv, TypeOK
<1>2. doc # None
    BY NoneIsNoRecord
<1>3. Accounts'
  <2>1. \A i \in DOMAIN invoice : invoice[i].order \in Orders
      BY InvoicesTyped DEF InvoiceRecord
  <2>. QED
      BY <1>1, <1>2, <2>1 DEF Orderly, Accounts, Settles
<1>4. ASSUME NEW p \in Orders, subscription'[p] # None PROVE Booked(p, subscription[p])'
  <2>1. CASE p = o
      BY <1>1, <2>1 DEF Booked
  <2>2. CASE p # o
    <3>1. subscription'[p] = subscription[p]
        BY <1>1, <2>2
    <3>2. Booked(p, subscription[p])
        BY <1>4, <2>2, <3>1, OthersBooked
    <3>. QED
        BY <3>1, <3>2 DEF Booked
  <2>. QED
      BY <2>1, <2>2
<1>. QED
    BY <1>3, <1>4

LEMMA SubscriptionSaveCalm ==
    ASSUME BillingInv, Orderly, NEW r \in Requests, SubscriptionSave(r)
    PROVE  Orderly'
<1>. PICK h : h = request[r]
    OBVIOUS
<1>1. /\ request[r] # Idle /\ h.o \in Orders
      /\ h.snap \in Subscription /\ h.new \in Subscription /\ h.snap = subscription[h.o]
      /\ Booked(h.o, h.new) /\ h.new.start = h.snap.start
  <2>1. h.at = "subscription.save" /\ request[r] # Idle
      BY DEF SubscriptionSave, At, Idle
  <2>2. Reads(h) /\ Alone(h)
      BY DEF BillingInv, Orderly
  <2>. QED
      BY <2>1, <2>2, RecurringType DEF Reads, Alone, Subs, Continues
<1>2. /\ subscription' = [subscription EXCEPT ![h.o] = h.new] /\ UNCHANGED invoice
      /\ request' = [request EXCEPT ![r] = Idle]
  <2>1. SubscriptionWritten(subscription[h.o], h.snap, h.new) = h.new
      BY <1>1, WrittenIsNew
  <2>2. /\ subscription' = [subscription EXCEPT ![h.o] = SubscriptionWritten(subscription[h.o], h.snap, h.new)]
        /\ request' = [request EXCEPT ![r] = Idle] /\ UNCHANGED invoice
      BY DEF SubscriptionSave, Finish, Continue
  <2>. QED
      BY <2>1, <2>2
<1>3. /\ Accounts'
      /\ \A p \in Orders : subscription'[p] # None => Booked(p, subscription[p])'
    BY <1>1, <1>2, SavedBooks
<1>. QED
    BY <1>1, <1>2, <1>3, IdleIsAlone, CalmGoesOn

(* What the run relies on.                                                 *)
LEMMA RunIsAlone ==
    ASSUME BillingInv, Orderly, NEW r \in Requests, NEW h, h = request[r], h.at = "run"
    PROVE  /\ request[r] # Idle
           /\ h.todo \in SUBSET Subs /\ h.todo \in SUBSET Orders /\ h.o \in h.todo
           /\ \A s \in h.todo : /\ h.docs[s] = subscription[s] /\ h.docs[s].status = "ACTIVE"
                                /\ subscription[s] \in Subscription
           /\ h.snap = subscription[h.o] /\ h.snap \in Subscription /\ h.new \in Subscription
           /\ h.snap.status = "ACTIVE"
           /\ Booked(h.o, h.new) /\ Continues(h.new, h.snap)
           /\ \A k \in 1..Horizon : h.new.schedule[k].amount = h.snap.schedule[k].amount
<1>1. Reads(h) /\ Alone(h)
    BY DEF BillingInv, Orderly
<1>2. request[r] # Idle
    BY DEF Idle
<1>. QED
    BY <1>1, <1>2, RecurringType DEF Reads, Alone, Subs

(* Joining an entry to its invoice changes neither start nor amounts.      *)
LEMMA JoinKeepsAmounts ==
    ASSUME NEW doc \in Subscription, NEW k \in 1..Horizon, NEW n
    PROVE  LET new == [doc EXCEPT !.schedule[k].invoice = n]
           IN  /\ new.start = doc.start
               /\ \A e \in 1..Horizon : new.schedule[e].amount = doc.schedule[e].amount
<1>. DEFINE new == [doc EXCEPT !.schedule[k].invoice = n]
<1>1. doc.schedule \in [1..Horizon -> Entry]
    BY DEF Subscription
<1>2. new.start = doc.start /\ new.schedule = [doc.schedule EXCEPT ![k].invoice = n]
    BY DEF Subscription
<1>. HIDE DEF new
<1>3. ASSUME NEW e \in 1..Horizon
      PROVE  new.schedule[e].amount = doc.schedule[e].amount
    <2>1. CASE e = k
        BY ONLY <1>1, <1>2, <2>1 DEF Entry
    <2>2. CASE e # k
        BY ONLY <1>1, <1>2, <2>2
    <2>. QED
        BY <2>1, <2>2
<1>. QED
    BY <1>2, <1>3

LEMMA RunInsertCalm ==
    ASSUME BillingInv, Orderly, NEW r \in Requests, RunInsert(r)
    PROVE  Orderly'
<1>. PICK h, n : h = request[r] /\ n = Len(invoice) + 1
    OBVIOUS
<1>. DEFINE due == Due(h.o, h.new, h.day)
            k == Min(due)
            state == [h EXCEPT !.inserts = @ - 1, !.new.schedule[k].invoice = n]
            new == [h.new EXCEPT !.schedule[k].invoice = n]
<1>1. h.at = "run"
    BY DEF RunInsert, At
<1>2. /\ request[r] # Idle
      /\ h.todo \in SUBSET Orders /\ h.o \in h.todo
      /\ \A s \in h.todo : /\ h.docs[s] = subscription[s] /\ h.docs[s].status = "ACTIVE"
                           /\ subscription[s] \in Subscription
      /\ h.snap = subscription[h.o] /\ h.snap \in Subscription /\ h.new \in Subscription
      /\ Booked(h.o, h.new) /\ Continues(h.new, h.snap)
      /\ \A e \in 1..Horizon : h.new.schedule[e].amount = h.snap.schedule[e].amount
    BY <1>1, RunIsAlone
<1>3. k \in 1..Horizon /\ h.new.schedule[k].invoice = 0
  <2>1. due \in SUBSET (1..Horizon) /\ due # {}
      BY DueArePeriods DEF RunInsert
  <2>2. due \in SUBSET Nat
      BY <2>1
  <2>3. k \in due
      BY <2>1, <2>2, MinIsIn
  <2>. QED
      BY <2>3 DEF Due
<1>4. /\ invoice' = Append(invoice, NewInvoice(h.o, k, NoUnits, h.new.schedule[k].amount))
      /\ subscription' = subscription /\ request' = [request EXCEPT ![r] = state]
    BY DEF RunInsert, Continue
<1>. HIDE DEF k
<1>5. /\ state.at = h.at /\ state.todo = h.todo /\ state.o = h.o /\ state.docs = h.docs
      /\ state.snap = h.snap /\ state.new = new
    BY DEF BillingInv
<1>. HIDE DEF state
<1>6. h.o \in Orders /\ k \in 0..Horizon /\ subscription[h.o] # None
    BY <1>2, <1>3, HorizonType, NoneIsNoRecord
<1>7. Accounts'
    BY <1>4, <1>6, AccountsKept DEF Orderly
<1>8. Booked(h.o, new)'
    BY <1>2, <1>3, <1>4, <1>6, BookedJoined
<1>9. /\ new.start = h.new.start
      /\ \A e \in 1..Horizon : new.schedule[e].amount = h.new.schedule[e].amount
  <2>. HIDE DEF k
  <2>. QED
    BY ONLY <1>2, <1>3, JoinKeepsAmounts
<1>. HIDE DEF new
<1>10. /\ Continues(new, h.snap)
       /\ \A e \in 1..Horizon : new.schedule[e].amount = h.snap.schedule[e].amount
    BY <1>2, <1>9 DEF Continues
<1>11. Alone(state)'
  <2>1. /\ state.at = "run" /\ state.snap = subscription[h.o] /\ h.snap = h.docs[h.o]
        /\ \A s \in state.todo : state.docs[s] = subscription'[s] /\ state.docs[s].status = "ACTIVE"
    BY ONLY <1>1, <1>2, <1>4, <1>5
  <2>2. Booked(state.o, state.new)'
    BY <1>5, <1>8
  <2>3. /\ Continues(state.new, state.snap)
        /\ \A e \in 1..Horizon : state.new.schedule[e].amount = state.snap.schedule[e].amount
    BY ONLY <1>5, <1>10
  <2>4. state.snap = state.docs[state.o]
    BY ONLY <1>5, <2>1
  <2>. QED
    BY ONLY <2>1, <2>2, <2>3, <2>4 DEF Alone
<1>12. ASSUME NEW o \in Orders, subscription'[o] # None
       PROVE  Booked(o, subscription[o])' \/ (state.at \in Saving /\ state.o = o)
  <2>1. CASE o = h.o
      BY <1>1, <1>5, <2>1 DEF Saving
  <2>2. CASE o # h.o
    <3>. PICK doc : doc = subscription[o]
        OBVIOUS
    <3>1. Booked(o, doc)
        BY <1>2, <1>4, <1>12, <2>2, OthersBooked
    <3>2. Booked(o, doc)'
        BY <1>4, <1>6, <2>2, <3>1, BookedKept
    <3>. QED
        BY <1>4, <3>2
  <2>. QED
      BY <2>1, <2>2
<1>. QED
    BY <1>2, <1>4, <1>7, <1>11, <1>12, CalmGoesOn

LEMMA RunSaveCalm ==
    ASSUME BillingInv, Orderly, NEW r \in Requests, RunSave(r)
    PROVE  Orderly'
<1>. PICK h : h = request[r]
    OBVIOUS
<1>. PICK todo : todo = h.todo \ {h.o}
    OBVIOUS
<1>. DEFINE doc == [h.new EXCEPT !.next = DateOf(h.o, h.new, Unbilled(h.new))]
<1>1. h.at = "run"
    BY DEF RunSave, At
<1>2. /\ request[r] # Idle
      /\ h.todo \in SUBSET Subs /\ h.todo \in SUBSET Orders /\ h.o \in h.todo
      /\ \A s \in h.todo : /\ h.docs[s] = subscription[s] /\ h.docs[s].status = "ACTIVE"
                           /\ subscription[s] \in Subscription
      /\ h.snap = subscription[h.o] /\ h.snap \in Subscription /\ h.new \in Subscription
      /\ Booked(h.o, h.new) /\ Continues(h.new, h.snap)
    BY <1>1, RunIsAlone
<1>3. doc \in Subscription /\ doc.start = h.snap.start /\ doc.schedule = h.new.schedule
  <2>1. Unbilled(h.new) \in SUBSET (1..Horizon)
      BY DEF Unbilled
  <2>2. DateOf(h.o, h.new, Unbilled(h.new)) \in Int \cup {None}
      BY <1>2, <2>1, DateIsTyped
  <2>. QED
      BY <1>2, <2>2 DEF Subscription, Continues
<1>4. /\ subscription' = [subscription EXCEPT ![h.o] = RunWritten(h.o, subscription[h.o], h.snap, h.new)]
      /\ UNCHANGED invoice
      /\ \/ request' = [request EXCEPT ![r] = Idle]
         \/ \E o \in todo : request' = [request EXCEPT ![r] = RunState(todo, o, h.docs, h.day)]
    BY DEF RunSave, Finish, Continue
<1>5. RunWritten(h.o, subscription[h.o], h.snap, h.new) = doc
  <2>1. RunWritten(h.o, h.snap, h.snap, h.new) = SubscriptionWritten(h.snap, h.snap, doc)
      BY Zenon DEF RunWritten
  <2>. HIDE DEF doc
  <2>2. SubscriptionWritten(h.snap, h.snap, doc) = doc
      BY <1>2, <1>3, WrittenIsNew
  <2>. QED
      BY <1>2, <2>1, <2>2
<1>. HIDE DEF doc
<1>6. Booked(h.o, doc)
    BY <1>2, <1>3 DEF Booked
<1>7. /\ Accounts'
      /\ \A p \in Orders : subscription'[p] # None => Booked(p, subscription[p])'
    BY <1>2, <1>3, <1>4, <1>5, <1>6, SavedBooks
<1>8. CASE request' = [request EXCEPT ![r] = Idle]
    BY <1>2, <1>7, <1>8, IdleIsAlone, CalmGoesOn
<1>9. CASE \E o \in todo : request' = [request EXCEPT ![r] = RunState(todo, o, h.docs, h.day)]
  <2>1. PICK o \in todo : request' = [request EXCEPT ![r] = RunState(todo, o, h.docs, h.day)]
      BY <1>9
  <2>. PICK state : state = RunState(todo, o, h.docs, h.day)
      OBVIOUS
  <2>2. \A s \in todo : /\ s \in Orders /\ h.docs[s] = subscription'[s] /\ h.docs[s].status = "ACTIVE"
                        /\ subscription[s] \in Subscription
    <3>1. \A s \in Orders : s # h.o => subscription'[s] = subscription[s]
        BY <1>4 DEF BillingInv, StoreInv, TypeOK
    <3>. QED
        BY <1>2, <3>1
  <2>3. subscription'[o] # None
    <3>1. subscription'[o] = subscription[o]
        BY <1>2, <2>1, <2>2
    <3>. QED
        BY <2>1, <2>2, <3>1, NoneIsNoRecord
  <2>4. Alone(state)'
    <3>1. todo \in SUBSET Orders /\ Booked(o, subscription[o])'
        BY <1>7, <2>1, <2>2, <2>3
    <3>. QED
        BY <2>1, <2>2, <3>1, RunAlone
  <2>. QED
      BY <1>2, <1>7, <2>1, <2>4, CalmGoesOn
<1>. QED
    BY <1>4, <1>8, <1>9

---------------------------------------------------------------------------
(* The theorems about undisturbed handlers.                                *)

LEMMA AccidentsNeverGoAway == BillingInv /\ [Next]_vars => (Calm' => Calm)
<1>. SUFFICES ASSUME BillingInv, [Next]_vars, Calm' PROVE Calm
    OBVIOUS
<1>1. accidents \in Nat /\ accidents' = 0
    BY MaxAccidentsType DEF BillingInv, StoreInv, TypeOK, Calm
<1>2. accidents' = accidents \/ accidents' = accidents + 1
  <2>1. ASSUME NEW r, NEW state, Begin(r, state) \/ Continue(r, state)
        PROVE  accidents' = accidents \/ accidents' = accidents + 1
      BY <2>1 DEF Begin, Continue, Accident
  <2>2. ASSUME NEW r \in Requests, StartRequest(r)
        PROVE  accidents' = accidents \/ accidents' = accidents + 1
    <3>1. \/ UNCHANGED accidents
          \/ \E state : Begin(r, state)
        BY <2>2 DEF StartRequest, Convert, GenerateRead, PayRead, RunRead, Modify, Cancel, Pause,
                    Resume, ChangeThenSave
    <3>. QED
        BY <2>1, <3>1
  <2>3. ASSUME NEW r \in Requests, ContinueRequest(r)
        PROVE  accidents' = accidents \/ accidents' = accidents + 1
    <3>1. \E state : Continue(r, state)
        BY <2>3 DEF ContinueRequest, GenerateInsert, GenerateSave, PaySave, PayOrder,
                    ConvertSubscribe, ConvertInvoice, SubscriptionSave, RunInsert, RunSave,
                    IssueCredit, Finish
    <3>. QED
        BY <2>1, <3>1
  <2>. QED
      BY <2>2, <2>3 DEF Next, Fail, Accident, Ship, Tick, vars
<1>. QED
    BY <1>1, <1>2 DEF Calm

LEMMA StartCalm ==
    ASSUME BillingInv, Orderly, Calm', NEW r \in Requests, StartRequest(r)
    PROVE  Orderly'
BY ConvertCalm, GenerateReadCalm, PayReadCalm, RunReadCalm, ModifyCalm, CancelCalm, PauseCalm,
   ResumeCalm
DEF StartRequest, Subs

LEMMA ContinueCalm ==
    ASSUME BillingInv, Orderly, NEW r \in Requests, ContinueRequest(r)
    PROVE  Orderly'
BY GenerateInsertCalm, GenerateSaveCalm, PaySaveCalm, PayOrderCalm, ConvertSubscribeCalm,
   ConvertInvoiceCalm, SubscriptionSaveCalm, RunInsertCalm, RunSaveCalm, IssueCreditCalm
DEF ContinueRequest

LEMMA NobodyDiesCalm ==
    ASSUME BillingInv, Calm', NEW r \in Requests, Fail(r)
    PROVE  FALSE
BY MaxAccidentsType DEF Fail, Accident, Calm, BillingInv, StoreInv, TypeOK

LEMMA CalmStep == BillingInv /\ CalmInv /\ [Next]_vars => CalmInv'
<1>. SUFFICES ASSUME BillingInv, CalmInv, [Next]_vars, Calm' PROVE Orderly'
    BY DEF CalmInv
<1>1. Orderly
    BY AccidentsNeverGoAway DEF CalmInv
<1>2. ASSUME NEW r \in Requests, StartRequest(r) \/ ContinueRequest(r) \/ Fail(r)
      PROVE  Orderly'
    BY <1>1, <1>2, StartCalm, ContinueCalm, NobodyDiesCalm
<1>3. ASSUME NEW o \in Orders, NEW units \in Units, Ship(o, units)
      PROVE  Orderly'
    BY <1>1, <1>3, OrderlyKept DEF Ship
<1>4. CASE Tick
    BY <1>1, <1>4, OrderlyKept DEF Tick
<1>5. CASE UNCHANGED vars
    BY <1>1, <1>5, OrderlyKept DEF vars
<1>. QED
    BY <1>2, <1>3, <1>4, <1>5 DEF Next

LEMMA CalmAtFirst == Init => CalmInv
<1>. SUFFICES ASSUME Init PROVE Orderly
    BY DEF CalmInv
<1>1. \A r \in Requests : request[r] = Idle
    BY DEF Init, Idle
<1>2. Busy = {}
    BY <1>1 DEF Busy
<1>3. \A r \in Requests : Alone(request[r])
    BY <1>1 DEF Alone, Idle
<1>4. DOMAIN invoice = {}
    BY DEF Init
<1>5. \A o \in Orders : Booked(o, subscription[o])
    BY <1>4 DEF Booked
<1>. QED
    BY <1>2, <1>3, <1>4, <1>5 DEF Orderly, Accounts

LEMMA OrderlyBillsOnce == BillingInv /\ CalmInv => NothingBilledTwice
<1>. SUFFICES ASSUME BillingInv, Calm, Orderly PROVE PaymentsCount /\ PeriodBilledOnce
    BY DEF CalmInv, NothingBilledTwice, PaymentsCount, PeriodBilledOnce
<1>1. PaymentsCount
    BY DEF Orderly, Accounts, Settles, PaymentsCount
<1>2. ASSUME NEW i \in DOMAIN invoice, NEW j \in DOMAIN invoice, invoice[i].period > 0
      PROVE  LET o == invoice[i].order
                 entry == subscription[o].schedule[invoice[i].period]
             IN  /\ (invoice[j].order = o /\ invoice[j].period = invoice[i].period) => i = j
                 /\ entry.amount = invoice[i].total
                 /\ Busy = {} => entry.invoice = i
  <2>. PICK o, k, sub : o = invoice[i].order /\ k = invoice[i].period /\ sub = subscription[o]
      OBVIOUS
  <2>1. o \in Orders /\ k \in 1..Horizon /\ i # 0
    <3>1. invoice[i] \in InvoiceRecord /\ invoice \in Seq(InvoiceRecord)
        BY InvoicesTyped
    <3>2. o \in Orders /\ k \in 0..Horizon
        BY <3>1 DEF InvoiceRecord
    <3>3. i # 0
        BY <3>1
    <3>. QED
        BY <1>2, <3>2, <3>3, HorizonType
  <2>2. sub # None
      BY <1>2 DEF Orderly, Accounts
  <2>3. CASE Booked(o, sub)
    <3>1. sub.schedule[k] = [amount |-> invoice[i].total, invoice |-> i]
        BY <1>2, <2>3 DEF Booked
    <3>2. (invoice[j].order = o /\ invoice[j].period = k) =>
              sub.schedule[k] = [amount |-> invoice[j].total, invoice |-> j]
        BY <1>2, <2>3 DEF Booked
    <3>3. (invoice[j].order = o /\ invoice[j].period = k) => i = j
        BY <3>1, <3>2
    <3>. QED
        BY <3>1, <3>3
  <2>4. CASE \E r \in Requests : request[r].at \in Saving /\ request[r].o = o
    <3>1. PICK r \in Requests : request[r].at \in Saving /\ request[r].o = o
        BY <2>4
    <3>. PICK h : h = request[r]
        OBVIOUS
    <3>2. h.snap = sub /\ Booked(o, h.new) /\ Continues(h.new, sub)
      <4>1. Reads(h) /\ Alone(h) /\ h.at \in Saving
          BY <3>1 DEF BillingInv, Orderly
      <4>. QED
          BY <3>1, <4>1 DEF Alone, Reads, Saving
    <3>3. h.new.schedule[k] = [amount |-> invoice[i].total, invoice |-> i]
        BY <1>2, <3>2 DEF Booked
    <3>4. (invoice[j].order = o /\ invoice[j].period = k) =>
              h.new.schedule[k] = [amount |-> invoice[j].total, invoice |-> j]
        BY <1>2, <3>2 DEF Booked
    <3>5. (invoice[j].order = o /\ invoice[j].period = k) => i = j
        BY <3>3, <3>4
    <3>6. sub.schedule[k].amount = invoice[i].total
        BY <2>1, <3>2, <3>3 DEF Continues
    <3>7. Busy # {}
        BY <3>1 DEF Busy, Idle, Saving
    <3>. QED
        BY <3>5, <3>6, <3>7
  <2>. QED
      BY <2>1, <2>2, <2>3, <2>4 DEF Orderly
<1>3. PeriodBilledOnce
    BY <1>2 DEF PeriodBilledOnce
<1>. QED
    BY <1>1, <1>3

(* While handlers neither overlap nor die, a period of a subscription has  *)
(* one invoice, for the amount its schedule keeps, and a payment counts    *)
(* once - for every calendar, price list and length of schedule.           *)
THEOREM NothingIsBilledTwice == Spec => []NothingBilledTwice
<1>1. Spec => []BillingInv
    BY InitHolds, StepKeeps, PTL DEF Spec
<1>2. Spec => []CalmInv
    BY <1>1, CalmAtFirst, CalmStep, PTL DEF Spec
<1>. QED
    BY <1>1, <1>2, OrderlyBillsOnce, PTL

---------------------------------------------------------------------------
(* Who is stopped is left alone.                                           *)

LeftAlone(o) ==
    /\ \A i \in (DOMAIN invoice') \ DOMAIN invoice :
           invoice'[i].period = 0 \/ invoice'[i].order # o
    /\ subscription[o].status = "CANCELLED" => subscription'[o] = subscription[o]

LEMMA AddedIsLast ==
    ASSUME BillingInv, NEW p, NEW period, NEW units, NEW total,
           invoice' = Append(invoice, NewInvoice(p, period, units, total)),
           NEW i \in (DOMAIN invoice') \ DOMAIN invoice
    PROVE  invoice'[i].order = p /\ invoice'[i].period = period
<1>. DEFINE new == NewInvoice(p, period, units, total)
<1>1. new.order = p /\ new.period = period
    BY DEF NewInvoice
<1>2. invoice \in Seq(InvoiceRecord)
    BY InvoicesTyped
<1>. HIDE DEF new
<1>3. i = Len(invoice) + 1 /\ invoice'[Len(invoice) + 1] = new
    BY <1>2 DEF new
<1>. QED
    BY <1>1, <1>3

LEMMA OtherSubscription ==
    ASSUME BillingInv, NEW p, NEW doc, NEW o \in Orders, o # p,
           subscription' = [subscription EXCEPT ![p] = doc]
    PROVE  subscription'[o] = subscription[o]
BY DEF BillingInv, StoreInv, TypeOK

LEMMA ContinueLeavesAlone ==
    ASSUME BillingInv, Orderly, NEW r \in Requests, ContinueRequest(r),
           NEW o \in Orders, subscription[o] # None, subscription[o].status # "ACTIVE"
    PROVE  LeftAlone(o)
<1>. PICK h : h = request[r]
    OBVIOUS
<1>0. Reads(h) /\ Alone(h)
    BY DEF BillingInv, Orderly
<1>1. CASE GenerateInsert(r)
  <2>1. \A i \in (DOMAIN invoice') \ DOMAIN invoice : invoice'[i].period = 0
    <3>. PICK units, p : units = Billable(h.o, h.snap) /\ p = h.o
        OBVIOUS
    <3>1. invoice' = Append(invoice, NewInvoice(p, 0, units, Total[units]))
        BY <1>1 DEF GenerateInsert
    <3>. QED
        BY <3>1, AddedIsLast
  <2>. QED
      BY <1>1, <2>1 DEF GenerateInsert, LeftAlone
<1>2. CASE GenerateSave(r) \/ PayOrder(r) \/ IssueCredit(r)
    BY <1>2 DEF GenerateSave, PayOrder, IssueCredit, LeftAlone
<1>3. CASE PaySave(r)
    BY <1>3 DEF PaySave, LeftAlone
<1>4. CASE ConvertSubscribe(r)
  <2>1. h.o # o
      BY <1>0, <1>4 DEF ConvertSubscribe, At, Alone
  <2>2. \E doc : subscription' = [subscription EXCEPT ![h.o] = doc]
      BY <1>4 DEF ConvertSubscribe
  <2>. QED
      BY <1>4, <2>1, <2>2, OtherSubscription DEF ConvertSubscribe, LeftAlone
<1>5. CASE ConvertInvoice(r)
  <2>1. h.o # o
      BY <1>0, <1>5 DEF ConvertInvoice, At, Alone
  <2>2. \A i \in (DOMAIN invoice') \ DOMAIN invoice : invoice'[i].order = h.o
    <3>. PICK amount : amount = h.snap.amount
        OBVIOUS
    <3>1. invoice' = Append(invoice, NewInvoice(h.o, 1, NoUnits, amount))
        BY <1>5 DEF ConvertInvoice
    <3>. QED
        BY <3>1, AddedIsLast
  <2>. QED
      BY <1>5, <2>1, <2>2 DEF ConvertInvoice, LeftAlone
<1>6. CASE SubscriptionSave(r)
  <2>1. subscription[h.o].status # "CANCELLED"
      BY <1>0, <1>6 DEF SubscriptionSave, At, Alone
  <2>2. \E doc : subscription' = [subscription EXCEPT ![h.o] = doc]
      BY <1>6 DEF SubscriptionSave
  <2>3. h.o # o => subscription'[o] = subscription[o]
      BY <2>2, OtherSubscription
  <2>. QED
      BY <1>6, <2>1, <2>3 DEF SubscriptionSave, LeftAlone
<1>7. CASE RunInsert(r) \/ RunSave(r)
  <2>1. h.o # o
    <3>1. h.at = "run"
        BY <1>7 DEF RunInsert, RunSave, At
    <3>2. subscription[h.o].status = "ACTIVE"
        BY <3>1, RunIsAlone
    <3>. QED
        BY <3>2
  <2>2. CASE RunInsert(r)
    <3>. DEFINE k == Min(Due(h.o, h.new, h.day))
    <3>1. /\ invoice' = Append(invoice, NewInvoice(h.o, k, NoUnits, h.new.schedule[k].amount))
          /\ subscription' = subscription
        BY <2>2 DEF RunInsert
    <3>. HIDE DEF k
    <3>2. \A i \in (DOMAIN invoice') \ DOMAIN invoice : invoice'[i].order = h.o
        BY <3>1, AddedIsLast
    <3>. QED
        BY <2>1, <3>1, <3>2 DEF LeftAlone
  <2>3. CASE RunSave(r)
    <3>1. UNCHANGED invoice /\ \E doc : subscription' = [subscription EXCEPT ![h.o] = doc]
        BY <2>3 DEF RunSave
    <3>2. subscription'[o] = subscription[o]
        BY <2>1, <3>1, OtherSubscription
    <3>. QED
        BY <3>1, <3>2 DEF LeftAlone
  <2>. QED
      BY <1>7, <2>2, <2>3
<1>. QED
    BY <1>1, <1>2, <1>3, <1>4, <1>5, <1>6, <1>7 DEF ContinueRequest

LEMMA StartLeavesAlone ==
    ASSUME NEW r, StartRequest(r)
    PROVE  UNCHANGED <<invoice, subscription>>
BY DEF StartRequest, Convert, GenerateRead, PayRead, RunRead, Modify, Cancel, Pause, Resume,
       ChangeThenSave, store

(* While handlers neither overlap nor die, no step inserts an invoice of a *)
(* period of a subscription that is paused or cancelled, and nothing       *)
(* changes a cancelled one.                                                *)
THEOREM StoppedStaysUnbilled == Spec => StoppedIsNotBilled
<1>1. Spec => []BillingInv
    BY InitHolds, StepKeeps, PTL DEF Spec
<1>2. Spec => []CalmInv
    BY <1>1, CalmAtFirst, CalmStep, PTL DEF Spec
<1>3. BillingInv /\ CalmInv /\ [Next]_vars =>
      [Calm' => \A o \in Orders :
           (subscription[o] # None /\ subscription[o].status # "ACTIVE") =>
               /\ \A i \in (DOMAIN invoice') \ DOMAIN invoice :
                      invoice'[i].period = 0 \/ invoice'[i].order # o
               /\ subscription[o].status = "CANCELLED" => subscription'[o] = subscription[o]]_vars
  <2>. SUFFICES ASSUME BillingInv, CalmInv, [Next]_vars, Calm',
                       NEW o \in Orders, subscription[o] # None, subscription[o].status # "ACTIVE"
                PROVE  LeftAlone(o)
      BY DEF LeftAlone
  <2>1. Orderly
      BY AccidentsNeverGoAway DEF CalmInv
  <2>2. ASSUME NEW r \in Requests, StartRequest(r) PROVE LeftAlone(o)
      BY <2>2, StartLeavesAlone DEF LeftAlone
  <2>3. ASSUME NEW r \in Requests, ContinueRequest(r) PROVE LeftAlone(o)
      BY <2>1, <2>3, ContinueLeavesAlone
  <2>4. ASSUME NEW r \in Requests, Fail(r) PROVE LeftAlone(o)
      BY <2>4, NobodyDiesCalm
  <2>5. ASSUME NEW p \in Orders, NEW units \in Units, Ship(p, units) PROVE LeftAlone(o)
      BY <2>5 DEF Ship, LeftAlone
  <2>6. CASE Tick \/ UNCHANGED vars
      BY <2>6 DEF Tick, vars, LeftAlone
  <2>. QED
      BY <2>2, <2>3, <2>4, <2>5, <2>6 DEF Next
<1>. QED
    BY <1>1, <1>2, <1>3, PTL DEF Spec, StoppedIsNotBilled
---------------------------------------------------------------------------
(* The pages.  Undisturbed, an invoice is of its lines or of its period,   *)
(* the status of an order has its invoice behind it, and a subscription    *)
(* has a next bill date when there is something left to bill - and the     *)
(* handlers under way bring nothing else.                                  *)

OfItsLines(doc) ==
    /\ doc.period > 0 => doc.units = NoUnits
    /\ doc.period = 0 => \E l \in Lines : Ordered[doc.order][l] > 0 /\ doc.units[l] > 0

HasItsInvoice(o, status) ==
    status \in {"INVOICED", "PAID"} =>
        \E i \in DOMAIN invoice :
            /\ invoice[i].order = o /\ invoice[i].period = 0
            /\ status = "PAID" => invoice[i].status = "PAID"

NextFits(doc) ==
    /\ doc.status # "ACTIVE" => doc.next = None
    /\ doc.status = "ACTIVE" /\ Unbilled(doc) # {} => doc.next # None

Brings(h) ==
    /\ h.at = "generate.insert" => Billable(h.o, h.snap) # NoUnits
    /\ h.at = "generate.save" => HasItsInvoice(h.o, "INVOICED")
    /\ h.at = "pay.order" => HasItsInvoice(h.o, "PAID")
    /\ h.at \in {"credit", "subscription.save"} => NextFits(h.new)
    /\ h.at = "run" => h.new.status = "ACTIVE"

OrdersShown == \A o \in Orders : order[o] # None => HasItsInvoice(o, order[o].status)

Shown ==
    /\ \A i \in DOMAIN invoice : OfItsLines(invoice[i])
    /\ OrdersShown
    /\ \A o \in Orders : subscription[o] # None => NextFits(subscription[o])
    /\ \A r \in Requests : Brings(request[r])

PagesInv == Calm => Shown

(* Invoices are added, and one that is paid stays paid.                    *)
Keeps ==
    \A i \in DOMAIN invoice :
        /\ i \in DOMAIN invoice'
        /\ invoice'[i].order = invoice[i].order /\ invoice'[i].period = invoice[i].period
        /\ invoice[i].status = "PAID" => invoice'[i].status = "PAID"

LEMMA InvoiceStays ==
    ASSUME Keeps, NEW o, NEW status, HasItsInvoice(o, status)
    PROVE  HasItsInvoice(o, status)'
BY DEF Keeps, HasItsInvoice

LEMMA BringsStill ==
    ASSUME Keeps, NEW h, Brings(h)
    PROVE  Brings(h)'
BY InvoiceStays DEF Brings, Billable, NoUnits, NextFits, Unbilled

LEMMA NothingBrought == Brings(Idle)'
BY DEF Brings, Idle

(* A step of one handler, and a step of none.                              *)
LEMMA ShownAfter ==
    ASSUME BillingInv, Shown, Keeps, NEW r \in Requests, NEW state,
           request' = [request EXCEPT ![r] = state], Brings(state)',
           \A i \in DOMAIN invoice' : OfItsLines(invoice[i])', OrdersShown',
           \A o \in Orders : subscription'[o] # None => NextFits(subscription[o])'
    PROVE  Shown'
<1>1. ASSUME NEW q \in Requests PROVE Brings(request[q])'
  <2>1. CASE q = r
    <3>1. request'[q] = state
        BY <2>1 DEF BillingInv
    <3>. QED
        BY <3>1
  <2>2. CASE q # r
    <3>1. request'[q] = request[q] /\ Brings(request[q])
        BY <2>2 DEF BillingInv, Shown
    <3>. DEFINE h == request[q]
    <3>. QED
        BY <3>1, BringsStill
  <2>. QED
      BY <2>1, <2>2
<1>. QED
    BY <1>1 DEF Shown

(* A handler that only reads.                                              *)
LEMMA ReadingShows ==
    ASSUME BillingInv, Shown, NEW r \in Requests, NEW state, Begin(r, state), UNCHANGED store,
           Brings(state)
    PROVE  Shown'
<1>1. /\ UNCHANGED <<order, invoice, subscription>>
      /\ request' = [request EXCEPT ![r] = state]
    BY DEF Begin, store
<1>2. Keeps
    BY <1>1 DEF Keeps
<1>3. Brings(state)'
    BY <1>2, BringsStill
<1>4. \A i \in DOMAIN invoice' : OfItsLines(invoice[i])'
    BY <1>1 DEF Shown, OfItsLines, NoUnits
<1>5. OrdersShown'
    BY <1>1, <1>2, InvoiceStays DEF Shown, OrdersShown
<1>6. \A o \in Orders : subscription'[o] # None => NextFits(subscription[o])'
    BY <1>1 DEF Shown, NextFits, Unbilled
<1>. QED
    BY <1>1, <1>2, <1>3, <1>4, <1>5, <1>6, ShownAfter

LEMMA GenerateReadShows ==
    ASSUME BillingInv, Shown, NEW r \in Requests, NEW o \in Orders, GenerateRead(r, o)
    PROVE  Shown'
<1>. DEFINE state == [at |-> "generate.insert", inserts |-> 1, o |-> o, snap |-> order[o]]
<1>1. Begin(r, state) /\ UNCHANGED store /\ Billable(o, order[o]) # NoUnits
    BY DEF GenerateRead
<1>2. Brings(state)
    BY <1>1 DEF Brings
<1>. QED
    BY <1>1, <1>2, ReadingShows

LEMMA PayReadShows ==
    ASSUME BillingInv, Shown, NEW r \in Requests, NEW i \in DOMAIN invoice, NEW amount \in Amounts,
           PayRead(r, i, amount)
    PROVE  Shown'
<1>. DEFINE state == [at |-> "pay.save", inserts |-> 0, i |-> i, snap |-> invoice[i],
                      amount |-> amount]
<1>1. Begin(r, state) /\ UNCHANGED store
    BY DEF PayRead
<1>2. Brings(state)
    BY DEF Brings
<1>. QED
    BY <1>1, <1>2, ReadingShows

LEMMA RunReadShows ==
    ASSUME BillingInv, Shown, NEW r \in Requests, RunRead(r)
    PROVE  Shown'
<1>. PICK todo : todo = {s \in Orders : Billed(s) /\ Due(s, subscription[s], clock) # {}}
    OBVIOUS
<1>1. PICK o \in todo :
          /\ Begin(r, RunState(todo, o, [s \in todo |-> subscription[s]], clock))
          /\ UNCHANGED store
    BY DEF RunRead
<1>. PICK state : state = RunState(todo, o, [s \in todo |-> subscription[s]], clock)
    OBVIOUS
<1>2. state.at = "run" /\ state.new = subscription[o] /\ subscription[o].status = "ACTIVE"
    BY <1>1 DEF RunState, Billed
<1>3. Brings(state)
    BY <1>2 DEF Brings
<1>. QED
    BY <1>1, <1>3, ReadingShows

(* What a change of a subscription will save.                              *)
LEMMA ChangeShows ==
    ASSUME BillingInv, Shown, NEW r \in Requests, NEW o, NEW credit, NEW new,
           ChangeThenSave(r, o, credit, new), NextFits(new)
    PROVE  Shown'
<1>. PICK state :
        state = [at |-> IF credit > 0 THEN "credit" ELSE "subscription.save", inserts |-> 0,
                 o |-> o, snap |-> subscription[o], new |-> new, credit |-> credit]
    OBVIOUS
<1>1. Begin(r, state) /\ UNCHANGED store
    BY DEF ChangeThenSave
<1>2. state.at \in {"credit", "subscription.save"} /\ state.new = new
    OBVIOUS
<1>3. Brings(state)
    BY <1>2 DEF Brings
<1>. QED
    BY <1>1, <1>3, ReadingShows

LEMMA ModifyShows ==
    ASSUME BillingInv, Shown, NEW r \in Requests, NEW o \in Subs, Modify(r, o)
    PROVE  Shown'
<1>. PICK sub : sub = subscription[o]
    OBVIOUS
<1>1. sub \in Subscription /\ NextFits(sub)
    BY RecurringType DEF Modify, Subs, BillingInv, StoreInv, TypeOK, Shown
<1>2. PICK qty, unit : LET change == Modified(o, sub, qty, unit, clock)
                       IN  ChangeThenSave(r, o, change.credit, change.doc)
    BY DEF Modify
<1>. PICK new : new = Modified(o, sub, qty, unit, clock).doc
    OBVIOUS
<1>3. /\ new.status = sub.status /\ new.next = sub.next
      /\ \A k \in 1..Horizon : new.schedule[k].invoice = sub.schedule[k].invoice
  <2>1. \A k \in 1..Horizon : sub.schedule[k] \in Entry
      BY <1>1 DEF Subscription
  <2>. QED
      BY <1>1, <2>1 DEF Modified, Subscription, Entry
<1>4. NextFits(new)
  <2>1. Unbilled(new) = Unbilled(sub)
      BY <1>3 DEF Unbilled
  <2>. QED
      BY <1>1, <1>3, <2>1 DEF NextFits
<1>. QED
    BY <1>2, <1>4, ChangeShows

LEMMA CancelShows ==
    ASSUME BillingInv, Shown, NEW r \in Requests, NEW o \in Subs, Cancel(r, o)
    PROVE  Shown'
<1>. PICK new : new = [subscription[o] EXCEPT !.status = "CANCELLED", !.next = None]
    OBVIOUS
<1>1. subscription[o] \in Subscription
    BY RecurringType DEF Cancel, Subs, BillingInv, StoreInv, TypeOK
<1>2. NextFits(new)
    BY <1>1 DEF NextFits, Subscription
<1>3. PICK credit : ChangeThenSave(r, o, credit, new)
    BY DEF Cancel
<1>. QED
    BY <1>2, <1>3, ChangeShows

LEMMA PauseShows ==
    ASSUME BillingInv, Shown, NEW r \in Requests, NEW o \in Subs, Pause(r, o)
    PROVE  Shown'
<1>. PICK new : new = [subscription[o] EXCEPT !.status = "PAUSED", !.next = None]
    OBVIOUS
<1>1. subscription[o] \in Subscription
    BY RecurringType DEF Pause, Subs, BillingInv, StoreInv, TypeOK
<1>2. NextFits(new)
    BY <1>1 DEF NextFits, Subscription
<1>3. ChangeThenSave(r, o, 0, new)
    BY DEF Pause
<1>. QED
    BY <1>2, <1>3, ChangeShows

(* The date of a period is a date.                                         *)
LEMMA DateOfSome ==
    ASSUME NEW o \in Subs, NEW sub \in Subscription, NEW periods \in SUBSET (1..Horizon), periods # {}
    PROVE  DateOf(o, sub, periods) # None
<1>1. Min(periods) \in 1..Horizon
  <2>1. periods \in SUBSET Nat
      OBVIOUS
  <2>. QED
      BY <2>1, MinIsIn
<1>2. PeriodStart(o, sub, Min(periods)) \in Int
  <2>1. sub.start \in Instants
      BY DEF Subscription
  <2>. QED
      BY <1>1, <2>1, PeriodsAreDays
<1>. QED
    BY <1>2, NoneIsNoRecord DEF DateOf

LEMMA ResumeShows ==
    ASSUME BillingInv, Shown, NEW r \in Requests, NEW o \in Subs, Resume(r, o)
    PROVE  Shown'
<1>. PICK sub : sub = subscription[o]
    OBVIOUS
<1>. PICK date : date = DateOf(o, sub, NextUnbilled(o, sub, clock))
    OBVIOUS
<1>. PICK new : new = [sub EXCEPT !.status = "ACTIVE", !.next = date]
    OBVIOUS
<1>1. sub \in Subscription
    BY RecurringType DEF Resume, Subs, BillingInv, StoreInv, TypeOK
<1>2. new.status = "ACTIVE" /\ new.next = date /\ new.schedule = sub.schedule
    BY <1>1 DEF Subscription
<1>3. Unbilled(sub) # {} => date # None
  <2>1. NextUnbilled(o, sub, clock) \in SUBSET (1..Horizon)
      BY NextUnbilledArePeriods
  <2>2. Unbilled(sub) # {} => NextUnbilled(o, sub, clock) # {}
      BY DEF NextUnbilled
  <2>. QED
      BY <1>1, <2>1, <2>2, DateOfSome
<1>4. NextFits(new)
    BY <1>2, <1>3 DEF NextFits, Unbilled
<1>5. ChangeThenSave(r, o, 0, new)
    BY DEF Resume
<1>. QED
    BY <1>4, <1>5, ChangeShows

(* A step of the server that is no handler's.                              *)
LEMMA ShownStays ==
    ASSUME BillingInv, Shown, Keeps, request' = request,
           \A i \in DOMAIN invoice' : OfItsLines(invoice[i])', OrdersShown',
           \A o \in Orders : subscription'[o] # None => NextFits(subscription[o])'
    PROVE  Shown'
<1>1. ASSUME NEW q \in Requests PROVE Brings(request[q])'
  <2>1. request'[q] = request[q] /\ Brings(request[q])
      BY DEF Shown
  <2>. DEFINE h == request[q]
  <2>. QED
      BY <2>1, BringsStill
<1>. QED
    BY <1>1 DEF Shown

(* A step that writes one order has its invoice ready.                     *)
LEMMA OrderShows ==
    ASSUME BillingInv, Shown, NEW o \in Orders, NEW doc, order' = [order EXCEPT ![o] = doc],
           UNCHANGED <<invoice, subscription>>, HasItsInvoice(o, doc.status)
    PROVE  /\ Keeps /\ OrdersShown'
           /\ \A i \in DOMAIN invoice' : OfItsLines(invoice[i])'
           /\ \A p \in Orders : subscription'[p] # None => NextFits(subscription[p])'
<1>1. Keeps
    BY DEF Keeps
<1>2. \A i \in DOMAIN invoice' : OfItsLines(invoice[i])'
    BY DEF Shown, OfItsLines, NoUnits
<1>3. \A p \in Orders : subscription'[p] # None => NextFits(subscription[p])'
    BY DEF Shown, NextFits, Unbilled
<1>4. ASSUME NEW p \in Orders, order'[p] # None PROVE HasItsInvoice(p, order[p].status)'
  <2>. PICK status : status = order'[p].status
      OBVIOUS
  <2>1. HasItsInvoice(p, status)
    <3>1. order'[p] = IF p = o THEN doc ELSE order[p]
        BY DEF BillingInv, StoreInv, TypeOK
    <3>. QED
        BY <1>4, <3>1 DEF Shown, OrdersShown
  <2>2. HasItsInvoice(p, status)'
      BY <1>1, <2>1, InvoiceStays
  <2>. QED
      BY <2>2
<1>5. OrdersShown'
    BY <1>4 DEF OrdersShown
<1>. QED
    BY <1>1, <1>2, <1>3, <1>5

LEMMA ShipShows ==
    ASSUME BillingInv, Shown, NEW o \in Orders, NEW units \in Units, Ship(o, units)
    PROVE  Shown'
<1>. DEFINE shipped == [l \in Lines |-> order[o].shipped[l] + units[l]]
            all == order[o].status = "CONFIRMED" /\ shipped = Ordered[o]
<1>. PICK doc : doc = [order[o] EXCEPT !.shipped = shipped,
                                       !.status = IF all THEN "SHIPPED" ELSE @]
    OBVIOUS
<1>1. order[o] \in OrderRecord /\ order[o] # None
    BY DEF Ship, BillingInv, StoreInv, TypeOK
<1>2. order' = [order EXCEPT ![o] = doc]
    BY <1>1 DEF Ship, BillingInv, StoreInv, TypeOK, OrderRecord
<1>3. doc.status = "SHIPPED" \/ doc.status = order[o].status
    BY <1>1 DEF OrderRecord
<1>4. HasItsInvoice(o, doc.status)
  <2>1. HasItsInvoice(o, order[o].status)
      BY <1>1 DEF Shown, OrdersShown
  <2>2. HasItsInvoice(o, "SHIPPED")
      BY DEF HasItsInvoice
  <2>. QED
      BY <1>3, <2>1, <2>2
<1>5. UNCHANGED <<invoice, subscription>> /\ request' = request
    BY DEF Ship
<1>. QED
    BY <1>2, <1>4, <1>5, OrderShows, ShownStays

LEMMA ConvertShows ==
    ASSUME BillingInv, Shown, NEW r \in Requests, NEW o \in Orders, Convert(r, o)
    PROVE  Shown'
<1>. PICK doc, day : /\ doc = [status |-> "CONFIRMED", shipped |-> NoUnits, invoiced |-> NoUnits]
                     /\ day = clock
    OBVIOUS
<1>. DEFINE state == [at |-> "convert.subscribe", inserts |-> 1, o |-> o, day |-> day]
<1>1. /\ order' = [order EXCEPT ![o] = doc] /\ UNCHANGED <<invoice, subscription>>
      /\ request' = [request EXCEPT ![r] = state] \/ request' = request
    BY DEF Convert, Begin
<1>2. HasItsInvoice(o, doc.status)
    BY DEF HasItsInvoice
<1>3. Brings(state)'
    BY DEF Brings
<1>. QED
    BY <1>1, <1>2, <1>3, OrderShows, ShownAfter, ShownStays

LEMMA GenerateSaveShows ==
    ASSUME BillingInv, Shown, NEW r \in Requests, GenerateSave(r)
    PROVE  Shown'
<1>. PICK h : h = request[r]
    OBVIOUS
<1>. PICK doc : doc = [order[h.o] EXCEPT
                         !.invoiced = InvoicedWritten(h.o, order[h.o], h.snap),
                         !.status = IF h.snap.status = "SHIPPED" THEN "INVOICED" ELSE @]
    OBVIOUS
<1>1. /\ h.at = "generate.save" /\ h.o \in Orders /\ order[h.o] \in OrderRecord
      /\ HasItsInvoice(h.o, "INVOICED")
  <2>1. h.at = "generate.save" /\ Reads(h) /\ Brings(h)
      BY DEF GenerateSave, At, BillingInv, Shown
  <2>. QED
      BY <2>1 DEF Reads, Brings
<1>2. order' = [order EXCEPT ![h.o] = doc]
    BY <1>1 DEF GenerateSave, BillingInv, StoreInv, TypeOK, OrderRecord
<1>3. doc.status = "INVOICED" \/ doc.status = order[h.o].status
    BY <1>1 DEF OrderRecord
<1>4. HasItsInvoice(h.o, doc.status)
  <2>1. HasItsInvoice(h.o, order[h.o].status)
      BY <1>1, NoneIsNoRecord DEF Shown, OrdersShown
  <2>. QED
      BY <1>1, <1>3, <2>1
<1>5. UNCHANGED <<invoice, subscription>> /\ request' = [request EXCEPT ![r] = Idle]
    BY DEF GenerateSave, Finish, Continue
<1>. QED
    BY <1>1, <1>2, <1>4, <1>5, OrderShows, NothingBrought, ShownAfter

LEMMA PayOrderShows ==
    ASSUME BillingInv, Shown, NEW r \in Requests, PayOrder(r)
    PROVE  Shown'
<1>. PICK h : h = request[r]
    OBVIOUS
<1>. PICK doc : doc = [order[h.o] EXCEPT !.status = "PAID"]
    OBVIOUS
<1>1. /\ h.at = "pay.order" /\ h.o \in Orders /\ order[h.o] \in OrderRecord
      /\ HasItsInvoice(h.o, "PAID")
  <2>1. h.at = "pay.order" /\ Reads(h) /\ Brings(h)
      BY DEF PayOrder, At, BillingInv, Shown
  <2>. QED
      BY <2>1 DEF Reads, Brings
<1>2. order' = [order EXCEPT ![h.o] = doc]
    BY <1>1 DEF PayOrder
<1>3. doc.status = "PAID"
    BY <1>1 DEF OrderRecord
<1>4. HasItsInvoice(h.o, doc.status)
    BY <1>1, <1>3
<1>5. UNCHANGED <<invoice, subscription>> /\ request' = [request EXCEPT ![r] = Idle]
    BY DEF PayOrder, Finish, Continue
<1>. QED
    BY <1>1, <1>2, <1>4, <1>5, OrderShows, NothingBrought, ShownAfter

(* A step that inserts an invoice.                                         *)
LEMMA InsertShows ==
    ASSUME BillingInv, Shown, NEW r \in Requests, NEW state, request' = [request EXCEPT ![r] = state],
           NEW o, NEW period, NEW units, NEW total,
           invoice' = Append(invoice, NewInvoice(o, period, units, total)),
           UNCHANGED <<order, subscription>>,
           OfItsLines(NewInvoice(o, period, units, total)), Brings(state)'
    PROVE  Shown'
<1>. PICK new : new = NewInvoice(o, period, units, total)
    OBVIOUS
<1>1. invoice \in Seq(InvoiceRecord)
    BY InvoicesTyped
<1>2. /\ \A i \in DOMAIN invoice' : i \in DOMAIN invoice \/ i = Len(invoice) + 1
      /\ \A i \in DOMAIN invoice : i \in DOMAIN invoice' /\ invoice'[i] = invoice[i]
      /\ invoice'[Len(invoice) + 1] = new
    BY <1>1
<1>3. Keeps
    BY <1>2 DEF Keeps
<1>4. ASSUME NEW i \in DOMAIN invoice' PROVE OfItsLines(invoice[i])'
  <2>1. OfItsLines(invoice'[i])
      BY <1>2, <1>4 DEF Shown
  <2>. QED
      BY <2>1 DEF OfItsLines, NoUnits
<1>5. \A p \in Orders : subscription'[p] # None => NextFits(subscription[p])'
    BY DEF Shown, NextFits, Unbilled
<1>6. OrdersShown'
    BY <1>3, InvoiceStays DEF Shown, OrdersShown
<1>. QED
    BY <1>3, <1>4, <1>5, <1>6, ShownAfter

(* What a one-time invoice bills has been ordered.                         *)
LEMMA GenerateInsertShows ==
    ASSUME BillingInv, Shown, NEW r \in Requests, GenerateInsert(r)
    PROVE  Shown'
<1>. PICK h : h = request[r]
    OBVIOUS
<1>. PICK units : units = Billable(h.o, h.snap)
    OBVIOUS
<1>. DEFINE state == [at |-> "generate.save", inserts |-> 0, o |-> h.o, snap |-> h.snap]
            new == NewInvoice(h.o, 0, units, Total[units])
<1>1. /\ h.o \in Orders /\ h.snap \in OrderRecord /\ Bounded(h.o, h.snap)
      /\ units # NoUnits
  <2>1. h.at = "generate.insert" /\ Reads(h) /\ Brings(h)
      BY DEF GenerateInsert, At, BillingInv, Shown
  <2>. QED
      BY <2>1 DEF Reads, Brings
<1>2. /\ invoice' = Append(invoice, new) /\ UNCHANGED <<order, subscription>>
      /\ request' = [request EXCEPT ![r] = state]
    BY DEF GenerateInsert, Continue
<1>3. new.order = h.o /\ new.period = 0 /\ new.units = units
    BY DEF NewInvoice
<1>. HIDE DEF new
<1>4. \E l \in Lines : Ordered[h.o][l] > 0 /\ units[l] > 0
  <2>1. units \in Units /\ \A l \in Lines : units[l] = h.snap.shipped[l] - h.snap.invoiced[l]
      BY <1>1, BillableIsUnits
  <2>2. PICK l \in Lines : units[l] # 0
      BY <1>1, <2>1 DEF Units, NoUnits
  <2>3. /\ h.snap.shipped[l] <= Ordered[h.o][l] /\ units[l] \in Nat
        /\ h.snap.shipped[l] \in Nat /\ h.snap.invoiced[l] \in Nat /\ Ordered[h.o][l] \in Nat
      BY <1>1, <2>1, OrderedType DEF Bounded, OrderRecord, Units
  <2>4. units[l] = h.snap.shipped[l] - h.snap.invoiced[l]
      BY <2>1
  <2>5. units[l] > 0 /\ Ordered[h.o][l] > 0
      BY ONLY <2>2, <2>3, <2>4
  <2>. QED
      BY <2>5
<1>5. OfItsLines(new)
    BY <1>3, <1>4 DEF OfItsLines
<1>6. HasItsInvoice(h.o, "INVOICED")'
  <2>1. invoice \in Seq(InvoiceRecord)
      BY InvoicesTyped
  <2>2. Len(invoice) + 1 \in DOMAIN invoice' /\ invoice'[Len(invoice) + 1] = new
      BY <1>2, <2>1
  <2>. QED
      BY <1>3, <2>2 DEF HasItsInvoice
<1>7. Brings(state)'
    BY <1>6 DEF Brings
<1>. HIDE DEF state
<1>. QED
    BY <1>2, <1>5, <1>7, InsertShows DEF new

(* The invoice of a period bills no unit of a one-time line.               *)
LEMMA PeriodIsOfNoLine ==
    ASSUME NEW o, NEW k \in 1..Horizon, NEW total
    PROVE  OfItsLines(NewInvoice(o, k, NoUnits, total))
BY HorizonType DEF OfItsLines, NewInvoice

(* A schedule that gains an invoice leaves less to bill.                   *)
LEMMA JoinedStillFits ==
    ASSUME NEW doc \in Subscription, NEW k \in 1..Horizon, NEW n, NextFits(doc)
    PROVE  n # 0 => NextFits([doc EXCEPT !.schedule[k].invoice = n])
<1>. PICK new : new = [doc EXCEPT !.schedule[k].invoice = n]
    OBVIOUS
<1>1. doc.schedule \in [1..Horizon -> Entry]
    BY DEF Subscription
<1>2. /\ new.status = doc.status /\ new.next = doc.next
      /\ new.schedule = [doc.schedule EXCEPT ![k].invoice = n]
    BY DEF Subscription
<1>3. ASSUME NEW e \in 1..Horizon, n # 0, new.schedule[e].invoice = 0
      PROVE  doc.schedule[e].invoice = 0
    <2>1. CASE e = k
        BY ONLY <1>1, <1>2, <1>3, <2>1 DEF Entry
    <2>2. CASE e # k
        BY ONLY <1>1, <1>2, <1>3, <2>2
    <2>. QED
        BY <2>1, <2>2
<1>4. n # 0 => Unbilled(new) \subseteq Unbilled(doc)
    BY <1>3 DEF Unbilled
<1>. QED
    BY <1>2, <1>4 DEF NextFits

LEMMA ConvertInvoiceShows ==
    ASSUME BillingInv, Orderly, Shown, NEW r \in Requests, ConvertInvoice(r)
    PROVE  Shown'
<1>. PICK h, n : h = request[r] /\ n = Len(invoice) + 1
    OBVIOUS
<1>. PICK new : new = [h.snap EXCEPT !.schedule[1].invoice = n]
    OBVIOUS
<1>. DEFINE state == [at |-> "subscription.save", inserts |-> 0, o |-> h.o, snap |-> h.snap,
                      new |-> new]
<1>1. h.o \in Orders /\ h.snap \in Subscription /\ h.snap = subscription[h.o]
  <2>1. h.at = "convert.invoice" /\ Reads(h) /\ Alone(h)
      BY DEF ConvertInvoice, At, BillingInv, Orderly
  <2>. QED
      BY <2>1, RecurringType DEF Reads, Alone, Subs
<1>2. /\ invoice' = Append(invoice, NewInvoice(h.o, 1, NoUnits, h.snap.amount))
      /\ UNCHANGED <<order, subscription>> /\ request' = [request EXCEPT ![r] = state]
    BY DEF ConvertInvoice, Continue
<1>3. 1 \in 1..Horizon
    BY HorizonType
<1>4. NextFits(new)
  <2>1. NextFits(h.snap)
      BY <1>1, NoneIsNoRecord DEF Shown
  <2>2. n # 0
      BY InvoicesTyped
  <2>. QED
      BY <1>1, <1>3, <2>1, <2>2, JoinedStillFits
<1>5. Brings(state)'
    BY <1>4 DEF Brings, NextFits, Unbilled
<1>6. OfItsLines(NewInvoice(h.o, 1, NoUnits, h.snap.amount))
    BY <1>3, PeriodIsOfNoLine
<1>. HIDE DEF state
<1>. QED
    BY <1>2, <1>5, <1>6, InsertShows

LEMMA RunInsertShows ==
    ASSUME BillingInv, Orderly, Shown, NEW r \in Requests, RunInsert(r)
    PROVE  Shown'
<1>. PICK h, n : h = request[r] /\ n = Len(invoice) + 1
    OBVIOUS
<1>. PICK k : k = Min(Due(h.o, h.new, h.day))
    OBVIOUS
<1>. PICK state : state = [h EXCEPT !.inserts = @ - 1, !.new.schedule[k].invoice = n]
    OBVIOUS
<1>1. h.at = "run" /\ Reads(h) /\ Brings(h)
    BY DEF RunInsert, At, BillingInv, Shown
<1>2. h.new \in Subscription /\ h.new.status = "ACTIVE"
    BY <1>1 DEF Reads, Brings
<1>3. k \in 1..Horizon
  <2>1. Due(h.o, h.new, h.day) \in SUBSET (1..Horizon) /\ Due(h.o, h.new, h.day) # {}
      BY DueArePeriods DEF RunInsert
  <2>2. Due(h.o, h.new, h.day) \in SUBSET Nat
      BY <2>1
  <2>. QED
      BY <2>1, <2>2, MinIsIn
<1>4. /\ invoice' = Append(invoice, NewInvoice(h.o, k, NoUnits, h.new.schedule[k].amount))
      /\ UNCHANGED <<order, subscription>> /\ request' = [request EXCEPT ![r] = state]
    BY DEF RunInsert, Continue
<1>5. state.at = "run" /\ state.new.status = "ACTIVE"
    BY <1>1, <1>2 DEF Subscription
<1>6. Brings(state)'
    BY <1>5 DEF Brings
<1>7. OfItsLines(NewInvoice(h.o, k, NoUnits, h.new.schedule[k].amount))
    BY <1>3, PeriodIsOfNoLine
<1>. QED
    BY <1>4, <1>6, <1>7, InsertShows

(* A step that writes one subscription.                                    *)
LEMMA SubscriptionShows ==
    ASSUME BillingInv, Shown, NEW r \in Requests, NEW state, request' = [request EXCEPT ![r] = state],
           NEW o \in Orders, NEW doc, subscription' = [subscription EXCEPT ![o] = doc],
           UNCHANGED <<order, invoice>>, NextFits(doc), Brings(state)'
    PROVE  Shown'
<1>1. Keeps
    BY DEF Keeps
<1>2. \A i \in DOMAIN invoice' : OfItsLines(invoice[i])'
    BY DEF Shown, OfItsLines, NoUnits
<1>3. ASSUME NEW p \in Orders, subscription'[p] # None PROVE NextFits(subscription[p])'
  <2>1. subscription'[p] = IF p = o THEN doc ELSE subscription[p]
      BY DEF BillingInv, StoreInv, TypeOK
  <2>2. NextFits(subscription'[p])
      BY <1>3, <2>1 DEF Shown
  <2>. QED
      BY <2>2 DEF NextFits, Unbilled
<1>4. OrdersShown'
    BY <1>1, InvoiceStays DEF Shown, OrdersShown
<1>. QED
    BY <1>1, <1>2, <1>3, <1>4, ShownAfter

LEMMA ConvertSubscribeShows ==
    ASSUME BillingInv, Shown, NEW r \in Requests, ConvertSubscribe(r)
    PROVE  Shown'
<1>. PICK h : h = request[r]
    OBVIOUS
<1>. PICK new : new = NewSubscription(h.o, h.day)
    OBVIOUS
<1>. DEFINE state == [at |-> "convert.invoice", inserts |-> 1, o |-> h.o, snap |-> new]
<1>1. h.o \in Orders /\ h.day \in Int
  <2>1. h.at = "convert.subscribe" /\ Reads(h)
      BY DEF ConvertSubscribe, At, BillingInv
  <2>. QED
      BY <2>1, RecurringType, DatesType DEF Reads, Subs
<1>2. /\ subscription' = [subscription EXCEPT ![h.o] = new] /\ UNCHANGED <<order, invoice>>
      /\ request' = [request EXCEPT ![r] = state]
    BY DEF ConvertSubscribe, Continue
<1>3. NextFits(new)
  <2>1. new.status = "ACTIVE" /\ new.next = h.day
      BY DEF NewSubscription
  <2>. QED
      BY <1>1, <2>1, NoneIsNoRecord DEF NextFits
<1>4. Brings(state)'
    BY DEF Brings
<1>. QED
    BY <1>1, <1>2, <1>3, <1>4, SubscriptionShows

LEMMA SubscriptionSaveShows ==
    ASSUME BillingInv, Orderly, Shown, NEW r \in Requests, SubscriptionSave(r)
    PROVE  Shown'
<1>. PICK h : h = request[r]
    OBVIOUS
<1>1. /\ h.o \in Orders /\ h.snap \in Subscription /\ h.new \in Subscription
      /\ h.snap = subscription[h.o] /\ h.new.start = h.snap.start /\ NextFits(h.new)
  <2>1. h.at = "subscription.save" /\ Reads(h) /\ Alone(h) /\ Brings(h)
      BY DEF SubscriptionSave, At, BillingInv, Orderly, Shown
  <2>. QED
      BY <2>1, RecurringType DEF Reads, Alone, Brings, Subs, Continues
<1>2. /\ subscription' = [subscription EXCEPT ![h.o] = h.new] /\ UNCHANGED <<order, invoice>>
      /\ request' = [request EXCEPT ![r] = Idle]
  <2>1. SubscriptionWritten(subscription[h.o], h.snap, h.new) = h.new
      BY <1>1, WrittenIsNew
  <2>2. /\ subscription' = [subscription EXCEPT ![h.o] = SubscriptionWritten(subscription[h.o], h.snap, h.new)]
        /\ request' = [request EXCEPT ![r] = Idle] /\ UNCHANGED <<order, invoice>>
      BY DEF SubscriptionSave, Finish, Continue
  <2>. QED
      BY <2>1, <2>2
<1>. QED
    BY <1>1, <1>2, NothingBrought, SubscriptionShows

LEMMA IssueCreditShows ==
    ASSUME BillingInv, Shown, NEW r \in Requests, IssueCredit(r)
    PROVE  Shown'
<1>. PICK h : h = request[r]
    OBVIOUS
<1>. DEFINE state == [at |-> "subscription.save", inserts |-> 0, o |-> h.o, snap |-> h.snap,
                      new |-> h.new]
<1>1. h.at = "credit" /\ Brings(h)
    BY DEF IssueCredit, At, Shown
<1>2. UNCHANGED <<order, invoice, subscription>> /\ request' = [request EXCEPT ![r] = state]
    BY DEF IssueCredit, Continue
<1>3. Brings(state)'
    BY <1>1 DEF Brings, NextFits, Unbilled
<1>4. Keeps
    BY <1>2 DEF Keeps
<1>5. \A i \in DOMAIN invoice' : OfItsLines(invoice[i])'
    BY <1>2 DEF Shown, OfItsLines, NoUnits
<1>6. OrdersShown'
    BY <1>2, <1>4, InvoiceStays DEF Shown, OrdersShown
<1>7. \A o \in Orders : subscription'[o] # None => NextFits(subscription[o])'
    BY <1>2 DEF Shown, NextFits, Unbilled
<1>. HIDE DEF state
<1>. QED
    BY <1>2, <1>3, <1>4, <1>5, <1>6, <1>7, ShownAfter

(* The run leaves an active subscription with the date of a period that    *)
(* is not billed yet, and turns to another active one.                     *)
LEMMA RunSaveShows ==
    ASSUME BillingInv, Orderly, Shown, NEW r \in Requests, RunSave(r)
    PROVE  Shown'
<1>. PICK h : h = request[r]
    OBVIOUS
<1>. PICK todo, date : todo = h.todo \ {h.o} /\ date = DateOf(h.o, h.new, Unbilled(h.new))
    OBVIOUS
<1>. PICK doc : doc = [h.new EXCEPT !.next = date]
    OBVIOUS
<1>1. h.at = "run" /\ Brings(h)
    BY DEF RunSave, At, Shown
<1>2. /\ h.todo \in SUBSET Subs /\ h.o \in h.todo /\ h.o \in Orders
      /\ \A s \in h.todo : h.docs[s].status = "ACTIVE"
      /\ h.snap = subscription[h.o] /\ h.snap \in Subscription /\ h.new \in Subscription
      /\ h.new.start = h.snap.start /\ h.new.status = "ACTIVE"
    BY <1>1, RunIsAlone DEF Brings, Continues
<1>3. Unbilled(h.new) \in SUBSET (1..Horizon)
    BY DEF Unbilled
<1>4. date \in Int \cup {None}
    BY <1>2, <1>3, DateIsTyped
<1>5. /\ doc \in Subscription /\ doc.start = h.snap.start /\ doc.status = "ACTIVE"
      /\ doc.next = date /\ doc.schedule = h.new.schedule
    BY <1>2, <1>4 DEF Subscription
<1>6. NextFits(doc)
  <2>1. Unbilled(doc) = Unbilled(h.new)
      BY <1>5 DEF Unbilled
  <2>2. Unbilled(h.new) # {} => date # None
      BY <1>2, <1>3, DateOfSome
  <2>. QED
      BY <1>5, <2>1, <2>2 DEF NextFits
<1>7. RunWritten(h.o, subscription[h.o], h.snap, h.new) = doc
  <2>1. RunWritten(h.o, h.snap, h.snap, h.new) = SubscriptionWritten(h.snap, h.snap, doc)
      BY Zenon DEF RunWritten
  <2>2. SubscriptionWritten(h.snap, h.snap, doc) = doc
      BY <1>2, <1>5, WrittenIsNew
  <2>. QED
      BY <1>2, <2>1, <2>2
<1>8. /\ subscription' = [subscription EXCEPT ![h.o] = doc] /\ UNCHANGED <<order, invoice>>
      /\ \/ request' = [request EXCEPT ![r] = Idle]
         \/ \E o \in todo : request' = [request EXCEPT ![r] = RunState(todo, o, h.docs, h.day)]
    BY <1>7 DEF RunSave, Finish, Continue
<1>9. CASE request' = [request EXCEPT ![r] = Idle]
    BY <1>2, <1>6, <1>8, <1>9, NothingBrought, SubscriptionShows
<1>10. CASE \E o \in todo : request' = [request EXCEPT ![r] = RunState(todo, o, h.docs, h.day)]
  <2>1. PICK o \in todo : request' = [request EXCEPT ![r] = RunState(todo, o, h.docs, h.day)]
      BY <1>10
  <2>. PICK state : state = RunState(todo, o, h.docs, h.day)
      OBVIOUS
  <2>2. state.at = "run" /\ state.new = h.docs[o] /\ h.docs[o].status = "ACTIVE"
      BY <1>2, <2>1 DEF RunState
  <2>3. Brings(state)'
      BY <2>2 DEF Brings
  <2>. QED
      BY <1>2, <1>6, <1>8, <2>1, <2>3, SubscriptionShows
<1>. QED
    BY <1>8, <1>9, <1>10

(* A payment settles an invoice or leaves it unpaid; none is taken for a   *)
(* paid one.                                                               *)
LEMMA PaySaveShows ==
    ASSUME BillingInv, Orderly, Shown, NEW r \in Requests, PaySave(r)
    PROVE  Shown'
<1>. PICK h, cur : h = request[r] /\ cur = invoice[h.i]
    OBVIOUS
<1>. PICK new : new = Received(cur, h.amount)
    OBVIOUS
<1>. PICK doc : doc = InvoiceWritten(cur, cur, new, h.amount)
    OBVIOUS
<1>. DEFINE next == [at |-> "pay.order", inserts |-> 0, o |-> h.snap.order]
<1>1. /\ h.i \in DOMAIN invoice /\ h.snap = cur
      /\ cur \in InvoiceRecord /\ Balanced(cur) /\ Settles(cur)
      /\ h.amount \in Nat /\ h.amount > 0 /\ h.amount <= cur.due
  <2>1. h.at = "pay.save"
      BY DEF PaySave, At
  <2>2. Reads(h) /\ Alone(h) /\ Accounts
      BY DEF BillingInv, Orderly
  <2>3. /\ h.i \in DOMAIN invoice /\ h.snap = cur
        /\ h.amount \in Nat /\ h.amount > 0 /\ h.amount <= h.snap.due
      BY <2>1, <2>2 DEF Reads, Alone
  <2>. QED
      BY <2>2, <2>3, InvoicesTyped DEF Accounts
<1>2. /\ doc.order = cur.order /\ doc.period = cur.period /\ doc.units = cur.units
      /\ doc.status = new.status
    BY <1>1 DEF InvoiceWritten, InvoiceRecord
<1>3. cur.status # "PAID"
    BY <1>1 DEF Settles
<1>4. /\ invoice' = [invoice EXCEPT ![h.i] = doc] /\ UNCHANGED <<order, subscription>>
      /\ \/ /\ cur.period = 0 /\ new.status = "PAID"
            /\ request' = [request EXCEPT ![r] = next]
         \/ request' = [request EXCEPT ![r] = Idle]
    BY <1>1 DEF PaySave, Finish, Continue
<1>5. /\ DOMAIN invoice' = DOMAIN invoice
      /\ \A i \in DOMAIN invoice : invoice'[i] = IF i = h.i THEN doc ELSE invoice[i]
    BY <1>1, <1>4, InvoicesTyped
<1>6. Keeps
    BY <1>2, <1>3, <1>5 DEF Keeps
<1>7. ASSUME NEW i \in DOMAIN invoice' PROVE OfItsLines(invoice[i])'
  <2>1. OfItsLines(invoice[i])
      BY <1>5, <1>7 DEF Shown
  <2>2. /\ invoice'[i].order = invoice[i].order /\ invoice'[i].period = invoice[i].period
        /\ invoice'[i].units = invoice[i].units
      BY <1>2, <1>5, <1>7
  <2>. QED
      BY <2>1, <2>2 DEF OfItsLines, NoUnits
<1>8. OrdersShown'
    BY <1>4, <1>6, InvoiceStays DEF Shown, OrdersShown
<1>9. \A o \in Orders : subscription'[o] # None => NextFits(subscription[o])'
    BY <1>4 DEF Shown, NextFits, Unbilled
<1>10. CASE request' = [request EXCEPT ![r] = Idle]
    BY <1>6, <1>7, <1>8, <1>9, <1>10, NothingBrought, ShownAfter
<1>11. CASE /\ cur.period = 0 /\ new.status = "PAID"
            /\ request' = [request EXCEPT ![r] = next]
  <2>1. HasItsInvoice(h.snap.order, "PAID")'
      BY <1>1, <1>2, <1>5, <1>11 DEF HasItsInvoice
  <2>2. Brings(next)'
      BY <1>4, <2>1 DEF Brings
  <2>. HIDE DEF next
  <2>. QED
      BY <1>6, <1>7, <1>8, <1>9, <1>11, <2>2, ShownAfter
<1>. QED
    BY <1>4, <1>10, <1>11

---------------------------------------------------------------------------
(* The theorem about the pages.                                            *)

LEMMA StartShows ==
    ASSUME BillingInv, Shown, NEW r \in Requests, StartRequest(r)
    PROVE  Shown'
BY ConvertShows, GenerateReadShows, PayReadShows, RunReadShows, ModifyShows, CancelShows,
   PauseShows, ResumeShows
DEF StartRequest, Subs

LEMMA ContinueShows ==
    ASSUME BillingInv, Orderly, Shown, NEW r \in Requests, ContinueRequest(r)
    PROVE  Shown'
BY GenerateInsertShows, GenerateSaveShows, PaySaveShows, PayOrderShows, ConvertSubscribeShows,
   ConvertInvoiceShows, SubscriptionSaveShows, RunInsertShows, RunSaveShows, IssueCreditShows
DEF ContinueRequest

LEMMA NothingChangedShows ==
    ASSUME BillingInv, Shown, UNCHANGED <<order, invoice, subscription, request>>
    PROVE  Shown'
<1>1. Keeps
    BY DEF Keeps
<1>2. \A i \in DOMAIN invoice' : OfItsLines(invoice[i])'
    BY DEF Shown, OfItsLines, NoUnits
<1>3. OrdersShown'
    BY <1>1, InvoiceStays DEF Shown, OrdersShown
<1>4. \A o \in Orders : subscription'[o] # None => NextFits(subscription[o])'
    BY DEF Shown, NextFits, Unbilled
<1>. QED
    BY <1>1, <1>2, <1>3, <1>4, ShownStays

LEMMA PagesStep == BillingInv /\ CalmInv /\ PagesInv /\ [Next]_vars => PagesInv'
<1>. SUFFICES ASSUME BillingInv, CalmInv, PagesInv, [Next]_vars, Calm' PROVE Shown'
    BY DEF PagesInv
<1>1. Orderly /\ Shown
    BY AccidentsNeverGoAway DEF CalmInv, PagesInv
<1>2. ASSUME NEW r \in Requests, StartRequest(r) \/ ContinueRequest(r) \/ Fail(r)
      PROVE  Shown'
    BY <1>1, <1>2, StartShows, ContinueShows, NobodyDiesCalm
<1>3. ASSUME NEW o \in Orders, NEW units \in Units, Ship(o, units)
      PROVE  Shown'
    BY <1>1, <1>3, ShipShows
<1>4. CASE Tick
    BY <1>1, <1>4, NothingChangedShows DEF Tick
<1>5. CASE UNCHANGED vars
    BY <1>1, <1>5, NothingChangedShows DEF vars
<1>. QED
    BY <1>2, <1>3, <1>4, <1>5 DEF Next

LEMMA PagesAtFirst == Init => PagesInv
<1>. SUFFICES ASSUME Init PROVE Shown
    BY DEF PagesInv
<1>1. \A r \in Requests : Brings(request[r])
    BY DEF Init, Brings
<1>2. DOMAIN invoice = {} /\ \A o \in Orders : order[o] = None /\ subscription[o] = None
    BY DEF Init
<1>. QED
    BY <1>1, <1>2 DEF Shown, OrdersShown

LEMMA PaymentsAreOffered ==
    ASSUME BillingInv, Orderly
    PROVE  PaymentIsOfferedWhileOwed
<1>. SUFFICES ASSUME NEW i \in DOMAIN invoice, invoice[i].total > 0
              PROVE  /\ "payment" \in InvoiceOffers(i) <=> i \in Unpaid
                     /\ i \in Unpaid => Received(invoice[i], Balance(i).outstanding).status = "PAID"
    BY DEF PaymentIsOfferedWhileOwed
<1>. PICK doc : doc = invoice[i]
    OBVIOUS
<1>1. /\ doc.total \in Nat /\ doc.paid \in Nat /\ doc.due \in Nat /\ doc.status \in InvoiceStatus
      /\ doc.due = doc.total - doc.paid /\ (doc.status = "PAID") = (doc.due = 0 /\ doc.paid > 0)
      /\ doc \in InvoiceRecord
    BY InvoicesTyped DEF InvoiceRecord, Balanced, Orderly, Accounts, Settles
<1>2. i \in Unpaid <=> doc.status # "PAID"
    BY <1>1 DEF Unpaid, InvoiceStatus
<1>3. "payment" \in InvoiceOffers(i) <=> doc.due > 0
    BY DEF InvoiceOffers, Balance
<1>4. doc.status # "PAID" <=> doc.due > 0
    BY <1>1
<1>5. Received(doc, doc.due).status = "PAID"
    BY <1>1 DEF Received, InvoiceRecord
<1>. QED
    BY <1>2, <1>3, <1>4, <1>5 DEF Balance

LEMMA KindsAreSeparate ==
    ASSUME BillingInv, Orderly, Shown
    PROVE  ArtefactsAreSeparate
<1>. SUFFICES ASSUME NEW i \in DOMAIN invoice, NEW j \in DOMAIN RelatedTable(i)
              PROVE  LET o == invoice[i].order
                     IN  CASE RelatedTable(i)[j].kind = "Recurring" ->
                                invoice[j].units = NoUnits /\ RecurringLines(o) # {}
                           [] RelatedTable(i)[j].kind = "One-time" ->
                                \E l \in OneTimeLines(o) : invoice[j].units[l] > 0
    BY DEF ArtefactsAreSeparate
<1>. PICK o : o = invoice[i].order
    OBVIOUS
<1>1. j \in DOMAIN invoice /\ invoice[j].order = o /\ RelatedTable(i)[j].kind = InvoiceRow(j).kind
    BY DEF RelatedTable, InvoiceTable, InvoicesOf
<1>2. invoice[j].period \in 0..Horizon /\ OfItsLines(invoice[j])
    BY <1>1, InvoicesTyped DEF InvoiceRecord, Shown
<1>3. CASE invoice[j].period = 0
  <2>1. InvoiceRow(j).kind = "One-time"
      BY <1>3 DEF InvoiceRow
  <2>2. \E l \in OneTimeLines(o) : invoice[j].units[l] > 0
      BY <1>1, <1>2, <1>3 DEF OfItsLines, OneTimeLines
  <2>. QED
      BY <1>1, <2>1, <2>2
<1>4. CASE invoice[j].period > 0
  <2>1. InvoiceRow(j).kind = "Recurring"
      BY <1>4 DEF InvoiceRow
  <2>2. invoice[j].units = NoUnits
      BY <1>2, <1>4 DEF OfItsLines
  <2>3. RecurringLines(o) # {}
      BY <1>1, <1>4 DEF RecurringLines, Orderly, Accounts
  <2>. QED
      BY <1>1, <2>1, <2>2, <2>3
<1>5. invoice[j].period = 0 \/ invoice[j].period > 0
    BY <1>2, HorizonType
<1>. QED
    BY <1>3, <1>4, <1>5, Zenon

LEMMA SteppersAreHonest ==
    ASSUME BillingInv, Shown
    PROVE  StepperHasItsInvoice
<1>. SUFFICES ASSUME NEW o \in Orders, order[o] # None
              PROVE  LET oneTime == {i \in InvoicesOf(o) : InvoiceRow(i).kind = "One-time"}
                     IN  /\ "INVOICED" \in Reached(o) => oneTime # {}
                         /\ "PAID" \in Reached(o) => oneTime \cap Paid # {}
    BY DEF StepperHasItsInvoice
<1>. PICK status : status = order[o].status
    OBVIOUS
<1>1. status \in OrderStatus /\ HasItsInvoice(o, status)
    BY DEF BillingInv, StoreInv, TypeOK, OrderRecord, Shown, OrdersShown
<1>2. /\ "INVOICED" \in Reached(o) => status \in {"INVOICED", "PAID"}
      /\ "PAID" \in Reached(o) => status = "PAID"
    BY <1>1 DEF Reached, Stepper, OrderStatus
<1>3. ASSUME NEW i \in DOMAIN invoice, invoice[i].order = o, invoice[i].period = 0
      PROVE  i \in InvoicesOf(o) /\ InvoiceRow(i).kind = "One-time"
    BY <1>3 DEF InvoicesOf, InvoiceRow
<1>4. /\ status \in {"INVOICED", "PAID"} =>
             \E i \in InvoicesOf(o) : InvoiceRow(i).kind = "One-time"
      /\ status = "PAID" => \E i \in InvoicesOf(o) : InvoiceRow(i).kind = "One-time" /\ i \in Paid
    BY <1>1, <1>3 DEF HasItsInvoice, Paid
<1>. QED
    BY <1>2, <1>4

LEMMA ShownFollows == BillingInv /\ CalmInv /\ PagesInv => PagesFollowTheBooks
<1>. SUFFICES ASSUME BillingInv, Orderly, Shown
              PROVE  /\ PaymentIsOfferedWhileOwed /\ ArtefactsAreSeparate
                     /\ StepperHasItsInvoice /\ NextBillIsShown
    BY DEF CalmInv, PagesInv, PagesFollowTheBooks
<1>1. StepperHasItsInvoice
    BY SteppersAreHonest
<1>2. ASSUME NEW o \in Orders, NEW row \in RecurringLines(o)
      PROVE  /\ o \in WithStatus("PAUSED") \cup WithStatus("CANCELLED") => row.next = None
             /\ o \in WithStatus("ACTIVE") /\ Unbilled(subscription[o]) # {} => row.next # None
  <2>1. subscription[o] # None /\ row.next = subscription[o].next
      BY <1>2 DEF RecurringLines, SubscriptionRow
  <2>2. NextFits(subscription[o])
      BY <2>1 DEF Shown
  <2>. QED
      BY <2>1, <2>2 DEF NextFits, WithStatus
<1>3. NextBillIsShown
    BY <1>2 DEF NextBillIsShown
<1>. QED
    BY <1>1, <1>3, PaymentsAreOffered, KindsAreSeparate

(* While handlers neither overlap nor die, nothing is billed twice, and    *)
(* the invoice and subscription pages offer a payment while one is owed,   *)
(* keep one-time and recurring invoices apart, show a stepper that has its *)
(* invoice and a next bill date exactly where one can be billed.           *)
THEOREM BooksAreAlwaysTrue == Spec => []BooksAreTrue
<1>1. Spec => []BillingInv
    BY InitHolds, StepKeeps, PTL DEF Spec
<1>2. Spec => []CalmInv
    BY <1>1, CalmAtFirst, CalmStep, PTL DEF Spec
<1>3. Spec => []PagesInv
    BY <1>1, <1>2, PagesAtFirst, PagesStep, PTL DEF Spec
<1>4. BillingInv /\ CalmInv /\ PagesInv => BooksAreTrue
    BY OrderlyBillsOnce, ShownFollows DEF BooksAreTrue
<1>. QED
    BY <1>1, <1>2, <1>3, <1>4, PTL
---------------------------------------------------------------------------
(* Sums.  SumFunctionOnSet is what CHOOSE finds for a recursive equation    *)
(* over the subsets of its set; that the equation has a solution, and that  *)
(* every solution agrees on every subset, is shown by induction on the      *)
(* strict subset ordering, for a set P of subsets and no operator of it.    *)

(* The element the sum takes out, and the equation.                         *)
Chosen(s) == CHOOSE x \in s : TRUE
Iterates(f, g, S) ==
    g = [s \in SUBSET S |-> IF s = {} THEN 0 ELSE f[Chosen(s)] + g[s \ {Chosen(s)}]]

(* The library's sum, with its folds expanded.                             *)
LEMMA SumIsIteration ==
    ASSUME NEW f, NEW S
    PROVE  SumFunctionOnSet(f, S) = (CHOOSE g : Iterates(f, g, S))[S]
BY DEF SumFunctionOnSet, FoldFunctionOnSet, MapThenFoldSet, Iterates, Chosen

(* A set of subsets that holds each one whose strict subsets it holds.     *)
LEMMA SubsetInduction ==
    ASSUME NEW S, IsFiniteSet(S), NEW P,
           \A T \in SUBSET S : (\A U \in SUBSET T : U # T => U \in P) => T \in P
    PROVE  SUBSET S \subseteq P
<1>. DEFINE R == StrictSubsetOrdering(S)
            Bad == (SUBSET S) \ P
<1>1. IsWellFoundedOn(R, FiniteSubsetsOf(S))
    BY FS_StrictSubsetOrderingWellFounded
<1>2. SUFFICES ASSUME Bad # {} PROVE FALSE
    OBVIOUS
<1>3. FiniteSubsetsOf(S) = SUBSET S
    BY FS_Subset DEF FiniteSubsetsOf
<1>4. Bad \subseteq SUBSET S
    OBVIOUS
<1>. HIDE DEF R, Bad
<1>5. PICK T \in Bad : \A U \in Bad : ~(<<U, T>> \in R)
    BY <1>1, <1>2, <1>3, <1>4, WFMin
<1>6. \A U \in SUBSET T : U # T => U \in P
    BY <1>4, <1>5 DEF R, StrictSubsetOrdering, Bad
<1>. QED
    BY <1>5, <1>6 DEF Bad

(* A sum is a summand and the sum of the others.                           *)
LEMMA SumUnfolds ==
    ASSUME NEW f, NEW S, IsFiniteSet(S)
    PROVE  SumFunctionOnSet(f, S) =
               IF S = {} THEN 0 ELSE f[Chosen(S)] + SumFunctionOnSet(f, S \ {Chosen(S)})
<1>. DEFINE Sum(T) == SumFunctionOnSet(f, T)
            Unfolds(T) == Sum(T) = IF T = {} THEN 0 ELSE f[Chosen(T)] + Sum(T \ {Chosen(T)})
            Unique(T) == \A g : Iterates(f, g, T) => \A s \in SUBSET T : g[s] = Sum(s)
            P == {T \in SUBSET S : Unfolds(T) /\ Unique(T)}
<1>1. ASSUME NEW T \in SUBSET S, \A U \in SUBSET T : U # T => U \in P
      PROVE  T \in P
    <2>. DEFINE H == [s \in SUBSET T |-> IF s = {} THEN 0 ELSE f[Chosen(s)] + Sum(s \ {Chosen(s)})]
    <2>1. \A s \in SUBSET T : s # {} => s \ {Chosen(s)} \in SUBSET T /\ s \ {Chosen(s)} # T
                                        /\ Chosen(s) \in s
        BY DEF Chosen
    <2>2. ASSUME NEW s \in SUBSET T, s # T PROVE H[s] = Sum(s)
        <3>. HIDE DEF Sum
        <3>. QED
            BY <1>1, <2>2
    <2>3. Iterates(f, H, T)
        <3>. HIDE DEF H
        <3>1. \A s \in SUBSET T : H[s] = IF s = {} THEN 0 ELSE f[Chosen(s)] + H[s \ {Chosen(s)}]
            <4>. SUFFICES ASSUME NEW s \in SUBSET T
                          PROVE  H[s] = IF s = {} THEN 0 ELSE f[Chosen(s)] + H[s \ {Chosen(s)}]
                OBVIOUS
            <4>1. CASE s = {}
                BY <4>1 DEF H
            <4>2. CASE s # {}
                <5>1. H[s \ {Chosen(s)}] = Sum(s \ {Chosen(s)})
                    BY <2>1, <2>2, <4>2
                <5>2. H[s] = f[Chosen(s)] + Sum(s \ {Chosen(s)})
                    BY <4>2 DEF H
                <5>. QED
                    BY <4>2, <5>1, <5>2
            <4>. QED
                BY <4>1, <4>2
        <3>2. H = [s \in SUBSET T |-> H[s]]
            BY DEF H
        <3>. QED
            BY <3>1, <3>2 DEF Iterates
    <2>4. ASSUME NEW g, Iterates(f, g, T), NEW s \in SUBSET T, s # T
          PROVE  g[s] = Sum(s)
        <3>. DEFINE h == [u \in SUBSET s |-> g[u]]
        <3>1. Iterates(f, h, s)
            <4>1. \A u \in SUBSET s : g[u] = IF u = {} THEN 0 ELSE f[Chosen(u)] + g[u \ {Chosen(u)}]
                BY <2>4 DEF Iterates
            <4>2. \A u \in SUBSET s : h[u] = g[u] /\ h[u \ {Chosen(u)}] = g[u \ {Chosen(u)}]
                OBVIOUS
            <4>3. \A u \in SUBSET s : h[u] = IF u = {} THEN 0 ELSE f[Chosen(u)] + h[u \ {Chosen(u)}]
                BY <4>1, <4>2
            <4>4. h = [u \in SUBSET s |-> h[u]]
                OBVIOUS
            <4>. HIDE DEF h
            <4>. QED
                BY <4>3, <4>4 DEF Iterates
        <3>2. Unique(s)
            BY <1>1, <2>4
        <3>3. h[s] = Sum(s)
            <4>. HIDE DEF h, Sum
            <4>. QED
                BY <3>1, <3>2
        <3>. QED
            BY <3>3
    <2>5. ASSUME NEW g, Iterates(f, g, T) PROVE g[T] = H[T]
        <3>1. g[T] = IF T = {} THEN 0 ELSE f[Chosen(T)] + g[T \ {Chosen(T)}]
            BY <2>5 DEF Iterates
        <3>2. T # {} => g[T \ {Chosen(T)}] = Sum(T \ {Chosen(T)})
            BY <2>1, <2>4, <2>5
        <3>. QED
            BY <3>1, <3>2
    <2>6. Sum(T) = H[T]
        <3>. DEFINE i == CHOOSE g : Iterates(f, g, T)
        <3>1. Iterates(f, i, T)
            <4>. HIDE DEF H
            <4>. QED
                BY <2>3
        <3>2. Sum(T) = i[T]
            BY SumIsIteration
        <3>. HIDE DEF i, H, Sum
        <3>. QED
            BY <2>5, <3>1, <3>2
    <2>7. Unfolds(T)
        BY <2>6
    <2>8. Unique(T)
        <3>. HIDE DEF H, Sum
        <3>. QED
            BY <2>4, <2>5, <2>6
    <2>. QED
        BY <2>7, <2>8
<1>. HIDE DEF P
<1>2. SUBSET S \subseteq P
    BY <1>1, SubsetInduction
<1>. QED
    BY <1>2 DEF P

LEMMA SumOfNothing ==
    ASSUME NEW f
    PROVE  SumFunctionOnSet(f, {}) = 0
BY SumUnfolds, FS_EmptySet

(* Whichever element is taken out first, the rest is its sum.              *)
LEMMA SumWithout ==
    ASSUME NEW f, NEW S, IsFiniteSet(S), \A y \in S : f[y] \in Int
    PROVE  /\ SumFunctionOnSet(f, S) \in Int
           /\ \A x \in S : SumFunctionOnSet(f, S) = f[x] + SumFunctionOnSet(f, S \ {x})
<1>. DEFINE Sum(T) == SumFunctionOnSet(f, T)
            P == {T \in SUBSET S : /\ Sum(T) \in Int
                                   /\ \A x \in T : Sum(T) = f[x] + Sum(T \ {x})}
<1>1. ASSUME NEW T \in SUBSET S, \A U \in SUBSET T : U # T => U \in P
      PROVE  T \in P
    <2>. DEFINE c == Chosen(T)
    <2>1. Sum(T) = IF T = {} THEN 0 ELSE f[c] + Sum(T \ {c})
        BY SumUnfolds, FS_Subset
    <2>2. T # {} => c \in T
        BY DEF Chosen
    <2>3. \A U \in SUBSET T : U # T => Sum(U) \in Int /\ \A x \in U : Sum(U) = f[x] + Sum(U \ {x})
        BY <1>1
    <2>. HIDE DEF c, Sum
    <2>4. Sum(T) \in Int
        BY <2>1, <2>2, <2>3
    <2>5. ASSUME NEW x \in T, x # c PROVE Sum(T) = f[x] + Sum(T \ {x})
        <3>1. /\ T \ {c} \in SUBSET T /\ T \ {c} # T /\ x \in T \ {c}
              /\ T \ {x} \in SUBSET T /\ T \ {x} # T /\ c \in T \ {x}
              /\ (T \ {c}) \ {x} = (T \ {x}) \ {c}
              /\ (T \ {x}) \ {c} \in SUBSET T /\ (T \ {x}) \ {c} # T
            BY <2>2, <2>5
        <3>2. Sum(T \ {c}) = f[x] + Sum((T \ {c}) \ {x})
            BY <2>3, <3>1
        <3>3. Sum(T \ {x}) = f[c] + Sum((T \ {x}) \ {c})
            BY <2>3, <3>1
        <3>4. Sum((T \ {x}) \ {c}) \in Int /\ f[c] \in Int /\ f[x] \in Int /\ T # {}
            BY <2>2, <2>3, <3>1
        <3>5. Sum((T \ {c}) \ {x}) = Sum((T \ {x}) \ {c})
            BY <3>1
        <3>. QED
            BY <2>1, <3>2, <3>3, <3>4, <3>5
    <2>6. \A x \in T : Sum(T) = f[x] + Sum(T \ {x})
        BY <2>1, <2>5
    <2>. QED
        BY <2>4, <2>6
<1>2. SUBSET S \subseteq P
    <2>. HIDE DEF P
    <2>. QED
        BY <1>1, SubsetInduction
<1>. HIDE DEF Sum
<1>. QED
    BY <1>2 DEF Sum

(* Only the summands count.                                                *)
LEMMA SumAgrees ==
    ASSUME NEW f, NEW g, NEW S, IsFiniteSet(S),
           \A x \in S : f[x] \in Int /\ g[x] = f[x]
    PROVE  SumFunctionOnSet(g, S) = SumFunctionOnSet(f, S)
<1>. DEFINE F(T) == SumFunctionOnSet(f, T)
            G(T) == SumFunctionOnSet(g, T)
            P == {T \in SUBSET S : G(T) = F(T)}
<1>1. ASSUME NEW T \in SUBSET S, \A U \in SUBSET T : U # T => U \in P
      PROVE  T \in P
    <2>. DEFINE c == Chosen(T)
    <2>1. /\ F(T) = IF T = {} THEN 0 ELSE f[c] + F(T \ {c})
          /\ G(T) = IF T = {} THEN 0 ELSE g[c] + G(T \ {c})
        BY SumUnfolds, FS_Subset
    <2>2. T # {} => c \in T
        BY DEF Chosen
    <2>. HIDE DEF c, F, G
    <2>. QED
        BY <1>1, <2>1, <2>2
<1>2. SUBSET S \subseteq P
    <2>. HIDE DEF P
    <2>. QED
        BY <1>1, SubsetInduction
<1>. HIDE DEF F, G
<1>. QED
    BY <1>2 DEF F, G

---------------------------------------------------------------------------
(* The units of an order.  Undisturbed, what its invoices bill is what it  *)
(* records as invoiced, and what a handler is about to record.             *)

Saves(h, o) == h.at = "generate.save" /\ h.o = o
Generates(h) == h.at \in {"generate.insert", "generate.save"}

UnitsCounted ==
    \A o \in Orders, l \in Lines : order[o] # None =>
        /\ (\A r \in Requests : ~Saves(request[r], o)) =>
               UnitsBilled(o, l) = order[o].invoiced[l]
        /\ \A r \in Requests : Saves(request[r], o) =>
               UnitsBilled(o, l) = order[o].invoiced[l] + Billable(o, request[r].snap)[l]

CountersRead ==
    \A r \in Requests : Generates(request[r]) =>
        request[r].snap.invoiced = order[request[r].o].invoiced

UnitsInv == Calm => UnitsCounted /\ CountersRead

(* Sums of units before and after a step.                                  *)
OrderInvoices(o) == {i \in DOMAIN invoice : invoice[i].order = o}

LEMMA InvoicesAreFinite ==
    ASSUME BillingInv, NEW o
    PROVE  /\ IsFiniteSet(OrderInvoices(o))
           /\ \A i \in OrderInvoices(o), l \in Lines : i \in DOMAIN invoice /\ invoice[i].units[l] \in Nat
<1>1. invoice \in Seq(InvoiceRecord)
    BY DEF BillingInv, StoreInv, TypeOK
<1>2. DOMAIN invoice = 1..Len(invoice) /\ Len(invoice) \in Nat
    BY <1>1
<1>3. IsFiniteSet(DOMAIN invoice)
    BY <1>2, FS_Interval
<1>4. OrderInvoices(o) \in SUBSET DOMAIN invoice
    BY DEF OrderInvoices
<1>5. ASSUME NEW i \in DOMAIN invoice, NEW l \in Lines PROVE invoice[i].units[l] \in Nat
  <2>1. invoice[i] \in InvoiceRecord
      BY <1>1
  <2>2. invoice[i].units[l] \in 0..MaxUnits
      BY <2>1 DEF InvoiceRecord, Units
  <2>. QED
      BY <2>2, OrderedType
<1>. QED
    BY <1>3, <1>4, <1>5, FS_Subset

LEMMA SameInvoicesBillTheSame ==
    ASSUME BillingInv, DOMAIN invoice' = DOMAIN invoice,
           \A i \in DOMAIN invoice : /\ invoice'[i].order = invoice[i].order
                                     /\ invoice'[i].units = invoice[i].units,
           NEW o \in Orders, NEW l \in Lines
    PROVE  UnitsBilled(o, l)' = UnitsBilled(o, l)
<1>. DEFINE f == [i \in DOMAIN invoice |-> invoice[i].units[l]]
            g == [i \in DOMAIN invoice' |-> invoice'[i].units[l]]
<1>1. {i \in DOMAIN invoice' : invoice'[i].order = o} = OrderInvoices(o)
    BY DEF OrderInvoices
<1>2. \A i \in OrderInvoices(o) : f[i] \in Int /\ g[i] = f[i]
    BY InvoicesAreFinite
<1>3. SumFunctionOnSet(g, OrderInvoices(o)) = SumFunctionOnSet(f, OrderInvoices(o))
    <2>. HIDE DEF f, g
    <2>. QED
        BY <1>2, InvoicesAreFinite, SumAgrees
<1>. QED
    BY <1>1, <1>3 DEF UnitsBilled, OrderInvoices

LEMMA AnotherInvoiceBillsMore ==
    ASSUME BillingInv, NEW p \in Orders, NEW period \in Int, NEW units \in Units, NEW total,
           invoice' = Append(invoice, NewInvoice(p, period, units, total)),
           NEW o \in Orders, NEW l \in Lines
    PROVE  UnitsBilled(o, l)' = UnitsBilled(o, l) + IF o = p THEN units[l] ELSE 0
<1>. DEFINE f == [i \in DOMAIN invoice |-> invoice[i].units[l]]
            g == [i \in DOMAIN invoice' |-> invoice'[i].units[l]]
            n == Len(invoice) + 1
            S == OrderInvoices(o)
            T == {i \in DOMAIN invoice' : invoice'[i].order = o}
            new == NewInvoice(p, period, units, total)
<1>1. new.order = p /\ new.units = units /\ units[l] \in Int
    BY DEF NewInvoice, Units
<1>2. invoice \in Seq(InvoiceRecord)
    BY DEF BillingInv, StoreInv, TypeOK
<1>3. /\ DOMAIN invoice' = DOMAIN invoice \cup {n} /\ n \notin DOMAIN invoice
      /\ \A i \in DOMAIN invoice : invoice'[i] = invoice[i]
      /\ invoice'[n] = new
    <2>. HIDE DEF new
    <2>. QED
        BY <1>2 DEF new
<1>4. T = IF o = p THEN S \cup {n} ELSE S
    BY <1>1, <1>3 DEF OrderInvoices
<1>5. \A i \in S : f[i] \in Int /\ g[i] = f[i]
    BY <1>3, InvoicesAreFinite
<1>6. g[n] = units[l] /\ n \notin S
    BY <1>1, <1>3 DEF OrderInvoices
<1>7. IsFiniteSet(S)
    BY InvoicesAreFinite
<1>8. UnitsBilled(o, l) = SumFunctionOnSet(f, S) /\ UnitsBilled(o, l)' = SumFunctionOnSet(g, T)
    BY DEF UnitsBilled, OrderInvoices
<1>. HIDE DEF f, g, n, S, T
<1>9. SumFunctionOnSet(g, S) = SumFunctionOnSet(f, S) /\ SumFunctionOnSet(f, S) \in Int
    BY <1>5, <1>7, SumAgrees, SumWithout
<1>10. CASE o = p
  <2>1. IsFiniteSet(T) /\ T \ {n} = S /\ n \in T
      BY <1>4, <1>6, <1>7, <1>10, FS_AddElement
  <2>2. \A i \in T : g[i] \in Int
      BY <1>1, <1>4, <1>5, <1>6, <1>10
  <2>3. SumFunctionOnSet(g, T) = g[n] + SumFunctionOnSet(g, T \ {n})
      BY <2>1, <2>2, SumWithout
  <2>4. SumFunctionOnSet(g, T \ {n}) = SumFunctionOnSet(f, S)
      BY <1>9, <2>1
  <2>5. UnitsBilled(o, l)' = units[l] + UnitsBilled(o, l)
      BY <1>6, <1>8, <2>3, <2>4
  <2>6. UnitsBilled(o, l) \in Int
      BY <1>8, <1>9
  <2>. QED
      BY <1>1, <1>10, <2>5, <2>6
<1>11. CASE o # p
    BY <1>4, <1>8, <1>9, <1>11
<1>. QED
    BY <1>10, <1>11

LEMMA NothingIsBilledBeforehand ==
    ASSUME BillingInv, NEW o \in Orders, order[o] = None, NEW l \in Lines
    PROVE  UnitsBilled(o, l) = 0
<1>1. OrderInvoices(o) = {}
    BY NoneIsNoRecord DEF OrderInvoices, BillingInv, StoreInv
<1>. QED
    BY <1>1, SumOfNothing DEF UnitsBilled, OrderInvoices

LEMMA BilledIsInt ==
    ASSUME BillingInv, NEW o \in Orders, NEW l \in Lines
    PROVE  UnitsBilled(o, l) \in Int
<1>. DEFINE f == [i \in DOMAIN invoice |-> invoice[i].units[l]]
<1>1. \A i \in OrderInvoices(o) : f[i] \in Int
    BY InvoicesAreFinite
<1>2. SumFunctionOnSet(f, OrderInvoices(o)) \in Int
  <2>. HIDE DEF f
  <2>. QED
      BY <1>1, InvoicesAreFinite, SumWithout
<1>. QED
    BY <1>2 DEF UnitsBilled, OrderInvoices

(* A step that bills nothing.                                              *)
LEMMA CountedAsBefore ==
    ASSUME BillingInv, UnitsCounted, CountersRead,
           \A o \in Orders, l \in Lines : UnitsBilled(o, l)' = UnitsBilled(o, l),
           \A o \in Orders : order'[o] # None =>
               \/ order[o] # None /\ order'[o].invoiced = order[o].invoiced
               \/ order[o] = None /\ order'[o].invoiced = NoUnits,
           \A o \in Orders : order[o] # None => order'[o] # None,
           \A q \in Requests :
               \/ request'[q] = request[q]
               \/ /\ request[q].at # "generate.save" /\ request'[q].at # "generate.save"
                  /\ Generates(request'[q]) =>
                         request'[q].snap.invoiced = order'[request'[q].o].invoiced
    PROVE  UnitsCounted' /\ CountersRead'
<1>1. ASSUME NEW q \in Requests, NEW o
      PROVE  Saves(request'[q], o) <=> Saves(request[q], o)
    BY DEF Saves
<1>2. \A q \in Requests, o \in Orders : Saves(request'[q], o) => request'[q] = request[q]
    BY DEF Saves
<1>5. ASSUME NEW q \in Requests, NEW o \in Orders, Saves(request[q], o) PROVE order[o] # None
  <2>1. order[o] \in OrderRecord
      BY <1>5 DEF BillingInv, Reads, Saves
  <2>. QED
      BY <2>1, NoneIsNoRecord
<1>3. UnitsCounted'
  <2>1. ASSUME NEW o \in Orders, NEW l \in Lines, order'[o] # None,
               \A r \in Requests : ~Saves(request'[r], o)
        PROVE  UnitsBilled(o, l)' = order'[o].invoiced[l]
    <3>1. \A r \in Requests : ~Saves(request[r], o)
        BY <1>1, <2>1
    <3>2. CASE order[o] # None
        BY <2>1, <3>1, <3>2 DEF UnitsCounted
    <3>3. CASE order[o] = None
      <4>1. order'[o].invoiced[l] = 0
          BY <2>1, <3>3 DEF NoUnits
      <4>. QED
          BY <3>3, <4>1, NothingIsBilledBeforehand
    <3>. QED
        BY <3>2, <3>3
  <2>2. ASSUME NEW o \in Orders, NEW l \in Lines, order'[o] # None,
               NEW r \in Requests, Saves(request'[r], o)
        PROVE  UnitsBilled(o, l)' = order'[o].invoiced[l] + Billable(o, request'[r].snap)[l]
    <3>1. Saves(request[r], o) /\ request'[r] = request[r] /\ order[o] # None
        BY <1>1, <1>2, <1>5, <2>2
    <3>. QED
        BY <2>2, <3>1 DEF UnitsCounted
  <2>. QED
      BY <2>1, <2>2 DEF UnitsCounted, Saves, Billable
<1>4. ASSUME NEW q \in Requests, Generates(request'[q])
      PROVE  request'[q].snap.invoiced = order'[request'[q].o].invoiced
  <2>1. CASE request'[q] = request[q]
    <3>1. request[q].o \in Orders /\ order[request[q].o] \in OrderRecord
        BY <1>4, <2>1 DEF BillingInv, Reads, Generates
    <3>2. order'[request[q].o].invoiced = order[request[q].o].invoiced
        BY <3>1, NoneIsNoRecord
    <3>. QED
        BY <1>4, <2>1, <3>2 DEF CountersRead
  <2>. QED
      BY <1>4, <2>1
<1>. QED
    BY <1>3, <1>4 DEF CountersRead, Generates

LEMMA SlotsAround ==
    ASSUME BillingInv, NEW r \in Requests, NEW state, request' = [request EXCEPT ![r] = state]
    PROVE  request'[r] = state /\ \A q \in Requests : q # r => request'[q] = request[q]
BY DEF BillingInv

(* The same invoices and counters, and a handler that generates none.      *)
LEMMA CountersAlone ==
    ASSUME BillingInv, UnitsCounted, CountersRead, UNCHANGED <<order, invoice>>,
           NEW r \in Requests, request[r].at # "generate.save",
           NEW state, request' = [request EXCEPT ![r] = state], ~Generates(state)
    PROVE  UnitsCounted' /\ CountersRead'
<1>1. \A o \in Orders, l \in Lines : UnitsBilled(o, l)' = UnitsBilled(o, l)
    BY SameInvoicesBillTheSame
<1>2. request'[r] = state /\ \A q \in Requests : q # r => request'[q] = request[q]
    BY SlotsAround
<1>. QED
    BY <1>1, <1>2, CountedAsBefore DEF Generates

LEMMA StartCounts ==
    ASSUME BillingInv, UnitsCounted, CountersRead, NEW r \in Requests, StartRequest(r)
    PROVE  UnitsCounted' /\ CountersRead'
<1>0. ASSUME NEW state, Begin(r, state)
      PROVE  /\ request[r].at # "generate.save" /\ request' = [request EXCEPT ![r] = state]
             /\ request'[r] = state /\ \A q \in Requests : q # r => request'[q] = request[q]
  <2>1. request[r] = Idle /\ request' = [request EXCEPT ![r] = state]
      BY <1>0 DEF Begin
  <2>2. request'[r] = state /\ \A q \in Requests : q # r => request'[q] = request[q]
      BY <2>1, SlotsAround
  <2>. QED
      BY <2>1, <2>2 DEF Idle
<1>1. ASSUME NEW o \in Orders, Convert(r, o) PROVE UnitsCounted' /\ CountersRead'
  <2>1. /\ order[o] = None /\ invoice' = invoice
        /\ order' = [order EXCEPT ![o] =
               [status |-> "CONFIRMED", shipped |-> NoUnits, invoiced |-> NoUnits]]
      BY <1>1 DEF Convert
  <2>2. /\ order'[o].invoiced = NoUnits /\ order'[o] # None
        /\ \A p \in Orders : p # o => order'[p] = order[p]
    <3>1. \A p \in Orders : p # o => order'[p] = order[p]
        BY <2>1 DEF BillingInv, StoreInv, TypeOK
    <3>2. order'[o] = [status |-> "CONFIRMED", shipped |-> NoUnits, invoiced |-> NoUnits]
        BY <2>1 DEF BillingInv, StoreInv, TypeOK
    <3>3. NoUnits \in Units
        BY OrderedType DEF NoUnits, Units
    <3>4. order'[o] \in OrderRecord
        BY <3>2, <3>3 DEF OrderRecord, OrderStatus
    <3>. QED
        BY <3>1, <3>2, <3>4, NoneIsNoRecord
  <2>3. \A p \in Orders, l \in Lines : UnitsBilled(p, l)' = UnitsBilled(p, l)
      BY <2>1, SameInvoicesBillTheSame
  <2>4. \A q \in Requests :
            \/ request'[q] = request[q]
            \/ request[q].at # "generate.save" /\ ~Generates(request'[q])
    <3>1. CASE UNCHANGED request
        BY <3>1
    <3>2. CASE Begin(r, [at |-> "convert.subscribe", inserts |-> 1, o |-> o, day |-> clock])
        BY <1>0, <3>2 DEF Generates
    <3>. QED
        BY <1>1, <3>1, <3>2 DEF Convert
  <2>. QED
      BY <2>1, <2>2, <2>3, <2>4, CountedAsBefore DEF Generates
<1>2. ASSUME NEW o \in Orders, GenerateRead(r, o) PROVE UnitsCounted' /\ CountersRead'
  <2>. DEFINE state == [at |-> "generate.insert", inserts |-> 1, o |-> o, snap |-> order[o]]
  <2>1. Begin(r, state) /\ UNCHANGED <<order, invoice>>
      BY <1>2 DEF GenerateRead, store
  <2>2. state.at = "generate.insert" /\ state.snap.invoiced = order'[state.o].invoiced
      BY <2>1
  <2>. HIDE DEF state
  <2>3. \A p \in Orders, l \in Lines : UnitsBilled(p, l)' = UnitsBilled(p, l)
      BY <2>1, SameInvoicesBillTheSame
  <2>. QED
      BY <1>0, <2>1, <2>2, <2>3, CountedAsBefore
<1>3. ASSUME NEW state, Begin(r, state), UNCHANGED store, ~Generates(state)
      PROVE  UnitsCounted' /\ CountersRead'
    BY <1>0, <1>3, CountersAlone DEF store
<1>4. ASSUME NEW i \in DOMAIN invoice, NEW amount \in Amounts, PayRead(r, i, amount)
      PROVE  UnitsCounted' /\ CountersRead'
    BY <1>3, <1>4 DEF PayRead, Generates
<1>5. ASSUME RunRead(r) PROVE UnitsCounted' /\ CountersRead'
  <2>1. \E state : Begin(r, state) /\ state.at = "run" /\ UNCHANGED store
      BY <1>5 DEF RunRead, RunState
  <2>. QED
      BY <1>3, <2>1 DEF Generates
<1>6. ASSUME NEW o, NEW credit, NEW new, ChangeThenSave(r, o, credit, new)
      PROVE  UnitsCounted' /\ CountersRead'
    BY <1>3, <1>6 DEF ChangeThenSave, Generates
<1>7. ASSUME NEW o \in DOMAIN Recurring, Modify(r, o) \/ Cancel(r, o) \/ Pause(r, o) \/ Resume(r, o)
      PROVE  UnitsCounted' /\ CountersRead'
    BY <1>6, <1>7 DEF Modify, Cancel, Pause, Resume
<1>. QED
    BY <1>1, <1>2, <1>4, <1>5, <1>7 DEF StartRequest

(* The invoice of what was read, and its record.                           *)
LEMMA GenerateInsertCounts ==
    ASSUME BillingInv, Orderly, UnitsCounted, CountersRead, NEW r \in Requests, GenerateInsert(r)
    PROVE  UnitsCounted' /\ CountersRead'
<1>. PICK h : h = request[r]
    OBVIOUS
<1>. DEFINE units == Billable(h.o, h.snap)
            state == [at |-> "generate.save", inserts |-> 0, o |-> h.o, snap |-> h.snap]
<1>1. /\ h.o \in Orders /\ h.at = "generate.insert" /\ request[r] # Idle
      /\ units \in Units
    BY BillableIsUnits DEF BillingInv, Reads, GenerateInsert, At, Idle
<1>2. /\ invoice' = Append(invoice, NewInvoice(h.o, 0, units, Total[units]))
      /\ order' = order /\ request' = [request EXCEPT ![r] = state]
    BY DEF GenerateInsert, Continue
<1>3. request'[r] = state /\ \A q \in Requests : q # r => request[q] = Idle /\ request'[q] = Idle
    BY <1>1, <1>2, OnlyOneBusy, SlotsAround
<1>4. \A q \in Requests, o \in Orders : ~Saves(request[q], o)
    BY <1>1, <1>3 DEF Saves, Idle
<1>5. /\ \A q \in Requests, o \in Orders : Saves(request'[q], o) <=> q = r /\ o = h.o
      /\ \A q \in Requests : Generates(request'[q]) => q = r
    BY <1>1, <1>3 DEF Saves, Generates, Idle
<1>6. \A o \in Orders, l \in Lines :
          UnitsBilled(o, l)' = UnitsBilled(o, l) + IF o = h.o THEN units[l] ELSE 0
  <2>. TAKE o \in Orders, l \in Lines
  <2>1. PICK total : total = Total[units]
      OBVIOUS
  <2>2. h.o \in Orders /\ units \in Units /\ 0 \in Int
      BY <1>1
  <2>3. invoice' = Append(invoice, NewInvoice(h.o, 0, units, total))
      BY <1>2, <2>1
  <2>. HIDE DEF units, state
  <2>. QED
      BY <2>2, <2>3, AnotherInvoiceBillsMore
<1>7. \A o \in Orders, l \in Lines : order[o] # None => UnitsBilled(o, l) = order[o].invoiced[l]
    BY <1>4 DEF UnitsCounted
<1>8. state.snap = h.snap /\ state.o = h.o
    OBVIOUS
<1>9. \A o \in Orders, l \in Lines : UnitsBilled(o, l) \in Int
    BY BilledIsInt
<1>10. UnitsCounted'
  <2>1. ASSUME NEW o \in Orders, NEW l \in Lines, order'[o] # None,
               \A q \in Requests : ~Saves(request'[q], o)
        PROVE  UnitsBilled(o, l)' = order'[o].invoiced[l]
    <3>1. o # h.o
        BY <1>5, <2>1
    <3>. QED
        BY <1>2, <1>6, <1>7, <1>9, <2>1, <3>1
  <2>2. ASSUME NEW o \in Orders, NEW l \in Lines, order'[o] # None,
               NEW q \in Requests, Saves(request'[q], o)
        PROVE  UnitsBilled(o, l)' = order'[o].invoiced[l] + Billable(o, request'[q].snap)[l]
    <3>1. q = r /\ o = h.o
        BY <1>5, <2>2
    <3>2. UnitsBilled(o, l)' = order[o].invoiced[l] + units[l]
        BY <1>2, <1>6, <1>7, <2>2, <3>1
    <3>. QED
        BY <1>2, <1>3, <1>8, <3>1, <3>2
  <2>. QED
      BY <2>1, <2>2 DEF UnitsCounted, Saves, Billable
<1>11. CountersRead'
  <2>1. h.snap.invoiced = order[h.o].invoiced
      BY <1>1 DEF CountersRead, Generates
  <2>. QED
      BY <1>2, <1>3, <1>5, <1>8, <2>1 DEF CountersRead, Generates
<1>. QED
    BY <1>10, <1>11

LEMMA GenerateSaveCounts ==
    ASSUME BillingInv, Orderly, UnitsCounted, CountersRead, NEW r \in Requests, GenerateSave(r)
    PROVE  UnitsCounted' /\ CountersRead'
<1>. PICK h : h = request[r]
    OBVIOUS
<1>. DEFINE written == InvoicedWritten(h.o, order[h.o], h.snap)
<1>1. /\ h.o \in Orders /\ h.at = "generate.save" /\ request[r] # Idle
      /\ order[h.o] \in OrderRecord /\ h.snap \in OrderRecord /\ Bounded(h.o, h.snap)
    BY DEF BillingInv, Reads, GenerateSave, At, Idle
<1>2. /\ invoice' = invoice /\ request' = [request EXCEPT ![r] = Idle]
      /\ order'[h.o].invoiced = written /\ order'[h.o] # None
      /\ \A o \in Orders : o # h.o => order'[o] = order[o]
  <2>1. order' = [order EXCEPT
            ![h.o].invoiced = written,
            ![h.o].status = IF h.snap.status = "SHIPPED" THEN "INVOICED" ELSE @]
      BY DEF GenerateSave
  <2>2. DOMAIN order = Orders
      BY DEF BillingInv, StoreInv, TypeOK
  <2>3. /\ order'[h.o].invoiced = written
        /\ \A o \in Orders : o # h.o => order'[o] = order[o]
    <3>. HIDE DEF written
    <3>. QED
        BY <1>1, <2>1, <2>2 DEF OrderRecord
  <2>4. order'[h.o] # None
    <3>1. order'[h.o] \in OrderRecord
        BY <1>1, GenerateSaveKeeps DEF Grows
    <3>. QED
        BY <3>1, NoneIsNoRecord
  <2>. QED
      BY <2>3, <2>4 DEF GenerateSave, Finish, Continue
<1>3. \A q \in Requests : request'[q] = Idle /\ (q # r => request[q] = Idle)
  <2>1. \A q \in Requests : q # r => request[q] = Idle
      BY <1>1, OnlyOneBusy
  <2>2. request'[r] = Idle /\ \A q \in Requests : q # r => request'[q] = request[q]
      BY <1>2, SlotsAround
  <2>. QED
      BY <2>1, <2>2
<1>4. \A q \in Requests, o \in Orders : Saves(request[q], o) <=> q = r /\ o = h.o
    BY <1>1, <1>3 DEF Saves, Idle
<1>5. \A q \in Requests : (\A o \in Orders : ~Saves(request'[q], o)) /\ ~Generates(request'[q])
    BY <1>3 DEF Saves, Generates, Idle
<1>6. \A o \in Orders, l \in Lines : UnitsBilled(o, l)' = UnitsBilled(o, l)
    BY <1>2, SameInvoicesBillTheSame
<1>7. ASSUME NEW l \in Lines PROVE written[l] = order[h.o].invoiced[l] + Billable(h.o, h.snap)[l]
  <2>1. h.snap.invoiced = order[h.o].invoiced
      BY <1>1 DEF CountersRead, Generates
  <2>2. /\ Billable(h.o, h.snap)[l] = h.snap.shipped[l] - h.snap.invoiced[l]
        /\ h.snap.invoiced[l] <= h.snap.shipped[l]
        /\ h.snap.shipped[l] \in Int /\ h.snap.invoiced[l] \in Int
      BY <1>1, BillableIsUnits DEF Bounded, OrderRecord, Units
  <2>3. written[l] = IF Billable(h.o, h.snap)[l] > 0
                     THEN h.snap.invoiced[l] + Billable(h.o, h.snap)[l]
                     ELSE order[h.o].invoiced[l]
      BY DEF InvoicedWritten
  <2>. QED
      BY <2>1, <2>2, <2>3
<1>8. ASSUME NEW o \in Orders, NEW l \in Lines, order'[o] # None
      PROVE  UnitsBilled(o, l)' = order'[o].invoiced[l]
  <2>1. CASE o = h.o
    <3>1. UnitsBilled(o, l) = order[o].invoiced[l] + Billable(o, h.snap)[l]
        BY <1>1, <1>4, <2>1, NoneIsNoRecord DEF UnitsCounted
    <3>. QED
        BY <1>2, <1>6, <1>7, <2>1, <3>1
  <2>2. CASE o # h.o
    <3>1. order[o] # None /\ \A q \in Requests : ~Saves(request[q], o)
        BY <1>2, <1>4, <1>8, <2>2
    <3>. QED
        BY <1>2, <1>6, <2>2, <3>1 DEF UnitsCounted
  <2>. QED
      BY <2>1, <2>2
<1>. QED
    BY <1>5, <1>8 DEF UnitsCounted, CountersRead, Saves, Generates

(* An invoice of no units, and the other steps.                            *)
LEMMA NoUnitsBillNothing ==
    ASSUME BillingInv, NEW p \in Orders, NEW period \in Int, NEW total,
           invoice' = Append(invoice, NewInvoice(p, period, NoUnits, total)),
           NEW o \in Orders, NEW l \in Lines
    PROVE  UnitsBilled(o, l)' = UnitsBilled(o, l)
<1>1. NoUnits \in Units /\ NoUnits[l] = 0
    BY OrderedType DEF NoUnits, Units
<1>2. UnitsBilled(o, l)' = UnitsBilled(o, l) + IF o = p THEN NoUnits[l] ELSE 0
  <2>. PICK units : units = NoUnits
      OBVIOUS
  <2>. QED
      BY <1>1, AnotherInvoiceBillsMore
<1>3. UnitsBilled(o, l) \in Int
    BY BilledIsInt
<1>. QED
    BY <1>1, <1>2, <1>3

LEMMA ContinueCounts ==
    ASSUME BillingInv, Orderly, UnitsCounted, CountersRead, NEW r \in Requests, ContinueRequest(r)
    PROVE  UnitsCounted' /\ CountersRead'
<1>. PICK h : h = request[r]
    OBVIOUS
<1>0. Reads(h) /\ ~Generates(Idle) /\ Subs \subseteq Orders
    BY RecurringType DEF BillingInv, Generates, Idle, Subs
<1>1. CASE GenerateInsert(r)
    BY <1>1, GenerateInsertCounts
<1>2. CASE GenerateSave(r)
    BY <1>2, GenerateSaveCounts
<1>3. CASE PaySave(r)
  <2>1. \E state : request' = [request EXCEPT ![r] = state] /\ ~Generates(state)
      BY <1>0, <1>3 DEF PaySave, Continue, Finish, Generates
  <2>2. PICK state : request' = [request EXCEPT ![r] = state] /\ ~Generates(state)
      BY <2>1
  <2>3. request'[r] = state /\ \A q \in Requests : q # r => request'[q] = request[q]
      BY <2>2, SlotsAround
  <2>4. /\ DOMAIN invoice' = DOMAIN invoice
        /\ \A i \in DOMAIN invoice : /\ invoice'[i].order = invoice[i].order
                                     /\ invoice'[i].units = invoice[i].units
    <3>. DEFINE PaidDoc(doc) == InvoiceWritten(doc, h.snap, Received(h.snap, h.amount), h.amount)
    <3>1. invoice' = [invoice EXCEPT ![h.i] = PaidDoc(@)] /\ order' = order
        BY <1>3 DEF PaySave
    <3>2. \A doc \in InvoiceRecord : PaidDoc(doc).order = doc.order /\ PaidDoc(doc).units = doc.units
        BY DEF InvoiceWritten, InvoiceRecord
    <3>3. invoice \in Seq(InvoiceRecord)
        BY DEF BillingInv, StoreInv, TypeOK
    <3>. HIDE DEF PaidDoc
    <3>. QED
        BY <3>1, <3>2, <3>3
  <2>5. \A o \in Orders, l \in Lines : UnitsBilled(o, l)' = UnitsBilled(o, l)
      BY <2>4, SameInvoicesBillTheSame
  <2>6. order' = order /\ request[r].at = "pay.save"
      BY <1>3 DEF PaySave, At
  <2>. QED
      BY <2>2, <2>3, <2>5, <2>6, CountedAsBefore DEF Generates
<1>4. CASE PayOrder(r)
  <2>1. /\ h.o \in Orders /\ h.at = "pay.order" /\ invoice' = invoice
        /\ order' = [order EXCEPT ![h.o].status = "PAID"]
        /\ request' = [request EXCEPT ![r] = Idle]
      BY <1>0, <1>4 DEF PayOrder, At, Finish, Continue, Reads
  <2>2. request'[r] = Idle /\ \A q \in Requests : q # r => request'[q] = request[q]
      BY <2>1, SlotsAround
  <2>3. /\ DOMAIN order' = Orders /\ order[h.o] \in OrderRecord
        /\ \A o \in Orders : order[o] \in OrderRecord \cup {None}
        /\ \A o \in Orders : order'[o] = IF o = h.o THEN [order[o] EXCEPT !.status = "PAID"] ELSE order[o]
      BY <1>0, <2>1 DEF BillingInv, StoreInv, TypeOK, Reads
  <2>4. \A doc \in OrderRecord : /\ [doc EXCEPT !.status = "PAID"] \in OrderRecord
                                 /\ [doc EXCEPT !.status = "PAID"].invoiced = doc.invoiced
      BY DEF OrderRecord, OrderStatus
  <2>5. \A o \in Orders : order'[o] # None <=> order[o] # None
      BY <2>3, <2>4, NoneIsNoRecord
  <2>6. \A o \in Orders : order'[o] # None => order'[o].invoiced = order[o].invoiced
      BY <2>3, <2>4, NoneIsNoRecord
  <2>7. \A o \in Orders, l \in Lines : UnitsBilled(o, l)' = UnitsBilled(o, l)
      BY <2>1, SameInvoicesBillTheSame
  <2>. QED
      BY <1>0, <2>1, <2>2, <2>5, <2>6, <2>7, CountedAsBefore DEF Generates
<1>5. ASSUME UNCHANGED <<order, invoice>>, h.at # "generate.save",
             \E state : request' = [request EXCEPT ![r] = state] /\ ~Generates(state)
      PROVE  UnitsCounted' /\ CountersRead'
    BY <1>5, CountersAlone
<1>13. ASSUME NEW state, Continue(r, state), state.at \notin {"generate.insert", "generate.save"}
       PROVE  \E new : request' = [request EXCEPT ![r] = new] /\ ~Generates(new)
    BY <1>13 DEF Continue, Generates
<1>6. CASE ConvertSubscribe(r)
  <2>1. \E state : Continue(r, state) /\ state.at \notin {"generate.insert", "generate.save"}
      BY <1>6 DEF ConvertSubscribe
  <2>2. UNCHANGED <<order, invoice>> /\ h.at # "generate.save"
      BY <1>6 DEF ConvertSubscribe, At
  <2>. QED
      BY <1>5, <1>13, <2>1, <2>2
<1>7. CASE SubscriptionSave(r)
    BY <1>0, <1>5, <1>7 DEF SubscriptionSave, At, Finish, Continue
<1>8. CASE RunSave(r)
    BY <1>0, <1>5, <1>8 DEF RunSave, At, Finish, Continue, RunState, Generates
<1>9. CASE IssueCredit(r)
  <2>1. \E state : Continue(r, state) /\ state.at \notin {"generate.insert", "generate.save"}
      BY <1>9 DEF IssueCredit
  <2>2. UNCHANGED <<order, invoice>> /\ h.at # "generate.save"
      BY <1>9 DEF IssueCredit, At
  <2>. QED
      BY <1>5, <1>13, <2>1, <2>2
<1>10. ASSUME order' = order, h.o \in Orders, h.at # "generate.save",
              NEW period \in Int, NEW total,
              invoice' = Append(invoice, NewInvoice(h.o, period, NoUnits, total)),
              \E state : request' = [request EXCEPT ![r] = state] /\ ~Generates(state)
       PROVE  UnitsCounted' /\ CountersRead'
  <2>1. PICK state : request' = [request EXCEPT ![r] = state] /\ ~Generates(state)
      BY <1>10
  <2>2. request'[r] = state /\ \A q \in Requests : q # r => request'[q] = request[q]
      BY <2>1, SlotsAround
  <2>3. \A o \in Orders, l \in Lines : UnitsBilled(o, l)' = UnitsBilled(o, l)
      BY <1>10, NoUnitsBillNothing
  <2>. QED
      BY <1>10, <2>1, <2>2, <2>3, CountedAsBefore DEF Generates
<1>11. CASE ConvertInvoice(r)
  <2>1. h.o \in Orders /\ h.at = "convert.invoice" /\ order' = order
      BY <1>0, <1>11 DEF ConvertInvoice, At, Reads
  <2>2. invoice' = Append(invoice, NewInvoice(h.o, 1, NoUnits, h.snap.amount))
      BY <1>11 DEF ConvertInvoice
  <2>3. \E state : request' = [request EXCEPT ![r] = state] /\ ~Generates(state)
    <3>1. \E state : Continue(r, state) /\ state.at \notin {"generate.insert", "generate.save"}
        BY <1>11 DEF ConvertInvoice
    <3>. QED
        BY <1>13, <3>1
  <2>4. 1 \in Int
      OBVIOUS
  <2>. QED
      BY <1>10, <2>1, <2>2, <2>3, <2>4
<1>12. CASE RunInsert(r)
  <2>. PICK k, total : k = Min(Due(h.o, h.new, h.day)) /\ total = h.new.schedule[k].amount
      OBVIOUS
  <2>1. h.o \in Orders /\ h.at = "run" /\ order' = order /\ Due(h.o, h.new, h.day) # {}
      BY <1>0, <1>12 DEF RunInsert, At, Reads
  <2>2. invoice' = Append(invoice, NewInvoice(h.o, k, NoUnits, total))
      BY <1>12 DEF RunInsert
  <2>3. \E state : request' = [request EXCEPT ![r] = state] /\ ~Generates(state)
    <3>. PICK state : state = [h EXCEPT !.inserts = @ - 1, !.new.schedule[k].invoice = Len(invoice) + 1]
        OBVIOUS
    <3>1. request' = [request EXCEPT ![r] = state]
        BY <1>12 DEF RunInsert, Continue
    <3>2. state.at = h.at
        OBVIOUS
    <3>. QED
        BY <2>1, <3>1, <3>2 DEF Generates
  <2>4. k \in Int
    <3>1. Due(h.o, h.new, h.day) \in SUBSET Nat
        BY DueArePeriods
    <3>. QED
        BY <2>1, <3>1, MinIsIn
  <2>. QED
      BY <1>10, <2>1, <2>2, <2>3, <2>4
<1>. QED
    BY <1>1, <1>2, <1>3, <1>4, <1>6, <1>7, <1>8, <1>9, <1>11, <1>12 DEF ContinueRequest

LEMMA UnitsStep == BillingInv /\ CalmInv /\ UnitsInv /\ [Next]_vars => UnitsInv'
<1>. SUFFICES ASSUME BillingInv, CalmInv, UnitsInv, [Next]_vars, Calm'
              PROVE  UnitsCounted' /\ CountersRead'
    BY DEF UnitsInv
<1>1. Orderly /\ UnitsCounted /\ CountersRead
    BY AccidentsNeverGoAway DEF CalmInv, UnitsInv
<1>2. ASSUME NEW r \in Requests, StartRequest(r) \/ ContinueRequest(r) \/ Fail(r)
      PROVE  UnitsCounted' /\ CountersRead'
    BY <1>1, <1>2, StartCounts, ContinueCounts, NobodyDiesCalm
<1>3. ASSUME UNCHANGED <<invoice, request>>,
             \A o \in Orders : (order'[o] # None <=> order[o] # None)
                               /\ (order[o] # None => order'[o].invoiced = order[o].invoiced)
      PROVE  UnitsCounted' /\ CountersRead'
  <2>1. \A o \in Orders, l \in Lines : UnitsBilled(o, l)' = UnitsBilled(o, l)
      BY <1>3, SameInvoicesBillTheSame
  <2>. QED
      BY <1>1, <1>3, <2>1, CountedAsBefore
<1>4. ASSUME NEW o \in Orders, NEW units \in Units, Ship(o, units)
      PROVE  UnitsCounted' /\ CountersRead'
  <2>1. order[o] \in OrderRecord /\ DOMAIN order = Orders
      BY <1>4 DEF Ship, BillingInv, StoreInv, TypeOK
  <2>2. \E shipped, status : order' = [order EXCEPT ![o].shipped = shipped, ![o].status = status]
      BY <1>4 DEF Ship
  <2>3. order'[o].invoiced = order[o].invoiced /\ \A p \in Orders : p # o => order'[p] = order[p]
      BY <2>1, <2>2 DEF OrderRecord
  <2>4. order'[o] # None
      BY <1>4, <2>1, ShipKeeps, NoneIsNoRecord DEF Grows
  <2>. QED
      BY <1>3, <1>4, <2>1, <2>3, <2>4, NoneIsNoRecord DEF Ship
<1>5. CASE Tick \/ UNCHANGED vars
    BY <1>3, <1>5 DEF Tick, vars
<1>. QED
    BY <1>2, <1>4, <1>5 DEF Next

LEMMA UnitsAtFirst == Init => UnitsInv
BY DEF Init, UnitsInv, UnitsCounted, CountersRead, Generates

LEMMA CountedIsBilledOnce == BillingInv /\ UnitsInv => UnitsBilledOnce
<1>. SUFFICES ASSUME BillingInv, UnitsInv, Calm, NEW o \in Orders, order[o] # None, NEW l \in Lines
              PROVE  UnitsBilled(o, l) <= order[o].shipped[l]
    BY DEF UnitsBilledOnce
<1>1. order[o] \in OrderRecord
    BY DEF BillingInv, StoreInv, TypeOK
<1>2. /\ order[o].invoiced[l] <= order[o].shipped[l]
      /\ order[o].invoiced[l] \in Int /\ order[o].shipped[l] \in Int
    BY <1>1 DEF BillingInv, StoreInv, Bounded, OrderRecord, Units
<1>3. CASE \A r \in Requests : ~Saves(request[r], o)
    BY <1>2, <1>3 DEF UnitsInv, UnitsCounted
<1>4. ASSUME NEW r \in Requests, Saves(request[r], o)
      PROVE  UnitsBilled(o, l) <= order[o].shipped[l]
  <2>. PICK snap : snap = request[r].snap
      OBVIOUS
  <2>1. /\ snap \in OrderRecord /\ Bounded(o, snap)
        /\ snap.shipped[l] <= order[o].shipped[l]
      BY <1>4 DEF BillingInv, Reads, Saves
  <2>2. snap.invoiced = order[o].invoiced
      BY <1>4 DEF UnitsInv, CountersRead, Saves, Generates
  <2>3. Billable(o, snap)[l] = snap.shipped[l] - snap.invoiced[l]
      BY <2>1, BillableIsUnits
  <2>4. UnitsBilled(o, l) = order[o].invoiced[l] + Billable(o, snap)[l]
      BY <1>4 DEF UnitsInv, UnitsCounted
  <2>5. snap.shipped[l] \in Int
      BY <2>1 DEF OrderRecord, Units
  <2>. QED
      BY <1>2, <2>1, <2>2, <2>3, <2>4, <2>5
<1>. QED
    BY <1>3, <1>4

(* While handlers neither overlap nor die, the invoices of an order        *)
(* together bill no unit of a line twice, nor one that has not shipped,    *)
(* however many part shipments and invoices there are                      *)
(* (invoices.routes.ts, POST /invoices/generate/:orderId).                 *)
THEOREM UnitsAreBilledOnce == Spec => []UnitsBilledOnce
<1>1. Spec => []BillingInv
    BY InitHolds, StepKeeps, PTL DEF Spec
<1>2. Spec => []CalmInv
    BY <1>1, CalmAtFirst, CalmStep, PTL DEF Spec
<1>3. Spec => []UnitsInv
    BY <1>1, <1>2, UnitsAtFirst, UnitsStep, PTL DEF Spec
<1>. QED
    BY <1>1, <1>3, CountedIsBilledOnce, PTL

===========================================================================
