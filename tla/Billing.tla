------------------------------- MODULE Billing -------------------------------
(***************************************************************************)
(* What follows a confirmed order: one-time invoices for what has shipped, *)
(* payments, and the subscription of a recurring line with its schedule.   *)
(*                                                                         *)
(* Handlers are sequences of database accesses, as in DealRequests: what a *)
(* handler read is its own copy, save() writes the paths that differ from  *)
(* that copy, and between two accesses any other handler may run or this   *)
(* one die.  Inventory models shipping; here it is one step.               *)
(***************************************************************************)
EXTENDS BillingMath, FiniteSets, FiniteSetsExt

CONSTANTS
    Orders,        \* order ids; an order has at most one subscription, named by it
    Lines,         \* the one-time lines of an order
    Ordered,       \* [Orders -> [Lines -> units]]
    MaxUnits,      \* no line orders more
    Total,         \* what an invoice for these units comes to
    Recurring,     \* [subset of Orders -> [cycle, unit, qty, amount, proration, cancellation]]
    Horizon,       \* billing.scheduleHorizon of the configuration
    Instants,      \* the days on which something happens
    Dates,         \* nextBillingDates of a subscription started on a day, and the date after
    Quantities,    \* quantities a modification may ask for
    PlanAmounts,   \* prices of the plans a modification may move to
    Amounts,       \* amounts a payment may have
    Requests,      \* request slots
    MaxAccidents,  \* bound on handlers that start while another runs, or die
    MaxOrders,     \* bound on orders confirmed
    MaxInvoices,   \* bound on invoices
    MaxCredits,    \* bound on the credit notes of a subscription
    None           \* absent document or value

Units == [Lines -> 0..MaxUnits]

ASSUME OrderedType == MaxUnits \in Nat /\ Ordered \in [Orders -> Units]
ASSUME TotalType == Total \in [Units -> Nat]
ASSUME RecurringType ==
    /\ DOMAIN Recurring \subseteq Orders
    /\ Recurring \in [DOMAIN Recurring ->
           [cycle : Cycles, unit : Nat, qty : Nat, amount : Nat,
            proration : ProrationRules, cancellation : ProrationRules]]
ASSUME HorizonType == Horizon \in Nat \ {0}
ASSUME DatesType == /\ Instants \subseteq Nat /\ Instants # {}
                    /\ Dates \in [DOMAIN Recurring -> [Instants -> [1..(Horizon + 1) -> Int]]]
ASSUME AmountsType == Quantities \subseteq Nat /\ PlanAmounts \subseteq Nat /\ Amounts \subseteq Nat
ASSUME MaxAccidentsType == MaxAccidents \in Nat

VARIABLES
    clock,         \* today
    order,         \* Order: status and the two counters of each line
    invoice,       \* Invoice: in order of their insertion
    subscription,  \* Subscription, by order
    credits,       \* CreditNote: the amounts issued for each subscription
    request,       \* what each handler holds in memory
    accidents      \* how many handlers have overlapped with another or died

store == <<order, invoice, subscription, credits>>
vars == <<clock, order, invoice, subscription, credits, request, accidents>>

OrderStatus == {"CONFIRMED", "SHIPPED", "INVOICED", "PAID"}
InvoiceStatus == {"ISSUED", "PARTIALLY_PAID", "PAID"}
SubscriptionStatus == {"ACTIVE", "PAUSED", "CANCELLED"}

OrderRecord == [status : OrderStatus, shipped : Units, invoiced : Units]

(* `period` is 0 for a one-time invoice, else the schedule entry it bills; *)
(* `received` adds up the payments array.                                  *)
InvoiceRecord == [order : Orders, period : 0..Horizon, units : Units, total : Nat,
                  status : InvoiceStatus, paid : Nat, due : Nat, received : Nat]

(* `invoice` is the invoiceId of an entry, 0 while it is not invoiced.     *)
Entry == [amount : Nat, invoice : Nat]
Subscription == [status : SubscriptionStatus, start : Instants, next : Int \cup {None},
                 unit : Nat, qty : Nat, amount : Nat, schedule : [1..Horizon -> Entry]]

ASSUME NoneIsNoRecord ==
    None \notin OrderRecord /\ None \notin Subscription /\ None \notin Int

Init ==
    /\ clock = Min(Instants)
    /\ order = [o \in Orders |-> None]
    /\ invoice = <<>>
    /\ subscription = [o \in Orders |-> None]
    /\ credits = [o \in Orders |-> <<>>]
    /\ request = [r \in Requests |-> [at |-> "idle"]]
    /\ accidents = 0

---------------------------------------------------------------------------
(* Handlers.                                                               *)

Idle == [at |-> "idle"]
Busy == {r \in Requests : request[r] # Idle}
At(r, label) == request[r].at = label

Calm == accidents = 0
Accident == accidents < MaxAccidents /\ accidents' = accidents + 1

(* A handler that starts while another is under way overlaps with it.      *)
Begin(r, state) ==
    /\ request[r] = Idle
    /\ request' = [request EXCEPT ![r] = state]
    /\ IF Busy = {} THEN UNCHANGED accidents ELSE Accident
    /\ UNCHANGED clock
Continue(r, state) ==
    /\ request' = [request EXCEPT ![r] = state]
    /\ UNCHANGED <<clock, accidents>>
Finish(r) == Continue(r, Idle)

(* Bounds: whoever may insert an invoice or a credit note finds room.      *)
RoomForInvoices(n) ==
    Len(invoice) + n + MapThenSumSet(LAMBDA r : request[r].inserts, Busy) <= MaxInvoices
RoomForCredit(o) == Len(credits[o]) + Cardinality(Busy) < MaxCredits

NewInvoice(o, period, units, total) ==
    [order |-> o, period |-> period, units |-> units, total |-> total,
     status |-> "ISSUED", paid |-> 0, due |-> total, received |-> 0]
NoUnits == [l \in Lines |-> 0]

---------------------------------------------------------------------------
(* One-time invoices.                                                      *)

(* POST /fulfillment/:id/ship, as far as the order sees it.                *)
Ship(o, units) ==
    /\ order[o] # None
    /\ units # NoUnits
    /\ \A l \in Lines : order[o].shipped[l] + units[l] <= Ordered[o][l]
    /\ LET shipped == [l \in Lines |-> order[o].shipped[l] + units[l]]
           all == order[o].status = "CONFIRMED" /\ shipped = Ordered[o]
       IN  order' = [order EXCEPT ![o].shipped = shipped,
                                  ![o].status = IF all THEN "SHIPPED" ELSE @]
    /\ UNCHANGED <<clock, invoice, subscription, credits, request, accidents>>

Billable(o, doc) == [l \in Lines |-> Invoiceable(Ordered[o][l], doc.shipped[l], doc.invoiced[l])]

(* POST /invoices/generate/:orderId: read, insert the invoice, save the    *)
(* counters of the lines it bills.                                         *)
GenerateRead(r, o) ==
    /\ order[o] # None
    /\ Billable(o, order[o]) # NoUnits
    /\ RoomForInvoices(1)
    /\ Begin(r, [at |-> "generate.insert", inserts |-> 1, o |-> o, snap |-> order[o]])
    /\ UNCHANGED store

GenerateInsert(r) ==
    LET h == request[r]
        units == Billable(h.o, h.snap)
    IN  /\ At(r, "generate.insert")
        /\ invoice' = Append(invoice, NewInvoice(h.o, 0, units, Total[units]))
        /\ Continue(r, [at |-> "generate.save", inserts |-> 0, o |-> h.o, snap |-> h.snap])
        /\ UNCHANGED <<order, subscription, credits>>

(* Fault: what has been invoiced is not recorded.                          *)
InvoicedWritten_Forgotten(o, cur, snap) == cur.invoiced
InvoicedWritten(o, cur, snap) ==
    [l \in Lines |-> IF Billable(o, snap)[l] > 0 THEN snap.invoiced[l] + Billable(o, snap)[l]
                                                 ELSE cur.invoiced[l]]

GenerateSave(r) ==
    LET h == request[r]
    IN  /\ At(r, "generate.save")
        /\ order' = [order EXCEPT
               ![h.o].invoiced = InvoicedWritten(h.o, order[h.o], h.snap),
               ![h.o].status = IF h.snap.status = "SHIPPED" THEN "INVOICED" ELSE @]
        /\ Finish(r)
        /\ UNCHANGED <<invoice, subscription, credits>>

---------------------------------------------------------------------------
(* POST /invoices/:id/payments: read the invoice, save it with the         *)
(* payment, and mark the order of a one-time invoice that is paid.         *)

PayRead(r, i, amount) ==
    /\ i \in DOMAIN invoice
    /\ amount > 0
    /\ amount <= invoice[i].due
    /\ Begin(r, [at |-> "pay.save", inserts |-> 0, i |-> i, snap |-> invoice[i], amount |-> amount])
    /\ UNCHANGED store

Received(doc, amount) ==
    LET due == doc.total - (doc.paid + amount)
    IN  [doc EXCEPT !.paid = @ + amount, !.due = due,
                    !.status = IF due <= 0 THEN "PAID" ELSE "PARTIALLY_PAID"]

(* The payment is pushed; the other three paths are set where they differ. *)
InvoiceWritten(cur, snap, new, amount) ==
    [cur EXCEPT !.paid = new.paid, !.due = new.due, !.received = @ + amount,
                !.status = IF new.status # snap.status THEN new.status ELSE @]

PaySave(r) ==
    LET h == request[r]
        new == Received(h.snap, h.amount)
    IN  /\ At(r, "pay.save")
        /\ invoice' = [invoice EXCEPT ![h.i] = InvoiceWritten(@, h.snap, new, h.amount)]
        /\ IF h.snap.period = 0 /\ new.status = "PAID"
           THEN Continue(r, [at |-> "pay.order", inserts |-> 0, o |-> h.snap.order])
           ELSE Finish(r)
        /\ UNCHANGED <<order, subscription, credits>>

PayOrder(r) ==
    /\ At(r, "pay.order")
    /\ order' = [order EXCEPT ![request[r].o].status = "PAID"]
    /\ Finish(r)
    /\ UNCHANGED <<invoice, subscription, credits>>

---------------------------------------------------------------------------
(* The schedule of a subscription.                                         *)

PeriodStart(o, sub, k) == Dates[o][sub.start][k]

(* The days left of a period: its end is where the next one starts.        *)
DaysLeft(o, sub, k, day) == Dates[o][sub.start][k + 1] - day

Due(o, sub, day) ==
    {k \in 1..Horizon : sub.schedule[k].invoice = 0 /\ PeriodStart(o, sub, k) <= day}
Unbilled(sub) == {k \in 1..Horizon : sub.schedule[k].invoice = 0}
DateOf(o, sub, periods) == IF periods = {} THEN None ELSE PeriodStart(o, sub, Min(periods))

(* The period under way, or the first one before it has begun.             *)
CurrentPeriod(o, sub, day) ==
    LET begun == {k \in 1..Horizon : PeriodStart(o, sub, k) <= day}
    IN  IF begun = {} THEN 1 ELSE Max(begun)

(* The next period to be billed, or the earliest that is overdue.          *)
NextUnbilled(o, sub, day) ==
    LET ahead == {k \in Unbilled(sub) : PeriodStart(o, sub, k) >= day}
    IN  IF ahead # {} THEN {Min(ahead)}
        ELSE IF Unbilled(sub) # {} THEN {Min(Unbilled(sub))} ELSE {}

(* save() of a subscription, path by path.                                 *)
SubscriptionWritten(cur, snap, new) ==
    LET Path(f) == IF new[f] # snap[f] THEN new[f] ELSE cur[f]
        EntryPath(k, f) == IF new.schedule[k][f] # snap.schedule[k][f] THEN new.schedule[k][f]
                                                                       ELSE cur.schedule[k][f]
    IN  [status |-> Path("status"), start |-> cur.start, next |-> Path("next"),
         unit |-> Path("unit"), qty |-> Path("qty"), amount |-> Path("amount"),
         schedule |-> [k \in 1..Horizon |-> [amount |-> EntryPath(k, "amount"),
                                             invoice |-> EntryPath(k, "invoice")]]]

NewSubscription(o, day) ==
    [status |-> "ACTIVE", start |-> day, next |-> day,
     unit |-> Recurring[o].unit, qty |-> Recurring[o].qty, amount |-> Recurring[o].amount,
     schedule |-> [k \in 1..Horizon |-> [amount |-> Recurring[o].amount, invoice |-> 0]]]

(* createOrderFromQuotation: the order, then the subscription, the invoice *)
(* of its first period, and the mark that it is invoiced.                  *)
Convert(r, o) ==
    /\ order[o] = None
    /\ Cardinality({p \in Orders : order[p] # None}) < MaxOrders
    /\ RoomForInvoices(1)
    /\ order' = [order EXCEPT ![o] =
           [status |-> "CONFIRMED", shipped |-> NoUnits, invoiced |-> NoUnits]]
    /\ IF o \in DOMAIN Recurring
       THEN Begin(r, [at |-> "convert.subscribe", inserts |-> 1, o |-> o, day |-> clock])
       ELSE UNCHANGED <<clock, request, accidents>>
    /\ UNCHANGED <<invoice, subscription, credits>>

ConvertSubscribe(r) ==
    LET o == request[r].o
        new == NewSubscription(o, request[r].day)
    IN  /\ At(r, "convert.subscribe")
        /\ subscription' = [subscription EXCEPT ![o] = new]
        /\ Continue(r, [at |-> "convert.invoice", inserts |-> 1, o |-> o, snap |-> new])
        /\ UNCHANGED <<order, invoice, credits>>

ConvertInvoice(r) ==
    LET h == request[r]
    IN  /\ At(r, "convert.invoice")
        /\ invoice' = Append(invoice, NewInvoice(h.o, 1, NoUnits, h.snap.amount))
        /\ Continue(r, [at |-> "subscription.save", inserts |-> 0, o |-> h.o, snap |-> h.snap,
               new |-> [h.snap EXCEPT !.schedule[1].invoice = Len(invoice) + 1]])
        /\ UNCHANGED <<order, subscription, credits>>

(* The save() every handler of one subscription ends with.                 *)
SubscriptionSave(r) ==
    LET h == request[r]
    IN  /\ At(r, "subscription.save")
        /\ subscription' = [subscription EXCEPT ![h.o] = SubscriptionWritten(@, h.snap, h.new)]
        /\ Finish(r)
        /\ UNCHANGED <<order, invoice, credits>>

---------------------------------------------------------------------------
(* POST /billing/run-schedule: read the active subscriptions, insert an    *)
(* invoice for each due entry, save each subscription after its entries.   *)

(* Fault: subscriptions that are paused or cancelled are found too.        *)
Billed_Any(o) == subscription[o] # None
Billed(o) == subscription[o] # None /\ subscription[o].status = "ACTIVE"

RunState(todo, o, docs, day) ==
    [at |-> "run", inserts |-> MapThenSumSet(LAMBDA s : Cardinality(Due(s, docs[s], day)), todo),
     todo |-> todo, o |-> o, snap |-> docs[o], new |-> docs[o], docs |-> docs, day |-> day]

RunRead(r) ==
    LET todo == {o \in Orders : Billed(o) /\ Due(o, subscription[o], clock) # {}}
    IN  /\ \E o \in todo :
              LET run == RunState(todo, o, [s \in todo |-> subscription[s]], clock)
              IN  RoomForInvoices(run.inserts) /\ Begin(r, run)
        /\ UNCHANGED store

RunInsert(r) ==
    LET h == request[r]
        due == Due(h.o, h.new, h.day)
        k == Min(due)
    IN  /\ At(r, "run")
        /\ due # {}
        /\ invoice' = Append(invoice, NewInvoice(h.o, k, NoUnits, h.new.schedule[k].amount))
        /\ Continue(r, [h EXCEPT !.inserts = @ - 1, !.new.schedule[k].invoice = Len(invoice) + 1])
        /\ UNCHANGED <<order, subscription, credits>>

(* Fault: the entries are not marked as invoiced.                          *)
RunWritten_Unmarked(o, cur, snap, new) ==
    SubscriptionWritten(cur, snap, [snap EXCEPT !.next = DateOf(o, new, Unbilled(new))])
RunWritten(o, cur, snap, new) ==
    SubscriptionWritten(cur, snap, [new EXCEPT !.next = DateOf(o, new, Unbilled(new))])

RunSave(r) ==
    LET h == request[r]
        todo == h.todo \ {h.o}
    IN  /\ At(r, "run")
        /\ Due(h.o, h.new, h.day) = {}
        /\ subscription' = [subscription EXCEPT ![h.o] = RunWritten(h.o, @, h.snap, h.new)]
        /\ IF todo = {} THEN Finish(r)
           ELSE \E o \in todo : Continue(r, RunState(todo, o, h.docs, h.day))
        /\ UNCHANGED <<order, invoice, credits>>

---------------------------------------------------------------------------
(* POST /subscriptions/:id/modify, cancel, pause and resume.               *)

(* A change that comes to money back issues a credit note before it saves. *)
ChangeThenSave(r, o, credit, new) ==
    /\ credit > 0 => RoomForCredit(o)
    /\ Begin(r, [at |-> IF credit > 0 THEN "credit" ELSE "subscription.save", inserts |-> 0,
                 o |-> o, snap |-> subscription[o], new |-> new, credit |-> credit])
    /\ UNCHANGED store

IssueCredit(r) ==
    LET h == request[r]
    IN  /\ At(r, "credit")
        /\ credits' = [credits EXCEPT ![h.o] = Append(@, h.credit)]
        /\ Continue(r, [at |-> "subscription.save", inserts |-> 0,
                        o |-> h.o, snap |-> h.snap, new |-> h.new])
        /\ UNCHANGED <<order, invoice, subscription>>

(* Every entry not invoiced gets the new amount - whatever an earlier      *)
(* change had added to it - and the next one the charge of this change.    *)
Modified(o, sub, qty, unit, day) ==
    LET amount == unit * qty
        k == CurrentPeriod(o, sub, day)
        net == Prorate(sub.amount, amount, DaysLeft(o, sub, k, day),
                       Recurring[o].cycle, Recurring[o].proration).net
        charged == IF net > 0 THEN NextUnbilled(o, sub, day) ELSE {}
    IN  [credit |-> -net,
         doc |-> [sub EXCEPT !.unit = unit, !.qty = qty, !.amount = amount,
                     !.schedule = [e \in 1..Horizon |->
                         IF sub.schedule[e].invoice # 0 THEN sub.schedule[e]
                         ELSE [sub.schedule[e] EXCEPT !.amount = IF e \in charged THEN amount + net
                                                                       ELSE amount]]]]

Modify(r, o) ==
    /\ subscription[o] # None
    /\ subscription[o].status # "CANCELLED"
    /\ \E qty \in Quantities \cup {subscription[o].qty},
          unit \in PlanAmounts \cup {subscription[o].unit} :
           LET change == Modified(o, subscription[o], qty, unit, clock)
           IN  ChangeThenSave(r, o, change.credit, change.doc)

Cancel(r, o) ==
    /\ subscription[o] # None
    /\ subscription[o].status # "CANCELLED"
    /\ LET sub == subscription[o]
           k == CurrentPeriod(o, sub, clock)
           credit == CancellationCredit(sub.amount, DaysLeft(o, sub, k, clock),
                                        Recurring[o].cycle, Recurring[o].cancellation)
       IN  ChangeThenSave(r, o, credit, [sub EXCEPT !.status = "CANCELLED", !.next = None])

Pause(r, o) ==
    /\ subscription[o] # None
    /\ subscription[o].status = "ACTIVE"
    /\ ChangeThenSave(r, o, 0, [subscription[o] EXCEPT !.status = "PAUSED", !.next = None])

Resume(r, o) ==
    /\ subscription[o] # None
    /\ subscription[o].status = "PAUSED"
    /\ ChangeThenSave(r, o, 0,
           [subscription[o] EXCEPT !.status = "ACTIVE",
               !.next = DateOf(o, subscription[o], NextUnbilled(o, subscription[o], clock))])

---------------------------------------------------------------------------
Tick ==
    /\ \E day \in Instants : /\ day > clock /\ clock' = day
                              /\ \A d \in Instants : d > clock => d >= day
    /\ UNCHANGED <<order, invoice, subscription, credits, request, accidents>>

(* The process dies: what was read and not yet written is gone.            *)
Fail(r) ==
    /\ request[r] # Idle
    /\ request' = [request EXCEPT ![r] = Idle]
    /\ Accident
    /\ UNCHANGED <<clock, order, invoice, subscription, credits>>

StartRequest(r) ==
    \/ \E o \in Orders : Convert(r, o) \/ GenerateRead(r, o)
    \/ \E i \in DOMAIN invoice, amount \in Amounts : PayRead(r, i, amount)
    \/ RunRead(r)
    \/ \E o \in DOMAIN Recurring :
           \/ Modify(r, o) \/ Cancel(r, o) \/ Pause(r, o) \/ Resume(r, o)

ContinueRequest(r) ==
    \/ GenerateInsert(r) \/ GenerateSave(r)
    \/ PaySave(r) \/ PayOrder(r)
    \/ ConvertSubscribe(r) \/ ConvertInvoice(r) \/ SubscriptionSave(r)
    \/ RunInsert(r) \/ RunSave(r)
    \/ IssueCredit(r)

Next ==
    \/ \E r \in Requests : StartRequest(r) \/ ContinueRequest(r) \/ Fail(r)
    \/ \E o \in Orders, units \in Units : Ship(o, units)
    \/ Tick

Spec == Init /\ [][Next]_vars

---------------------------------------------------------------------------
(* Properties.                                                             *)

(* The documents have the types of their schemas.                          *)
TypeOK ==
    /\ clock \in Instants
    /\ order \in [Orders -> OrderRecord \cup {None}]
    /\ invoice \in Seq(InvoiceRecord)
    /\ subscription \in [Orders -> Subscription \cup {None}]
    /\ credits \in [Orders -> Seq(Int)]
    /\ accidents \in 0..MaxAccidents

(* invoices.routes.ts: whatever runs at the same time or dies, the counter *)
(* of invoiced units never passes what has shipped, nor that the order.    *)
InvoicedHasShipped ==
    \A o \in Orders : order[o] # None =>
        \A l \in Lines : /\ order[o].invoiced[l] <= order[o].shipped[l]
                         /\ order[o].shipped[l] <= Ordered[o][l]

(* invoices.routes.ts: whatever overlaps, an invoice's balance is its      *)
(* total less what counts as paid; its type says that neither is negative. *)
BalanceAddsUp ==
    \A i \in DOMAIN invoice : invoice[i].due = invoice[i].total - invoice[i].paid

Consistent == TypeOK /\ InvoicedHasShipped /\ BalanceAddsUp

(* invoices.routes.ts: undisturbed, the one-time invoices of an order,     *)
(* however many part shipments there were, never bill a unit twice or      *)
(* before it has shipped.                                                  *)
UnitsBilled(o, l) ==
    SumFunctionOnSet([i \in DOMAIN invoice |-> invoice[i].units[l]],
                     {i \in DOMAIN invoice : invoice[i].order = o})
UnitsBilledOnce ==
    Calm => \A o \in Orders : order[o] # None =>
        \A l \in Lines : UnitsBilled(o, l) <= order[o].shipped[l]

(* Undisturbed, every payment counts once: an invoice is paid when what    *)
(* was received for it is its total, and not before.                       *)
PaymentsCount ==
    Calm => \A i \in DOMAIN invoice :
        /\ invoice[i].received = invoice[i].paid
        /\ (invoice[i].status = "PAID") = (invoice[i].due = 0 /\ invoice[i].paid > 0)

(* Undisturbed, run-schedule and the conversion issue one invoice for each *)
(* period, for the amount its entry has then and keeps from then on.       *)
PeriodBilledOnce ==
    Calm => \A i, j \in DOMAIN invoice : invoice[i].period > 0 =>
        LET o == invoice[i].order
            entry == subscription[o].schedule[invoice[i].period]
        IN  /\ (invoice[j].order = o /\ invoice[j].period = invoice[i].period) => i = j
            /\ entry.amount = invoice[i].total
            /\ Busy = {} => entry.invoice = i

(* Neither a period is billed twice nor a payment counted twice.           *)
NothingBilledTwice == PaymentsCount /\ PeriodBilledOnce

(* subscriptions.routes.ts, billing.routes.ts: undisturbed, a paused or    *)
(* cancelled subscription is not billed, and a cancelled one stays so.     *)
StoppedIsNotBilled ==
    [][Calm' => \A o \in Orders :
           (subscription[o] # None /\ subscription[o].status # "ACTIVE") =>
               /\ \A i \in (DOMAIN invoice') \ DOMAIN invoice :
                      invoice'[i].period = 0 \/ invoice'[i].order # o
               /\ subscription[o].status = "CANCELLED" => subscription'[o] = subscription[o]]_vars

(* BUSINESS_RULES.md, "net > 0: added to the next invoice": what is given  *)
(* back for a subscription is at most what was invoiced for it.  The code  *)
(* drops the charge of an earlier change when a later one reprices.        *)
CreditsAreCovered ==
    Calm => \A o \in DOMAIN Recurring :
        MapThenSumSet(LAMBDA n : credits[o][n], DOMAIN credits[o]) <=
        MapThenSumSet(LAMBDA i : invoice[i].total,
                      {i \in DOMAIN invoice : invoice[i].order = o /\ invoice[i].period > 0})

(* "Order Confirmed, Shipped, Invoiced, Paid": the order of a paid invoice *)
(* has been invoiced in full.  The code marks it paid after any invoice.   *)
PaidMeansInvoiced ==
    Calm => \A o \in Orders :
        (order[o] # None /\ order[o].status = "PAID") => order[o].invoiced = Ordered[o]
=============================================================================
