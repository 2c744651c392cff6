--------------------------- MODULE BillingScreens ---------------------------
(***************************************************************************)
(* The pages on the books: the lists of invoices and of subscriptions with *)
(* their chips, the page of an invoice and the billing page of a           *)
(* subscription.  A page is taken to show the documents as they are, and   *)
(* every order to be of a customer of its own.                             *)
(***************************************************************************)
EXTENDS Billing

(* GET /invoices: the invoices behind the chips of the list.               *)
Unpaid == {i \in DOMAIN invoice : invoice[i].status \in {"ISSUED", "PARTIALLY_PAID"}}
Paid == {i \in DOMAIN invoice : invoice[i].status = "PAID"}

(* GET /invoices/:id with its order and all invoices of that order: the    *)
(* row of an invoice, here, in the list and on the billing page, the       *)
(* balance, and the steps of the order that are marked as reached.         *)
InvoicesOf(o) == {i \in DOMAIN invoice : invoice[i].order = o}
InvoiceRow(i) ==
    [kind |-> IF invoice[i].period = 0 THEN "One-time" ELSE "Recurring",
     amount |-> invoice[i].total, status |-> invoice[i].status]
InvoiceTable(o) == [i \in InvoicesOf(o) |-> InvoiceRow(i)]
RelatedTable(i) == InvoiceTable(invoice[i].order)
Balance(i) == [invoiced |-> invoice[i].total, paid |-> invoice[i].paid,
               outstanding |-> invoice[i].due]
InvoiceOffers(i) == {"download"} \cup {op \in {"payment"} : Balance(i).outstanding > 0}

Stepper == [CONFIRMED |-> 1, SHIPPED |-> 2, INVOICED |-> 3, PAID |-> 4]
Reached(o) == {step \in OrderStatus : Stepper[step] <= Stepper[order[o].status]}

(* GET /subscriptions: those behind a chip of the list, and its rows.      *)
WithStatus(status) ==
    {o \in Orders : subscription[o] # None /\ subscription[o].status = status}
SubscriptionRow(o) ==
    [next |-> subscription[o].next, amount |-> subscription[o].amount,
     status |-> subscription[o].status]

(* GET /billing/subscription/:id: what was sold once, and what recurs.     *)
OneTimeLines(o) == {l \in Lines : Ordered[o][l] > 0}
RecurringLines(o) ==
    IF subscription[o] = None THEN {} ELSE {SubscriptionRow(o)}

---------------------------------------------------------------------------
(* USER_FLOWS.md:1165-1172, invoice-detail.page.ts:39: a payment can be    *)
(* recorded exactly while the invoice counts as unpaid, and one of the     *)
(* whole balance settles it.                                               *)
PaymentIsOfferedWhileOwed ==
    \A i \in DOMAIN invoice : invoice[i].total > 0 =>
        /\ "payment" \in InvoiceOffers(i) <=> i \in Unpaid
        /\ i \in Unpaid => Received(invoice[i], Balance(i).outstanding).status = "PAID"

(* billing-detail.page.ts, "neither ever contains the other": an order's   *)
(* one-time invoices are of one-time lines, and its recurring ones of the  *)
(* periods of its recurring line.                                          *)
ArtefactsAreSeparate ==
    \A i \in DOMAIN invoice : \A j \in DOMAIN RelatedTable(i) :
        LET o == invoice[i].order
        IN  CASE RelatedTable(i)[j].kind = "Recurring" ->
                    invoice[j].units = NoUnits /\ RecurringLines(o) # {}
              [] RelatedTable(i)[j].kind = "One-time" ->
                    \E l \in OneTimeLines(o) : invoice[j].units[l] > 0

(* invoice-detail.page.ts:173: the step Invoiced, or Paid, of an order is  *)
(* marked only over a one-time invoice, or over a paid one.                *)
StepperHasItsInvoice ==
    \A o \in Orders : order[o] # None =>
        LET oneTime == {i \in InvoicesOf(o) : InvoiceRow(i).kind = "One-time"}
        IN  /\ "INVOICED" \in Reached(o) => oneTime # {}
            /\ "PAID" \in Reached(o) => oneTime \cap Paid # {}

(* UI_SPEC.md:389, "- when there is no next bill date (paused or           *)
(* cancelled)": a stopped subscription shows none, and a running one shows *)
(* one while a period is left to bill.                                     *)
NextBillIsShown ==
    \A o \in Orders : \A row \in RecurringLines(o) :
        /\ o \in WithStatus("PAUSED") \cup WithStatus("CANCELLED") => row.next = None
        /\ o \in WithStatus("ACTIVE") /\ Unbilled(subscription[o]) # {} => row.next # None

(* Undisturbed, what the pages say of invoices, steppers and next bills is *)
(* what the books hold.                                                    *)
PagesFollowTheBooks ==
    Calm => /\ PaymentIsOfferedWhileOwed
            /\ ArtefactsAreSeparate
            /\ StepperHasItsInvoice
            /\ NextBillIsShown

(* Nothing is billed twice, and the pages say what is billed.              *)
BooksAreTrue == NothingBilledTwice /\ PagesFollowTheBooks

(* USER_FLOWS.md:1149, "There's a next bill date": the one a running       *)
(* subscription shows is of a period that is still to be billed.           *)
NextBillIsAhead ==
    Calm => \A o \in Orders : \A row \in RecurringLines(o) :
        (Busy = {} /\ row.status = "ACTIVE") =>
            \E k \in Unbilled(subscription[o]) : row.next = PeriodStart(o, subscription[o], k)
=============================================================================
