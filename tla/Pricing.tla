------------------------------ MODULE Pricing ------------------------------
(***************************************************************************)
(* What a line of a quotation costs, and what a rep sees of it.  The       *)
(* server prices a saved line by the catalogue and the price list of the   *)
(* customer's tier; the builder, one tab of it here, shows the lines it    *)
(* was last sent and prices those that were added meanwhile itself.  Calls *)
(* of the tab are handled and answered later, or get lost; other users     *)
(* edit, return and counter the quotation and change the catalogue.        *)
(*                                                                         *)
(* Quantities, taxes and categories do not change a unit price and are     *)
(* left out; each handler is one step (DealRequests interleaves them).     *)
(***************************************************************************)
EXTENDS Integers, Sequences, SequencesExt

CONSTANTS
    Products, Tiers, None,
    Prices,    \* what an administrator may ask for a product
    Seeded,    \* [Tiers -> the rule a price list starts with]
    Percents,  \* what is typed as a percentage off the base price
    Offers,    \* discounts a line may be given
    Ceiling,   \* [Tiers -> the discount a line may have without review]
    MaxLines,  \* bound on the lines of a quotation
    MaxVersion, \* bound on the writes of the quotation
    MaxMoves   \* bound on the changes of catalogue, lists and tier

VARIABLES
    base,    \* [Products -> the catalogue's unit price]
    rule,    \* [Tiers -> the rule of the tier's price list]
    tier,    \* the customer's tier, which is that of its price list
    quote,   \* the stored quotation
    tab,     \* the builder's copy of it, None before it is loaded
    load,    \* the copy that a load has read and the tab has not shown yet
    call,    \* the tab's save or submission under way
    moves,   \* changes of catalogue, lists and tier so far
    given    \* what the customer's list has asked for each product so far

pricingVars == <<base, rule, tier, quote, tab, load, call, moves, given>>
catalogueSide == <<base, rule, tier, given>>

RuleTypes == {"NONE", "PERCENT_OFF_BASE", "FIXED_PRICE"}

(* What the constants have to be; prices and percentages are whole.        *)
ASSUME PricingAssumption ==
    /\ Prices \subseteq Int /\ Percents \subseteq Int
    /\ 0 \in Offers
    /\ Seeded \in [Tiers -> [type : RuleTypes, value : Int]]
    /\ Ceiling \in [Tiers -> Int]

---------------------------------------------------------------------------
(* The price of a product.                                                 *)

RoundHalfUp(numerator, denominator) == (2 * numerator + denominator) \div (2 * denominator)
PctOf(amount, pct) == RoundHalfUp(amount * pct, 100)

ResolvePriceListPrice(price, r) ==
    CASE r.type = "PERCENT_OFF_BASE" -> price - PctOf(price, r.value)
      [] r.type = "FIXED_PRICE" -> r.value
      [] OTHER -> price

(* priceLinesForCustomer: whatever price the tab shows, the line costs     *)
(* what the list of the customer's tier makes of the catalogue's price.    *)
(* Fault: it costs what the tab shows.                                     *)
Priced_AsShown(line, t) ==
    [product |-> line.product, price |-> line.price, discount |-> line.discount, allowed |-> Ceiling[t]]
Priced(line, t) ==
    [product |-> line.product, price |-> ResolvePriceListPrice(base[line.product], rule[t]),
     discount |-> line.discount, allowed |-> Ceiling[t]]

PriceLinesForCustomer(lines) == [i \in DOMAIN lines |-> Priced(lines[i], tier)]

(* Submission and counter-offer keep the price of a line and look up its   *)
(* ceiling again, by the tier the quotation was made for.                  *)
Reassessed(lines, t) == [i \in DOMAIN lines |-> [lines[i] EXCEPT !.allowed = Ceiling[t]]]

ListOf(prices, r) == {<<p, ResolvePriceListPrice(prices[p], r)>> : p \in Products}

---------------------------------------------------------------------------
(* The quotation's handlers.                                               *)

Writes == quote.version < MaxVersion

(* PATCH /quotations/:id with the lines the builder sends.                 *)
Patchable(version) == quote.stage = "DRAFT" /\ version = quote.version
Patched(lines) ==
    [quote EXCEPT !.lines = PriceLinesForCustomer(lines), !.version = @ + 1]

(* POST /quotations/:id/submit, which is sent no version.                  *)
Submittable == quote.stage = "DRAFT" /\ quote.lines # <<>>
Submitted ==
    [quote EXCEPT !.lines = Reassessed(@, quote.tier), !.stage = "SENT", !.version = @ + 1]

(* POST /portal/q/:number/counter on one of the lines.                     *)
Countered(i, discount) ==
    [quote EXCEPT !.lines = Reassessed([@ EXCEPT ![i].discount = discount], quote.tier),
                  !.version = @ + 1]

---------------------------------------------------------------------------
(* The builder.                                                            *)

(* toInput: a line as the builder works on it.                             *)
ToInput(line) == [product |-> line.product, price |-> line.price, discount |-> line.discount]
Inputs(lines) == [i \in DOMAIN lines |-> ToInput(lines[i])]

(* What the page puts beside a line: its ceiling, by the tier that was     *)
(* loaded.                                                                 *)
PricedLines == [i \in DOMAIN tab.draft |->
    [product |-> tab.draft[i].product, price |-> tab.draft[i].price,
     discount |-> tab.draft[i].discount, allowed |-> Ceiling[tab.tier]]]

Editable == tab # None /\ tab.stage = "DRAFT"
Saving == call # None

PricingInit ==
    /\ base \in [Products -> Prices]
    /\ rule = Seeded
    /\ tier \in Tiers
    /\ quote = [version |-> 1, tier |-> tier, stage |-> "DRAFT", lines |-> <<>>]
    /\ tab = None /\ load = None /\ call = None
    /\ moves = 0
    /\ given = ListOf(base, rule[tier])

(* load() asks for the quotation and the products together; they are taken *)
(* to be read at one instant.  The form hides while a load is under way;   *)
(* of two that overlap the first brings it back, so the rep may edit, save *)
(* and submit before the copy read here is shown.                          *)
LoadRead ==
    /\ load = None
    /\ load' = [version |-> quote.version, tier |-> quote.tier, stage |-> quote.stage,
                saved |-> Inputs(quote.lines), draft |-> Inputs(quote.lines),
                products |-> base, dirty |-> FALSE]
    /\ UNCHANGED <<catalogueSide, quote, tab, call, moves>>

Loaded ==
    /\ load # None
    /\ tab' = load
    /\ load' = None
    /\ UNCHANGED <<catalogueSide, quote, call, moves>>

LoadFailed ==
    /\ load # None
    /\ load' = None
    /\ UNCHANGED <<catalogueSide, quote, tab, call, moves>>

Edit(draft) ==
    /\ tab' = [tab EXCEPT !.draft = draft, !.dirty = TRUE]
    /\ UNCHANGED <<catalogueSide, quote, load, call, moves>>

SetDiscount(i, discount) ==
    /\ Editable /\ i \in DOMAIN tab.draft
    /\ Edit([tab.draft EXCEPT ![i].discount = discount])

RemoveLine(i) ==
    /\ Editable /\ i \in DOMAIN tab.draft
    /\ Edit(RemoveAt(tab.draft, i))

(* An added line shows the product's price as it was loaded.               *)
AddProduct(p) ==
    /\ Editable /\ Len(tab.draft) < MaxLines
    /\ Edit(Append(tab.draft, [product |-> p, price |-> tab.products[p], discount |-> 0]))

Reset ==
    /\ Editable /\ tab.dirty /\ ~Saving
    /\ tab' = [tab EXCEPT !.draft = tab.saved, !.dirty = FALSE]
    /\ UNCHANGED <<catalogueSide, quote, load, call, moves>>

(* save(), and submit(), which saves first what was edited.                *)
SaveCall(submits) ==
    [kind |-> "save", version |-> tab.version, shown |-> tab.draft, submits |-> submits,
     at |-> "sent", answer |-> None]
SubmitCall(now) ==
    [kind |-> "submit", version |-> now.version, shown |-> now.draft, at |-> "sent", answer |-> None]

SaveAsk ==
    /\ Editable /\ ~Saving
    /\ call' = SaveCall(FALSE)
    /\ UNCHANGED <<catalogueSide, quote, tab, load, moves>>

SubmitAsk ==
    /\ Editable /\ ~Saving /\ tab.draft # <<>>
    /\ call' = IF tab.dirty THEN SaveCall(TRUE) ELSE SubmitCall(tab)
    /\ UNCHANGED <<catalogueSide, quote, tab, load, moves>>

(* The server handles the call.                                            *)
Asked(kind) == call # None /\ call.kind = kind /\ call.at = "sent"
Handled(kind) == call # None /\ call.kind = kind /\ call.at = "done"

Done(new) ==
    /\ quote' = new
    /\ call' = [call EXCEPT !.at = "done", !.answer = new]

Refused ==
    /\ quote' = quote
    /\ call' = [call EXCEPT !.at = "refused"]

SaveHandled ==
    /\ Writes /\ Asked("save")
    /\ IF Patchable(call.version) THEN Done(Patched(call.shown)) ELSE Refused
    /\ UNCHANGED <<catalogueSide, tab, load, moves>>

SubmitHandled ==
    /\ Writes /\ Asked("submit")
    /\ IF Submittable THEN Done(Submitted) ELSE Refused
    /\ UNCHANGED <<catalogueSide, tab, load, moves>>

(* What the answer makes of the tab.  Fault: the lines that were edited    *)
(* stay on screen as they are.                                             *)
Answered_Kept(saved) ==
    [tab EXCEPT !.version = saved.version, !.stage = saved.stage, !.saved = Inputs(saved.lines)]
Answered(saved) ==
    [tab EXCEPT !.version = saved.version, !.stage = saved.stage,
                !.saved = Inputs(saved.lines), !.draft = Inputs(saved.lines)]

SaveAnswered ==
    /\ Handled("save")
    /\ tab' = [Answered(call.answer) EXCEPT !.dirty = FALSE]
    /\ call' = IF call.submits THEN SubmitCall(tab') ELSE None
    /\ UNCHANGED <<catalogueSide, quote, load, moves>>

SubmitAnswered ==
    /\ Handled("submit")
    /\ tab' = Answered(call.answer)
    /\ call' = None
    /\ UNCHANGED <<catalogueSide, quote, load, moves>>

(* The call is refused, or it or its answer is lost.                       *)
CallFailed ==
    /\ call # None
    /\ call' = None
    /\ UNCHANGED <<catalogueSide, quote, tab, load, moves>>

Builder ==
    \/ LoadRead \/ Loaded \/ LoadFailed
    \/ \E i \in 1 .. MaxLines : RemoveLine(i) \/ \E d \in Offers : SetDiscount(i, d)
    \/ (\E p \in Products : AddProduct(p)) \/ Reset
    \/ SaveAsk \/ SubmitAsk \/ SaveHandled \/ SubmitHandled
    \/ SaveAnswered \/ SubmitAnswered \/ CallFailed

---------------------------------------------------------------------------
(* The others.                                                             *)

Moves == moves < MaxMoves /\ moves' = moves + 1

(* A rep at another tab adds a line and saves, an approver returns the     *)
(* quotation, the customer counters.                                       *)
OtherPatch(p) ==
    /\ Writes
    /\ quote.stage = "DRAFT" /\ Len(quote.lines) < MaxLines
    /\ quote' = Patched(Append(Inputs(quote.lines), [product |-> p, price |-> base[p], discount |-> 0]))
    /\ UNCHANGED <<catalogueSide, tab, load, call, moves>>

Return ==
    /\ Writes
    /\ quote.stage = "SENT"
    /\ quote' = [quote EXCEPT !.stage = "DRAFT", !.version = @ + 1]
    /\ UNCHANGED <<catalogueSide, tab, load, call, moves>>

Counter(i, discount) ==
    /\ Writes
    /\ quote.stage = "SENT" /\ i \in DOMAIN quote.lines
    /\ quote' = Countered(i, discount)
    /\ UNCHANGED <<catalogueSide, tab, load, call, moves>>

(* PUT /products/:id *)
Reprice(p, price) ==
    /\ Moves
    /\ base' = [base EXCEPT ![p] = price]
    /\ given' = given \cup ListOf(base', rule[tier])
    /\ UNCHANGED <<rule, tier, quote, tab, load, call>>

(* The price list's form: the value can be typed while the rule is a       *)
(* percentage, and is sent as it stands with the others.                   *)
RuleBodies(current) ==
    [type : {"PERCENT_OFF_BASE"}, value : Percents]
        \cup [type : RuleTypes \ {"PERCENT_OFF_BASE"}, value : {current.value} \cup Percents]

(* PUT /pricelists/:id *)
Ruled(body) == IF body.type = "NONE" THEN [body EXCEPT !.value = 0] ELSE body

SetRule(t, body) ==
    /\ Moves
    /\ body \in RuleBodies(rule[t])
    /\ rule' = [rule EXCEPT ![t] = Ruled(body)]
    /\ given' = given \cup ListOf(base, rule'[tier])
    /\ UNCHANGED <<base, tier, quote, tab, load, call>>

(* PATCH /customers/:id: the new tier brings its price list (Catalogue);   *)
(* the quotations that were made keep the tier they were made for.         *)
Retier(t) ==
    /\ Moves
    /\ tier' = t
    /\ given' = given \cup ListOf(base, rule[t])
    /\ UNCHANGED <<base, rule, quote, tab, load, call>>

Others ==
    \/ \E p \in Products : OtherPatch(p) \/ \E price \in Prices : Reprice(p, price)
    \/ Return
    \/ \E i \in 1 .. MaxLines, d \in Offers : Counter(i, d)
    \/ \E t \in Tiers : Retier(t) \/ \E body \in RuleBodies(rule[t]) : SetRule(t, body)

PricingNext == Builder \/ Others

PricingSpec == PricingInit /\ [][PricingNext]_pricingVars

---------------------------------------------------------------------------
(* A line never costs what a tab made of it: every stored price is one     *)
(* that the customer's own price list asked for the product.               *)
PricesAreListed ==
    \A i \in DOMAIN quote.lines : <<quote.lines[i].product, quote.lines[i].price>> \in given

(* quotation-detail.page.ts:566, "exactly what the server now has too": a  *)
(* tab with no edit in it that holds the stored version shows the lines,   *)
(* prices and discounts that are stored.                                   *)
CleanTabIsTrue ==
    (tab # None /\ ~tab.dirty /\ tab.version = quote.version) => tab.draft = Inputs(quote.lines)

(* quotation-builder.store.ts:316, "what gets submitted is exactly what is *)
(* on screen": the submission that is under way takes the lines the rep    *)
(* was looking at, unless somebody wrote the quotation since the tab read  *)
(* it - which a submission, sent without a version, does not notice.       *)
SubmitsWhatWasShown ==
    (Asked("submit") /\ call.version = quote.version) => call.shown = Inputs(quote.lines)

PricesAreTheServers == PricesAreListed /\ CleanTabIsTrue /\ SubmitsWhatWasShown

---------------------------------------------------------------------------
(* What comments and pages say and the code does not do.                   *)

(* quotation-builder.store.ts:36, the preview "can never disagree with     *)
(* what the server ends up storing": an added line shows the product's     *)
(* price without the tier's list.                                          *)
PreviewNeverDisagrees ==
    Handled("save") => Inputs(call.answer.lines) = call.shown

(* pricing.service.ts:5-7, a submission prices its lines as a save does:   *)
(* it keeps their prices, and takes the ceilings of another tier once the  *)
(* customer's has changed.                                                 *)
AllPriceAlike == [][SubmitHandled /\ quote' # quote =>
                        quote'.lines = PriceLinesForCustomer(Inputs(quote.lines))]_pricingVars

(* quotation-detail.page.ts:566, "every total, margin and risk figure is   *)
(* exactly what the server now has too": after a save the page still takes *)
(* a line's limit from the tier it was loaded with.                        *)
LimitsAreTheServers ==
    (tab # None /\ ~tab.dirty /\ tab.version = quote.version) => PricedLines = quote.lines

(* pricelists.page.ts:79, "Fixed price override": the form has no field    *)
(* for the price and sends the percentage.                                 *)
FixedPriceIsAPrice ==
    \A t \in Tiers : rule[t].type = "FIXED_PRICE" => rule[t].value \notin Percents
=============================================================================
