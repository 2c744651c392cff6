---------------------------- MODULE PartsProofs ----------------------------
(***************************************************************************)
(* What the parts promise, for every value of the constants: proofs of     *)
(* PricesAreTheServers, NothingStrayShown, RequestsSayItOnce,              *)
(* ActionsAreKept and CatalogueAgrees.  A section each: what has to be     *)
(* added for the induction, that it holds at first, that every step keeps  *)
(* it, and that it implies the property.  The last section puts the parts  *)
(* together.                                                               *)
(***************************************************************************)
EXTENDS Parts, FiniteSetTheorems, WellFoundedInduction, TLAPS

---------------------------------------------------------------------------
(* The prices of a quotation.  What a copy in the browser may hold - the   *)
(* stored lines as long as its version is the stored one - and what a call *)
(* under way and its answer carry.                                         *)

Rule == [type : RuleTypes, value : Int]
Line == [product : Products, price : Int, discount : Offers, allowed : Int]
Input == [product : Products, price : Int, discount : Offers]
Stages == {"DRAFT", "SENT"}
Quote == [version : Nat, tier : Tiers, stage : Stages, lines : Seq(Line)]
Copy == [version : Nat, tier : Tiers, stage : Stages, saved : Seq(Input), draft : Seq(Input),
         products : [Products -> Int], dirty : BOOLEAN]

(* A copy that has the stored version has the stored lines, and shows them *)
(* unless it was edited.                                                   *)
CopyAgrees(c, w) ==
    /\ c \in Copy
    /\ c.version <= w.version
    /\ c.version = w.version => c.saved = Inputs(w.lines)
    /\ ~c.dirty => c.draft = c.saved

(* What was answered was stored, and a submission under way was shown the  *)
(* stored lines if it has the stored version.                              *)
SaveCalls == [kind : {"save"}, version : Nat, shown : Seq(Input), submits : BOOLEAN,
              at : {"sent", "done", "refused"}, answer : Quote \cup {None}]
SubmitCalls == [kind : {"submit"}, version : Nat, shown : Seq(Input),
                at : {"sent", "done", "refused"}, answer : Quote \cup {None}]

CallAgrees(c, w) ==
    /\ c \in SaveCalls \cup SubmitCalls
    /\ c.at = "done" =>
          /\ c.answer \in Quote
          /\ c.answer.version <= w.version
          /\ c.answer.version = w.version => c.answer.lines = w.lines
    /\ (c.kind = "submit" /\ c.at = "sent") =>
          /\ c.version <= w.version
          /\ c.version = w.version => c.shown = Inputs(w.lines)

CatalogueTyped ==
    /\ base \in [Products -> Int]
    /\ rule \in [Tiers -> Rule]
    /\ tier \in Tiers
    /\ ListOf(base, rule[tier]) \subseteq given

PricingInv ==
    /\ CatalogueTyped
    /\ quote \in Quote
    /\ PricesAreListed
    /\ tab # None => CopyAgrees(tab, quote)
    /\ load # None => CopyAgrees(load, quote) /\ ~load.dirty
    /\ call # None => CopyAgrees(tab, quote) /\ CallAgrees(call, quote)

---------------------------------------------------------------------------
(* What the operators on prices and lines return.                          *)

(* A function on 1..n is a sequence.                                       *)
LEMMA FunctionIsSequence ==
    ASSUME NEW S, NEW n \in Nat, NEW f \in [1..n -> S]
    PROVE  f \in Seq(S) /\ Len(f) = n /\ DOMAIN f = 1..n
OBVIOUS

(* A list makes a whole price of a whole price.                            *)
LEMMA PriceIsWhole ==
    ASSUME NEW price \in Int, NEW r \in Rule
    PROVE  ResolvePriceListPrice(price, r) \in Int
<1>1. r.value \in Int /\ r.type \in RuleTypes
    BY DEF Rule
<1>2. price * r.value \in Int
    BY <1>1
<1>3. \A n \in Int : RoundHalfUp(n, 100) \in Int
    BY DEF RoundHalfUp
<1>4. PctOf(price, r.value) \in Int
    BY <1>2, <1>3 DEF PctOf
<1>5. price - PctOf(price, r.value) \in Int
    BY <1>4
<1>. QED
    BY <1>1, <1>5 DEF ResolvePriceListPrice

(* What the builder works on is typed as the lines it was sent.            *)
LEMMA InputsType ==
    ASSUME NEW lines \in Seq(Line)
    PROVE  Inputs(lines) \in Seq(Input)
<1>0. \A l \in Line : ToInput(l) \in Input
    BY DEF ToInput, Line, Input
<1>2. DOMAIN lines = 1..Len(lines) /\ Len(lines) \in Nat
    OBVIOUS
<1>1. \A i \in DOMAIN lines : ToInput(lines[i]) \in Input
    BY <1>0, <1>2
<1>3. Inputs(lines) \in [1..Len(lines) -> Input]
    BY <1>1, <1>2 DEF Inputs
<1>. QED
    BY <1>2, <1>3, FunctionIsSequence

(* Priced lines are lines of the same products, at prices of the list.     *)
LEMMA PricedType ==
    ASSUME CatalogueTyped, NEW lines \in Seq(Input)
    PROVE  /\ PriceLinesForCustomer(lines) \in Seq(Line)
           /\ \A i \in DOMAIN PriceLinesForCustomer(lines) :
                 <<PriceLinesForCustomer(lines)[i].product, PriceLinesForCustomer(lines)[i].price>> \in given
<1>. DEFINE priced == PriceLinesForCustomer(lines)
<1>1. DOMAIN lines = 1..Len(lines) /\ Len(lines) \in Nat
    OBVIOUS
<1>2. ASSUME NEW i \in DOMAIN lines
      PROVE  /\ Priced(lines[i], tier) \in Line
             /\ <<Priced(lines[i], tier).product, Priced(lines[i], tier).price>> \in given
    <2>1. lines[i] \in Input
        BY <1>1
    <2>2. lines[i].product \in Products /\ lines[i].discount \in Offers
        BY <2>1 DEF Input
    <2>3. base[lines[i].product] \in Int /\ rule[tier] \in Rule
        BY <2>2 DEF CatalogueTyped
    <2>4. ResolvePriceListPrice(base[lines[i].product], rule[tier]) \in Int
        BY <2>3, PriceIsWhole
    <2>5. Ceiling[tier] \in Int
        BY PricingAssumption DEF CatalogueTyped
    <2>6. <<lines[i].product, ResolvePriceListPrice(base[lines[i].product], rule[tier])>> \in ListOf(base, rule[tier])
        BY <2>2 DEF ListOf
    <2>. QED
        BY <2>2, <2>4, <2>5, <2>6 DEF Priced, Line, CatalogueTyped
<1>3. priced = [i \in 1..Len(lines) |-> Priced(lines[i], tier)]
    BY <1>1 DEF PriceLinesForCustomer
<1>4. priced \in [1..Len(lines) -> Line]
    BY <1>1, <1>2, <1>3
<1>5. priced \in Seq(Line) /\ DOMAIN priced = 1..Len(lines)
    BY <1>1, <1>4, FunctionIsSequence
<1>6. \A i \in DOMAIN priced : <<priced[i].product, priced[i].price>> \in given
    BY <1>1, <1>2, <1>3, <1>5
<1>. QED
    BY <1>5, <1>6

(* Looking the ceilings up again keeps every line's product and price.     *)
LEMMA ReassessedType ==
    ASSUME NEW lines \in Seq(Line), NEW t \in Tiers
    PROVE  /\ Reassessed(lines, t) \in Seq(Line)
           /\ DOMAIN Reassessed(lines, t) = DOMAIN lines
           /\ \A i \in DOMAIN lines : /\ Reassessed(lines, t)[i].product = lines[i].product
                                      /\ Reassessed(lines, t)[i].price = lines[i].price
<1>1. DOMAIN lines = 1..Len(lines) /\ Len(lines) \in Nat
    OBVIOUS
<1>2. Ceiling[t] \in Int
    BY PricingAssumption
<1>3. ASSUME NEW i \in DOMAIN lines
      PROVE  /\ [lines[i] EXCEPT !.allowed = Ceiling[t]] \in Line
             /\ [lines[i] EXCEPT !.allowed = Ceiling[t]].product = lines[i].product
             /\ [lines[i] EXCEPT !.allowed = Ceiling[t]].price = lines[i].price
    <2>1. lines[i] \in Line
        BY <1>1
    <2>. QED
        BY <1>2, <2>1 DEF Line
<1>4. Reassessed(lines, t) = [i \in 1..Len(lines) |-> [lines[i] EXCEPT !.allowed = Ceiling[t]]]
    BY <1>1 DEF Reassessed
<1>5. Reassessed(lines, t) \in [1..Len(lines) -> Line]
    BY <1>1, <1>3, <1>4
<1>6. Reassessed(lines, t) \in Seq(Line) /\ DOMAIN Reassessed(lines, t) = 1..Len(lines)
    BY <1>1, <1>5, FunctionIsSequence
<1>. QED
    BY <1>1, <1>3, <1>4, <1>6

(* Every write of the quotation: it is typed, its version moves by one,    *)
(* and its prices stay listed.                                             *)
Written(new) ==
    /\ new \in Quote
    /\ new.version = quote.version + 1
    /\ \A i \in DOMAIN new.lines : <<new.lines[i].product, new.lines[i].price>> \in given

LEMMA NewLines ==
    ASSUME NEW w \in Quote, NEW s \in Seq(Line)
    PROVE  /\ [w EXCEPT !.lines = s, !.version = @ + 1] \in Quote
           /\ [w EXCEPT !.lines = s, !.version = @ + 1].version = w.version + 1
           /\ [w EXCEPT !.lines = s, !.version = @ + 1].lines = s
<1>. PICK v \in Nat : v = w.version + 1
    BY DEF Quote
<1>. QED
    BY DEF Quote

LEMMA SentLines ==
    ASSUME NEW w \in Quote, NEW s \in Seq(Line)
    PROVE  /\ [w EXCEPT !.lines = s, !.stage = "SENT", !.version = @ + 1] \in Quote
           /\ [w EXCEPT !.lines = s, !.stage = "SENT", !.version = @ + 1].version = w.version + 1
           /\ [w EXCEPT !.lines = s, !.stage = "SENT", !.version = @ + 1].lines = s
<1>. PICK v \in Nat : v = w.version + 1
    BY DEF Quote
<1>. QED
    BY DEF Quote, Stages

LEMMA PatchedWrites ==
    ASSUME PricingInv, NEW lines \in Seq(Input)
    PROVE  Written(Patched(lines))
<1>1. CatalogueTyped /\ quote \in Quote
    BY DEF PricingInv
<1>2. /\ PriceLinesForCustomer(lines) \in Seq(Line)
      /\ \A i \in DOMAIN PriceLinesForCustomer(lines) :
            <<PriceLinesForCustomer(lines)[i].product, PriceLinesForCustomer(lines)[i].price>> \in given
    BY <1>1, PricedType
<1>3. PICK lines2 \in Seq(Line) : lines2 = PriceLinesForCustomer(lines)
    BY <1>2
<1>4. Patched(lines) = [quote EXCEPT !.lines = lines2, !.version = @ + 1]
    BY <1>3 DEF Patched
<1>5. LET new == [quote EXCEPT !.lines = lines2, !.version = @ + 1]
      IN  new \in Quote /\ new.version = quote.version + 1 /\ new.lines = lines2
    <2>1. quote \in Quote /\ lines2 \in Seq(Line)
        BY <1>1
    <2>. QED
        BY ONLY <2>1, NewLines
<1>. QED
    BY <1>2, <1>3, <1>4, <1>5 DEF Written

(* Lines of the same products at the same prices stay listed.              *)
LEMMA SamePricesListed ==
    ASSUME PricesAreListed, NEW lines \in Seq(Line),
           DOMAIN lines = DOMAIN quote.lines,
           \A i \in DOMAIN lines : lines[i].product = quote.lines[i].product /\ lines[i].price = quote.lines[i].price
    PROVE  \A i \in DOMAIN lines : <<lines[i].product, lines[i].price>> \in given
BY DEF PricesAreListed

LEMMA SubmittedWrites ==
    ASSUME PricingInv
    PROVE  Written(Submitted)
<1>1. quote \in Quote /\ PricesAreListed
    BY DEF PricingInv
<1>2. quote.lines \in Seq(Line) /\ quote.tier \in Tiers
    BY <1>1 DEF Quote
<1>. DEFINE lines == Reassessed(quote.lines, quote.tier)
<1>3. /\ lines \in Seq(Line) /\ DOMAIN lines = DOMAIN quote.lines
      /\ \A i \in DOMAIN quote.lines : lines[i].product = quote.lines[i].product /\ lines[i].price = quote.lines[i].price
    BY <1>2, ReassessedType
<1>4. \A i \in DOMAIN lines : <<lines[i].product, lines[i].price>> \in given
    BY <1>1, <1>3, SamePricesListed
<1>5. PICK lines2 \in Seq(Line) : lines2 = lines
    BY <1>3
<1>6. Submitted = [quote EXCEPT !.lines = lines2, !.stage = "SENT", !.version = @ + 1]
    BY <1>5 DEF Submitted
<1>7. LET new == [quote EXCEPT !.lines = lines2, !.stage = "SENT", !.version = @ + 1]
      IN  new \in Quote /\ new.version = quote.version + 1 /\ new.lines = lines2
    <2>1. quote \in Quote /\ lines2 \in Seq(Line)
        BY <1>1
    <2>. QED
        BY ONLY <2>1, SentLines
<1>. HIDE DEF lines
<1>. QED
    BY <1>4, <1>5, <1>6, <1>7 DEF Written

LEMMA CounteredWrites ==
    ASSUME PricingInv, NEW i \in DOMAIN quote.lines, NEW d \in Offers
    PROVE  Written(Countered(i, d))
<1>1. quote \in Quote /\ PricesAreListed
    BY DEF PricingInv
<1>2. quote.lines \in Seq(Line) /\ quote.tier \in Tiers
    BY <1>1 DEF Quote
<1>. DEFINE changed == [quote.lines EXCEPT ![i].discount = d]
            lines == Reassessed(changed, quote.tier)
<1>3. quote.lines[i] \in Line
    BY <1>2
<1>4. LET l == [quote.lines[i] EXCEPT !.discount = d]
      IN  l \in Line /\ l.product = quote.lines[i].product /\ l.price = quote.lines[i].price
    BY <1>3 DEF Line
<1>5. /\ changed \in Seq(Line) /\ DOMAIN changed = DOMAIN quote.lines
      /\ \A j \in DOMAIN quote.lines : changed[j] = IF j = i THEN [quote.lines[i] EXCEPT !.discount = d] ELSE quote.lines[j]
    BY <1>2, <1>4
<1>6. \A j \in DOMAIN quote.lines : changed[j].product = quote.lines[j].product /\ changed[j].price = quote.lines[j].price
    BY <1>4, <1>5
<1>. HIDE DEF changed
<1>7. /\ lines \in Seq(Line) /\ DOMAIN lines = DOMAIN changed
      /\ \A j \in DOMAIN changed : lines[j].product = changed[j].product /\ lines[j].price = changed[j].price
    BY <1>2, <1>5, ReassessedType
<1>. HIDE DEF lines
<1>8. \A j \in DOMAIN lines : lines[j].product = quote.lines[j].product /\ lines[j].price = quote.lines[j].price
    BY <1>5, <1>6, <1>7
<1>9. \A j \in DOMAIN lines : <<lines[j].product, lines[j].price>> \in given
    BY <1>1, <1>5, <1>7, <1>8, SamePricesListed
<1>10. PICK lines2 \in Seq(Line) : lines2 = lines
    BY <1>7
<1>11. Countered(i, d) = [quote EXCEPT !.lines = lines2, !.version = @ + 1]
    BY <1>10 DEF Countered, lines, changed
<1>12. /\ Countered(i, d) \in Quote
       /\ Countered(i, d).version = quote.version + 1 /\ Countered(i, d).lines = lines2
    <2>1. quote \in Quote
        BY <1>1
    <2>2. lines2 \in Seq(Line)
        OBVIOUS
    <2>3. /\ [quote EXCEPT !.lines = lines2, !.version = @ + 1] \in Quote
          /\ [quote EXCEPT !.lines = lines2, !.version = @ + 1].version = quote.version + 1
          /\ [quote EXCEPT !.lines = lines2, !.version = @ + 1].lines = lines2
        BY ONLY <2>1, <2>2, NewLines
    <2>. QED
        BY ONLY <2>3, <1>11
<1>. QED
    BY <1>9, <1>10, <1>12 DEF Written

(* Whoever holds a copy of an earlier version is none the wiser for a      *)
(* write.                                                                  *)
LEMMA CopyStaysBehind ==
    ASSUME NEW c, NEW old \in Quote, NEW new \in Quote, CopyAgrees(c, old),
           new.version = old.version + 1
    PROVE  CopyAgrees(c, new)
BY DEF CopyAgrees, Copy, Quote

LEMMA CallStaysBehind ==
    ASSUME NEW c, NEW old \in Quote, NEW new \in Quote, CallAgrees(c, old),
           new.version = old.version + 1
    PROVE  CallAgrees(c, new)
<1>1. c.version \in Nat
    BY DEF CallAgrees, SaveCalls, SubmitCalls
<1>2. c.at = "done" => c.answer.version \in Nat
    BY DEF CallAgrees, Quote
<1>. QED
    BY <1>1, <1>2 DEF CallAgrees, Quote
---------------------------------------------------------------------------
(* Every step keeps the invariant.                                         *)

(* After a write of the quotation the copies are behind it, and its prices *)
(* are listed.                                                             *)
LEMMA AfterAWrite ==
    ASSUME PricingInv, UNCHANGED <<catalogueSide, tab, load>>, Written(quote'),
           call' # None => CallAgrees(call', quote'), call' # None => call # None
    PROVE  PricingInv'
<1>. PICK old \in Quote : old = quote
    BY DEF PricingInv
<1>. PICK new \in Quote : new = quote'
    BY DEF Written
<1>1. new.version = old.version + 1
    BY DEF Written
<1>2. /\ tab # None => CopyAgrees(tab, new)
      /\ load # None => CopyAgrees(load, new) /\ ~load.dirty
      /\ call # None => CopyAgrees(tab, new)
    BY <1>1, CopyStaysBehind DEF PricingInv
<1>3. CatalogueTyped'
    BY DEF PricingInv, CatalogueTyped, catalogueSide, ListOf, ResolvePriceListPrice
<1>4. PricesAreListed'
    BY DEF Written, PricesAreListed, catalogueSide
<1>. QED
    BY <1>2, <1>3, <1>4 DEF PricingInv

(* A step that leaves the quotation and the catalogue alone.               *)
LEMMA InTheTab ==
    ASSUME PricingInv, UNCHANGED <<catalogueSide, quote>>,
           tab' # None => CopyAgrees(tab', quote),
           load' # None => CopyAgrees(load', quote) /\ ~load'.dirty,
           call' # None => CopyAgrees(tab', quote) /\ CallAgrees(call', quote)
    PROVE  PricingInv'
<1>1. CatalogueTyped'
    BY DEF PricingInv, CatalogueTyped, catalogueSide, ListOf, ResolvePriceListPrice
<1>2. PricesAreListed'
    BY DEF PricingInv, PricesAreListed, catalogueSide
<1>. QED
    BY <1>1, <1>2 DEF PricingInv
---------------------------------------------------------------------------
(* What the builder does to its copy.                                      *)

LEMMA EditedCopy ==
    ASSUME NEW w \in Quote, NEW c, CopyAgrees(c, w), NEW draft \in Seq(Input)
    PROVE  CopyAgrees([c EXCEPT !.draft = draft, !.dirty = TRUE], w)
<1>. PICK e : e = [c EXCEPT !.draft = draft, !.dirty = TRUE]
    OBVIOUS
<1>1. c \in Copy
    BY DEF CopyAgrees
<1>2. e \in Copy /\ e.version = c.version /\ e.saved = c.saved /\ e.dirty
    BY <1>1 DEF Copy
<1>. QED
    BY <1>2 DEF CopyAgrees

LEMMA ResetCopy ==
    ASSUME NEW w \in Quote, NEW c, CopyAgrees(c, w)
    PROVE  CopyAgrees([c EXCEPT !.draft = c.saved, !.dirty = FALSE], w)
<1>. PICK e : e = [c EXCEPT !.draft = c.saved, !.dirty = FALSE]
    OBVIOUS
<1>1. c \in Copy
    BY DEF CopyAgrees
<1>2. e \in Copy /\ e.version = c.version /\ e.saved = c.saved /\ e.draft = c.saved
    BY <1>1 DEF Copy
<1>. QED
    BY <1>2 DEF CopyAgrees

(* The copy that takes over an answer shows the lines that were answered.  *)
TakenOver(c, saved, lines) ==
    [c EXCEPT !.version = saved.version, !.stage = saved.stage, !.saved = lines, !.draft = lines]

LEMMA TakenOverCopy ==
    ASSUME NEW w \in Quote, NEW c \in Copy, NEW saved \in Quote,
           saved.version <= w.version, saved.version = w.version => saved.lines = w.lines
    PROVE  LET e == TakenOver(c, saved, Inputs(saved.lines))
               f == [e EXCEPT !.dirty = FALSE]
           IN  /\ CopyAgrees(e, w) /\ CopyAgrees(f, w)
               /\ f.version = saved.version /\ f.draft = Inputs(saved.lines)
<1>. PICK lines : lines = Inputs(saved.lines)
    OBVIOUS
<1>1. lines \in Seq(Input) /\ saved.version \in Nat /\ saved.stage \in Stages
    BY InputsType DEF Quote
<1>. PICK e : e = TakenOver(c, saved, lines)
    OBVIOUS
<1>2. e \in Copy /\ e.version = saved.version /\ e.saved = lines /\ e.draft = lines
    <2>. PICK v \in Nat : v = saved.version
        BY <1>1
    <2>. PICK st \in Stages : st = saved.stage
        BY <1>1
    <2>1. e = [c EXCEPT !.version = v, !.stage = st, !.saved = lines, !.draft = lines]
        BY DEF TakenOver
    <2>. QED
        BY <1>1, <2>1 DEF Copy
<1>. PICK f : f = [e EXCEPT !.dirty = FALSE]
    OBVIOUS
<1>3. f \in Copy /\ f.version = e.version /\ f.saved = e.saved /\ f.draft = e.draft
    BY <1>2 DEF Copy
<1>4. CopyAgrees(e, w) /\ CopyAgrees(f, w)
    BY <1>2, <1>3 DEF CopyAgrees
<1>. QED
    BY <1>2, <1>3, <1>4

(* What its buttons make of the lines it shows.                            *)
LEMMA DraftsTyped ==
    ASSUME NEW c \in Copy
    PROVE  /\ \A i \in DOMAIN c.draft, d \in Offers :
                 [c.draft EXCEPT ![i].discount = d] \in Seq(Input)
           /\ \A i \in DOMAIN c.draft : RemoveAt(c.draft, i) \in Seq(Input)
           /\ \A p \in Products :
                 Append(c.draft, [product |-> p, price |-> c.products[p], discount |-> 0]) \in Seq(Input)
<1>. PICK draft \in Seq(Input) : draft = c.draft
    BY DEF Copy
<1>1. DOMAIN draft = 1..Len(draft) /\ Len(draft) \in Nat
    OBVIOUS
<1>2. ASSUME NEW i \in DOMAIN draft, NEW d \in Offers
      PROVE  [draft EXCEPT ![i].discount = d] \in Seq(Input)
    <2>1. draft[i] \in Input
        BY <1>1
    <2>2. [draft[i] EXCEPT !.discount = d] \in Input
        BY <2>1 DEF Input
    <2>. QED
        BY <2>2
<1>3. ASSUME NEW i \in DOMAIN draft
      PROVE  RemoveAt(draft, i) \in Seq(Input)
    <2>1. i \in 1..Len(draft)
        BY <1>1
    <2>2. SubSeq(draft, 1, i - 1) \in Seq(Input) /\ SubSeq(draft, i + 1, Len(draft)) \in Seq(Input)
        BY <1>1, <2>1
    <2>. QED
        BY <2>2 DEF RemoveAt
<1>4. ASSUME NEW p \in Products
      PROVE  Append(draft, [product |-> p, price |-> c.products[p], discount |-> 0]) \in Seq(Input)
    <2>1. c.products[p] \in Int
        BY DEF Copy
    <2>2. [product |-> p, price |-> c.products[p], discount |-> 0] \in Input
        BY <2>1, PricingAssumption DEF Input
    <2>. QED
        BY <2>2
<1>. QED
    BY <1>2, <1>3, <1>4
---------------------------------------------------------------------------
LEMMA InitHolds ==
    ASSUME PricingInit
    PROVE  PricingInv
<1>1. base \in [Products -> Int] /\ tier \in Tiers
    BY PricingAssumption DEF PricingInit
<1>2. rule \in [Tiers -> Rule]
    BY PricingAssumption DEF PricingInit, Rule
<1>3. CatalogueTyped
    BY <1>1, <1>2 DEF CatalogueTyped, PricingInit
<1>4. quote \in Quote /\ PricesAreListed
    BY <1>1 DEF PricingInit, Quote, Stages, PricesAreListed
<1>. QED
    BY <1>3, <1>4 DEF PricingInv, PricingInit

(* Loads: a copy of what is stored agrees with it.                         *)
LEMMA LoadSteps ==
    ASSUME PricingInv, LoadRead \/ Loaded \/ LoadFailed
    PROVE  PricingInv'
<1>1. CASE LoadRead
    <2>1. /\ load'.version = quote.version /\ load'.saved = Inputs(quote.lines)
          /\ load'.draft = Inputs(quote.lines) /\ load'.dirty = FALSE
        BY <1>1 DEF LoadRead
    <2>2. Inputs(quote.lines) \in Seq(Input)
        BY InputsType DEF PricingInv, Quote
    <2>3. load' \in Copy
        BY <1>1, <2>2 DEF LoadRead, Copy, PricingInv, CatalogueTyped, Quote
    <2>4. CopyAgrees(load', quote)
        BY <2>1, <2>3 DEF CopyAgrees, PricingInv, Quote
    <2>. QED
        BY <1>1, <2>1, <2>4, InTheTab DEF LoadRead, PricingInv
<1>2. CASE Loaded
    BY <1>2, InTheTab DEF Loaded, PricingInv
<1>3. CASE LoadFailed
    BY <1>3, InTheTab DEF LoadFailed, PricingInv
<1>. QED
    BY <1>1, <1>2, <1>3

(* The rep's edits.                                                        *)
LEMMA EditKeepsInv ==
    ASSUME PricingInv, tab # None, NEW draft \in Seq(Input), Edit(draft)
    PROVE  PricingInv'
<1>1. CopyAgrees(tab', quote)
    BY EditedCopy DEF Edit, PricingInv
<1>. QED
    BY <1>1, InTheTab DEF Edit, PricingInv

LEMMA EditSteps ==
    ASSUME PricingInv,
           \/ \E i \in 1..MaxLines : RemoveLine(i) \/ \E d \in Offers : SetDiscount(i, d)
           \/ \E p \in Products : AddProduct(p)
           \/ Reset
    PROVE  PricingInv'
<1>1. Editable => tab # None /\ tab \in Copy
    BY DEF Editable, PricingInv, CopyAgrees
<1>2. ASSUME NEW i \in 1..MaxLines, RemoveLine(i)
      PROVE  PricingInv'
    BY <1>1, <1>2, DraftsTyped, EditKeepsInv DEF RemoveLine
<1>3. ASSUME NEW i \in 1..MaxLines, NEW d \in Offers, SetDiscount(i, d)
      PROVE  PricingInv'
    BY <1>1, <1>3, DraftsTyped, EditKeepsInv DEF SetDiscount
<1>4. ASSUME NEW p \in Products, AddProduct(p)
      PROVE  PricingInv'
    BY <1>1, <1>4, DraftsTyped, EditKeepsInv DEF AddProduct
<1>5. CASE Reset
    <2>1. CopyAgrees(tab', quote)
        BY <1>1, <1>5, ResetCopy DEF Reset, PricingInv
    <2>. QED
        BY <1>1, <1>5, <2>1, InTheTab DEF Reset, PricingInv
<1>. QED
    BY <1>2, <1>3, <1>4, <1>5

(* Saving and submitting.                                                  *)
LEMMA SaveCallTyped ==
    ASSUME tab \in Copy, NEW submits \in BOOLEAN, NEW w
    PROVE  CallAgrees(SaveCall(submits), w)
<1>1. tab.version \in Nat /\ tab.draft \in Seq(Input)
    BY DEF Copy
<1>2. SaveCall(submits) \in SaveCalls
    BY <1>1 DEF SaveCall, SaveCalls
<1>. QED
    BY <1>2 DEF SaveCall, CallAgrees

LEMMA SubmitCallTyped ==
    ASSUME NEW w \in Quote, NEW c, CopyAgrees(c, w), c.draft = c.saved
    PROVE  CallAgrees(SubmitCall(c), w)
<1>1. c.version \in Nat /\ c.draft \in Seq(Input)
    BY DEF CopyAgrees, Copy
<1>2. SubmitCall(c) \in SubmitCalls
    BY <1>1 DEF SubmitCall, SubmitCalls
<1>. QED
    BY <1>2 DEF SubmitCall, CallAgrees, CopyAgrees

LEMMA AskSteps ==
    ASSUME PricingInv, SaveAsk \/ SubmitAsk
    PROVE  PricingInv'
<1>1. tab # None /\ CopyAgrees(tab, quote) /\ tab \in Copy /\ quote \in Quote
    BY DEF SaveAsk, SubmitAsk, Editable, PricingInv, CopyAgrees
<1>2. CallAgrees(SaveCall(FALSE), quote) /\ CallAgrees(SaveCall(TRUE), quote)
    BY <1>1, SaveCallTyped
<1>3. CASE SaveAsk
    BY <1>1, <1>2, <1>3, InTheTab DEF SaveAsk, PricingInv
<1>4. CASE SubmitAsk
    <2>1. CASE tab.dirty
        BY <1>1, <1>2, <1>4, <2>1, InTheTab DEF SubmitAsk, PricingInv
    <2>2. CASE ~tab.dirty
        <3>1. CallAgrees(SubmitCall(tab), quote)
            BY <1>1, <2>2, SubmitCallTyped DEF CopyAgrees
        <3>. QED
            BY <1>1, <1>4, <2>2, <3>1, InTheTab DEF SubmitAsk, PricingInv
    <2>. QED
        BY <2>1, <2>2
<1>. QED
    BY <1>3, <1>4

(* The server's side: the answer is what it stored.                        *)
LEMMA DoneAgrees ==
    ASSUME NEW w \in Quote, NEW c, CallAgrees(c, w), NEW new \in Quote
    PROVE  CallAgrees([c EXCEPT !.at = "done", !.answer = new], new)
<1>. PICK d : d = [c EXCEPT !.at = "done", !.answer = new]
    OBVIOUS
<1>1. CASE c \in SaveCalls
    <2>1. d \in SaveCalls /\ d.at = "done" /\ d.answer = new
        BY <1>1 DEF SaveCalls
    <2>. QED
        BY <2>1 DEF CallAgrees, Quote
<1>2. CASE c \in SubmitCalls
    <2>1. d \in SubmitCalls /\ d.at = "done" /\ d.answer = new
        BY <1>2 DEF SubmitCalls
    <2>. QED
        BY <2>1 DEF CallAgrees, Quote
<1>. QED
    BY <1>1, <1>2 DEF CallAgrees

LEMMA RefusedAgrees ==
    ASSUME NEW w \in Quote, NEW c, CallAgrees(c, w)
    PROVE  CallAgrees([c EXCEPT !.at = "refused"], w)
<1>. PICK d : d = [c EXCEPT !.at = "refused"]
    OBVIOUS
<1>1. d \in SaveCalls \cup SubmitCalls /\ d.at = "refused"
    <2>1. CASE c \in SaveCalls
        BY <2>1 DEF SaveCalls
    <2>2. CASE c \in SubmitCalls
        BY <2>2 DEF SubmitCalls
    <2>. QED
        BY <2>1, <2>2 DEF CallAgrees
<1>. QED
    BY <1>1 DEF CallAgrees
LEMMA HandledSteps ==
    ASSUME PricingInv, SaveHandled \/ SubmitHandled
    PROVE  PricingInv'
<1>1. call # None /\ CallAgrees(call, quote) /\ CopyAgrees(tab, quote) /\ quote \in Quote
    BY DEF SaveHandled, SubmitHandled, Asked, PricingInv
<1>2. call.shown \in Seq(Input)
    BY <1>1 DEF CallAgrees, SaveCalls, SubmitCalls
<1>3. ASSUME NEW new, Written(new), Done(new), UNCHANGED <<catalogueSide, tab, load>>
      PROVE  PricingInv'
    <2>1. new \in Quote /\ quote' = new
        BY <1>3 DEF Written, Done
    <2>2. CallAgrees(call', quote')
        BY <1>1, <1>3, <2>1, DoneAgrees DEF Done
    <2>3. Written(quote')
        BY <1>3, <2>1
    <2>. QED
        BY <1>1, <1>3, <2>2, <2>3, AfterAWrite
<1>4. ASSUME Refused, UNCHANGED <<catalogueSide, tab, load>>
      PROVE  PricingInv'
    <2>1. CallAgrees(call', quote) /\ quote' = quote
        BY <1>1, <1>4, RefusedAgrees DEF Refused
    <2>. QED
        BY <1>1, <1>4, <2>1, InTheTab DEF PricingInv
<1>5. CASE SaveHandled
    <2>1. Written(Patched(call.shown))
        BY <1>2, PatchedWrites
    <2>. QED
        BY <1>3, <1>4, <1>5, <2>1 DEF SaveHandled
<1>6. CASE SubmitHandled
    BY <1>3, <1>4, <1>6, SubmittedWrites DEF SubmitHandled
<1>. QED
    BY <1>5, <1>6

(* The answer reaches the tab.                                             *)
LEMMA AnsweredSteps ==
    ASSUME PricingInv, SaveAnswered \/ SubmitAnswered \/ CallFailed
    PROVE  PricingInv'
<1>1. call # None /\ CallAgrees(call, quote) /\ CopyAgrees(tab, quote) /\ tab \in Copy /\ quote \in Quote
    BY DEF SaveAnswered, SubmitAnswered, CallFailed, Handled, PricingInv, CopyAgrees
<1>2. CASE CallFailed
    BY <1>2, InTheTab DEF CallFailed, PricingInv
<1>3. ASSUME call.at = "done"
      PROVE  LET f == [Answered(call.answer) EXCEPT !.dirty = FALSE]
             IN  /\ CopyAgrees(Answered(call.answer), quote) /\ CopyAgrees(f, quote)
                 /\ f.version = call.answer.version /\ f.draft = Inputs(call.answer.lines)
    <2>. PICK saved \in Quote : saved = call.answer
        BY <1>1, <1>3 DEF CallAgrees
    <2>1. saved.version <= quote.version /\ (saved.version = quote.version => saved.lines = quote.lines)
        BY <1>1, <1>3 DEF CallAgrees
    <2>2. Answered(call.answer) = TakenOver(tab, saved, Inputs(saved.lines))
        BY DEF Answered, TakenOver
    <2>. QED
        BY <1>1, <2>1, <2>2, TakenOverCopy
<1>4. CASE SaveAnswered
    <2>1. call.at = "done"
        BY <1>4 DEF SaveAnswered, Handled
    <2>2. CopyAgrees(tab', quote)
        BY <1>3, <1>4, <2>1 DEF SaveAnswered
    <2>3. tab'.draft = tab'.saved
        BY <1>4, <2>2 DEF SaveAnswered, CopyAgrees, Copy, Answered
    <2>4. CallAgrees(SubmitCall(tab'), quote)
        BY <1>1, <2>2, <2>3, SubmitCallTyped
    <2>. QED
        BY <1>4, <2>2, <2>4, InTheTab DEF SaveAnswered, PricingInv
<1>5. CASE SubmitAnswered
    <2>1. CopyAgrees(tab', quote)
        BY <1>3, <1>5 DEF SubmitAnswered, Handled
    <2>. QED
        BY <1>5, <2>1, InTheTab DEF SubmitAnswered, PricingInv
<1>. QED
    BY <1>2, <1>4, <1>5

(* Other people's writes.                                                  *)
LEMMA OtherWrites ==
    ASSUME PricingInv,
           \/ \E p \in Products : OtherPatch(p)
           \/ Return
           \/ \E i \in 1..MaxLines, d \in Offers : Counter(i, d)
    PROVE  PricingInv'
<1>1. quote \in Quote /\ PricesAreListed
    BY DEF PricingInv
<1>2. ASSUME Written(quote'), UNCHANGED <<catalogueSide, tab, load, call, moves>>
      PROVE  PricingInv'
    <2>1. call # None => CallAgrees(call, quote')
        BY <1>1, <1>2, CallStaysBehind DEF PricingInv, Written
    <2>. QED
        BY <1>2, <2>1, AfterAWrite
<1>3. ASSUME NEW p \in Products, OtherPatch(p)
      PROVE  PricingInv'
    <2>1. Inputs(quote.lines) \in Seq(Input) /\ base[p] \in Int
        BY <1>1, InputsType DEF Quote, PricingInv, CatalogueTyped
    <2>2. [product |-> p, price |-> base[p], discount |-> 0] \in Input
        BY <2>1, PricingAssumption DEF Input
    <2>3. Append(Inputs(quote.lines), [product |-> p, price |-> base[p], discount |-> 0]) \in Seq(Input)
        BY <2>1, <2>2
    <2>4. Written(quote')
        BY <1>3, <2>3, PatchedWrites DEF OtherPatch
    <2>. QED
        BY <1>2, <1>3, <2>4 DEF OtherPatch
<1>4. CASE Return
    <2>1. /\ quote' \in Quote /\ quote'.version = quote.version + 1 /\ quote'.lines = quote.lines
        <3>. PICK v \in Nat : v = quote.version + 1
            BY <1>1 DEF Quote
        <3>1. quote' = [quote EXCEPT !.stage = "DRAFT", !.version = v]
            BY <1>4 DEF Return
        <3>. QED
            BY <1>1, <3>1 DEF Quote, Stages
    <2>2. Written(quote')
        BY <1>1, <2>1 DEF Written, PricesAreListed
    <2>. QED
        BY <1>2, <1>4, <2>2 DEF Return
<1>5. ASSUME NEW i \in 1..MaxLines, NEW d \in Offers, Counter(i, d)
      PROVE  PricingInv'
    BY <1>2, <1>5, CounteredWrites DEF Counter
<1>. QED
    BY <1>3, <1>4, <1>5

(* The catalogue, the lists and the tier move: what the customer's list    *)
(* asks from then on is among what it has asked.                           *)
LEMMA CatalogueMoves ==
    ASSUME PricingInv,
           \/ \E p \in Products : \E price \in Prices : Reprice(p, price)
           \/ \E t \in Tiers : Retier(t) \/ \E body \in RuleBodies(rule[t]) : SetRule(t, body)
    PROVE  PricingInv'
<1>1. base \in [Products -> Int] /\ rule \in [Tiers -> Rule] /\ tier \in Tiers
    BY DEF PricingInv, CatalogueTyped
<1>2. ASSUME CatalogueTyped', given \subseteq given', UNCHANGED <<quote, tab, load, call>>
      PROVE  PricingInv'
    BY <1>2 DEF PricingInv, PricesAreListed
<1>3. ASSUME NEW p \in Products, NEW price \in Prices, Reprice(p, price)
      PROVE  PricingInv'
    <2>1. price \in Int
        BY PricingAssumption
    <2>2. base' \in [Products -> Int]
        BY <1>1, <1>3, <2>1 DEF Reprice
    <2>3. CatalogueTyped'
        BY <1>1, <1>3, <2>2 DEF CatalogueTyped, Reprice, ListOf, ResolvePriceListPrice
    <2>. QED
        BY <1>2, <1>3, <2>3 DEF Reprice
<1>4. ASSUME NEW t \in Tiers, Retier(t)
      PROVE  PricingInv'
    <2>1. CatalogueTyped'
        BY <1>1, <1>4 DEF CatalogueTyped, Retier, ListOf, ResolvePriceListPrice
    <2>. QED
        BY <1>2, <1>4, <2>1 DEF Retier
<1>5. ASSUME NEW t \in Tiers, NEW body \in RuleBodies(rule[t]), SetRule(t, body)
      PROVE  PricingInv'
    <2>1. rule[t].value \in Int
        BY <1>1 DEF Rule
    <2>2. body \in Rule
        BY <2>1, PricingAssumption DEF RuleBodies, Rule, RuleTypes
    <2>3. Ruled(body) \in Rule
        BY <2>2 DEF Ruled, Rule
    <2>4. rule' \in [Tiers -> Rule]
        BY <1>1, <1>5, <2>3 DEF SetRule
    <2>5. CatalogueTyped'
        BY <1>1, <1>5, <2>4 DEF CatalogueTyped, SetRule, ListOf, ResolvePriceListPrice
    <2>. QED
        BY <1>2, <1>5, <2>5 DEF SetRule
<1>. QED
    BY <1>3, <1>4, <1>5

LEMMA Stutter ==
    ASSUME PricingInv, UNCHANGED pricingVars
    PROVE  PricingInv'
<1>. QED
    BY InTheTab DEF pricingVars, catalogueSide, PricingInv

(* The invariant says all three.                                           *)
LEMMA InvMeansServers ==
    ASSUME PricingInv
    PROVE  PricesAreTheServers
<1>1. CleanTabIsTrue
    BY DEF PricingInv, CopyAgrees, CleanTabIsTrue
<1>2. SubmitsWhatWasShown
    BY DEF PricingInv, CallAgrees, SubmitsWhatWasShown, Asked
<1>. QED
    BY <1>1, <1>2 DEF PricingInv, PricesAreTheServers

(* In every state copies, calls and answers are behind or with what is     *)
(* stored.                                                                 *)
LEMMA PricingStays ==
    ASSUME PricingInv, [PricingNext]_pricingVars
    PROVE  PricingInv'
<1>1. CASE Builder
    BY <1>1, LoadSteps, EditSteps, AskSteps, HandledSteps, AnsweredSteps DEF Builder
<1>2. CASE Others
    BY <1>2, OtherWrites, CatalogueMoves DEF Others
<1>3. CASE UNCHANGED pricingVars
    BY <1>3, Stutter
<1>. QED
    BY <1>1, <1>2, <1>3 DEF PricingNext

THEOREM PricingInvariant == PricingSpec => []PricingInv
<1>1. PricingInit => PricingInv
    BY InitHolds
<1>2. PricingInv /\ [PricingNext]_pricingVars => PricingInv'
    BY PricingStays
<1>. QED
    BY <1>1, <1>2, PTL DEF PricingSpec

(* Whatever a browser shows, sends or loses, and however lists, tiers and  *)
(* the catalogue move: a stored price is one that the customer's list has  *)
(* asked, a builder without edits that holds the stored version shows the  *)
(* stored lines, and a submission of that version submits what was shown.  *)
THEOREM QuotedPricesAreTheServers == PricingSpec => []PricesAreTheServers
BY PricingInvariant, InvMeansServers, PTL

---------------------------------------------------------------------------
(* Sequences.                                                              *)

LEMMA WiderSeq == ASSUME NEW S, NEW T, S \subseteq T PROVE Seq(S) \subseteq Seq(T)
  OBVIOUS

(* A function on 1 .. n is a sequence; the first items of a sequence.      *)
LEMMA SeqOfLength ==
    ASSUME NEW S, NEW n \in Nat, NEW f \in [1 .. n -> S]
    PROVE  f \in Seq(S) /\ Len(f) = n
  OBVIOUS

LEMMA FirstItems ==
    ASSUME NEW S, NEW s \in Seq(S), NEW k \in Nat, k <= Len(s)
    PROVE  /\ SubSeq(s, 1, k) \in Seq(S) /\ Len(SubSeq(s, 1, k)) = k
           /\ \A i \in 1 .. k : SubSeq(s, 1, k)[i] = s[i]
  OBVIOUS

LEMMA OneInFront ==
    ASSUME NEW S, NEW s \in Seq(S), NEW x \in S
    PROVE  /\ <<x>> \o s \in Seq(S) /\ Len(<<x>> \o s) = Len(s) + 1
           /\ \A i \in 1 .. Len(<<x>> \o s) : (<<x>> \o s)[i] = IF i = 1 THEN x ELSE s[i - 1]
  OBVIOUS

---------------------------------------------------------------------------
(* The bell.                                                               *)

(* A panel: rows of the n that there are, none twice, as many as it holds. *)
Panel(rs, n) ==
    /\ rs \in Seq([id : 1 .. n, read : BOOLEAN])
    /\ Len(rs) <= Window
    /\ \A i, j \in DOMAIN rs : rs[i].id = rs[j].id => i = j

(* Everything that is on its way to a panel: the jobs of handlers, the     *)
(* frames and the answers of loads.                                        *)
Known(n) == [new : 1 .. n] \cup [unread : Nat]
Loading(n) == [at : {"sent"}] \cup {l \in [at : {"answer"}, items : Seq([id : 1 .. n, read : BOOLEAN]),
                                          unread : Nat] : Panel(l.items, n)}

BellServer ==
    /\ row \in Seq(BOOLEAN) /\ Len(row) <= Rows
    /\ jobs \subseteq B!Jobs
    /\ \A job \in jobs : job.do = "announce" => job.id \in 1 .. Len(row)
    /\ marking \in [Tabs -> [at : {"idle", "saved", "answered"}] \cup [at : {"sent"}, id : {0} \cup B!Ids]]

BellWire ==
    /\ frames \in [Tabs -> Seq(Known(Len(row)))]
    /\ \A t \in Tabs : Len(frames[t]) <= Frames
    /\ loads \in [Tabs -> SUBSET Loading(Len(row))]

BellPanels ==
    /\ DOMAIN shown = Tabs
    /\ \A t \in Tabs : shown[t] # None =>
          /\ shown[t] = [items |-> shown[t].items, unread |-> shown[t].unread]
          /\ Panel(shown[t].items, Len(row))
          /\ shown[t].unread \in Nat

BellInv == BellServer /\ BellWire /\ BellPanels

(* What is known of fewer rows is known of more.                           *)
LEMMA PanelGrows ==
    ASSUME NEW n \in Nat, NEW m \in Nat, n <= m
    PROVE  /\ \A rs : Panel(rs, n) => Panel(rs, m)
           /\ Seq(Known(n)) \subseteq Seq(Known(m))
           /\ Loading(n) \subseteq Loading(m)
<1>1. [id : 1 .. n, read : BOOLEAN] \subseteq [id : 1 .. m, read : BOOLEAN] /\ Known(n) \subseteq Known(m)
  BY DEF Known
<1>2. /\ Seq([id : 1 .. n, read : BOOLEAN]) \subseteq Seq([id : 1 .. m, read : BOOLEAN])
      /\ Seq(Known(n)) \subseteq Seq(Known(m))
  BY <1>1, WiderSeq
<1>3. \A rs : Panel(rs, n) => Panel(rs, m)
  BY <1>2 DEF Panel
<1> QED
  BY <1>2, <1>3 DEF Loading

LEMMA PanelRows ==
    ASSUME NEW n, NEW rs, Panel(rs, n)
    PROVE  /\ rs \in Seq([id : 1 .. n, read : BOOLEAN])
           /\ Len(rs) \in Nat /\ DOMAIN rs = 1 .. Len(rs)
           /\ \A i \in DOMAIN rs : rs[i] \in [id : 1 .. n, read : BOOLEAN]
<1> DEFINE R == [id : 1 .. n, read : BOOLEAN]
<1>1. rs \in Seq(R)
  BY DEF Panel
<1> HIDE DEF R
<1>2. Len(rs) \in Nat /\ DOMAIN rs = 1 .. Len(rs) /\ \A i \in DOMAIN rs : rs[i] \in R
  BY <1>1
<1> QED
  BY <1>1, <1>2 DEF R

(* A list of the store with other items or another count.                  *)
LEMMA OtherCount ==
    ASSUME NEW h, h = [items |-> h.items, unread |-> h.unread], NEW u
    PROVE  [h EXCEPT !.unread = u] = [items |-> h.items, unread |-> u]
<1>1. [h EXCEPT !.unread = u] = [[items |-> h.items, unread |-> h.unread] EXCEPT !.unread = u]
  OBVIOUS
<1> QED
  BY <1>1

LEMMA CountOfInterval ==
    ASSUME NEW n \in Nat PROVE IsFiniteSet(1 .. n) /\ Cardinality(1 .. n) = n
  BY FS_Interval

LEMMA BellCounts == ASSUME NEW S PROVE B!Cardinality(S) = Cardinality(S)
  BY DEF B!Cardinality, Cardinality

(* The count of the unread is a number of rows.                            *)
LEMMA UnreadIsCounted ==
    ASSUME row \in Seq(BOOLEAN), Len(row) <= Rows, Rows \in Nat
    PROVE  B!Unread \in 0 .. Rows
<1> DEFINE some == {n \in DOMAIN row : ~row[n]}
<1>0. Len(row) \in Nat
  OBVIOUS
<1>1. IsFiniteSet(1 .. Len(row)) /\ Cardinality(1 .. Len(row)) = Len(row)
  BY <1>0, CountOfInterval
<1>2. some \subseteq 1 .. Len(row)
  OBVIOUS
<1>3. IsFiniteSet(some) /\ Cardinality(some) <= Len(row) /\ Cardinality(some) \in Nat
  BY <1>1, <1>2, FS_Subset, FS_CardinalityType
<1> QED
  <2>1. B!Unread = Cardinality(some)
    BY BellCounts DEF B!Unread
  <2> QED
    BY <1>0, <1>3, <2>1

(* The newest rows make a panel.                                           *)
LEMMA LatestIsAPanel ==
    ASSUME row \in Seq(BOOLEAN), Window \in Nat
    PROVE  Panel(B!Latest, Len(row))
<1> DEFINE n == IF Len(row) < Window THEN Len(row) ELSE Window
<1>1. n \in Nat /\ n <= Window /\ n <= Len(row)
  OBVIOUS
<1>2. B!Latest = [i \in 1 .. n |-> [id |-> Len(row) + 1 - i, read |-> row[Len(row) + 1 - i]]]
  BY DEF B!Latest
<1>3. \A i \in 1 .. n : Len(row) + 1 - i \in 1 .. Len(row) /\ row[Len(row) + 1 - i] \in BOOLEAN
  BY <1>1
<1>4. B!Latest \in [1 .. n -> [id : 1 .. Len(row), read : BOOLEAN]]
  BY <1>2, <1>3
<1>5. B!Latest \in Seq([id : 1 .. Len(row), read : BOOLEAN]) /\ Len(B!Latest) = n
  BY <1>1, <1>4, SeqOfLength
<1>6. \A i, j \in DOMAIN B!Latest : B!Latest[i].id = B!Latest[j].id => i = j
  <2>. SUFFICES ASSUME NEW i \in DOMAIN B!Latest, NEW j \in DOMAIN B!Latest, B!Latest[i].id = B!Latest[j].id
                PROVE  i = j
    OBVIOUS
  <2>1. i \in 1 .. n /\ j \in 1 .. n
    BY <1>4
  <2>2. B!Latest[i].id = Len(row) + 1 - i /\ B!Latest[j].id = Len(row) + 1 - j
    BY <1>2, <2>1
  <2> QED
    <3>1. Len(row) + 1 - i = Len(row) + 1 - j
      BY <2>2
    <3> QED
      BY <3>1, <2>1, <1>1
<1> QED
  BY <1>1, <1>5, <1>6 DEF Panel

(* A row that arrives stands in the panel once.                            *)
LEMMA ReceivedIsAPanel ==
    ASSUME Window \in Nat, NEW n \in Nat, NEW rs, Panel(rs, n), NEW u \in Nat, NEW id \in 1 .. n
    PROVE  LET l == B!Received([items |-> rs, unread |-> u], id)
           IN  /\ l = [items |-> l.items, unread |-> l.unread]
               /\ Panel(l.items, n) /\ l.unread \in Nat
<1> DEFINE old == [items |-> rs, unread |-> u]
           e == [id |-> id, read |-> FALSE]
           R == [id : 1 .. n, read : BOOLEAN]
<1>0. rs \in Seq(R) /\ Len(rs) <= Window /\ e \in R /\ \A i, j \in DOMAIN rs : rs[i].id = rs[j].id => i = j
  BY DEF Panel
<1>1. CASE id \in B!IdsIn(rs)
  <2> DEFINE new == [i \in DOMAIN rs |-> IF rs[i].id = id THEN e ELSE rs[i]]
  <2>1. B!Received(old, id) = [items |-> new, unread |-> u]
    BY <1>1 DEF B!Received
  <2>2. new \in Seq(R) /\ Len(new) = Len(rs) /\ DOMAIN new = DOMAIN rs
    <3>1. Len(rs) \in Nat /\ DOMAIN rs = 1 .. Len(rs) /\ \A i \in DOMAIN rs : rs[i] \in R
      <4>. HIDE DEF e, R
      <4> QED
        BY <1>0
    <3>. HIDE DEF e, R
    <3>2. new \in [1 .. Len(rs) -> R]
      BY <3>1, <1>0
    <3> QED
      BY <3>1, <3>2, SeqOfLength
  <2>3. \A i \in DOMAIN rs : new[i].id = rs[i].id
    OBVIOUS
  <2>4. Panel(new, n)
    BY <1>0, <2>2, <2>3 DEF Panel
  <2> HIDE DEF new
  <2> QED
    BY <2>1, <2>4
<1>2. CASE id \notin B!IdsIn(rs)
  <2> DEFINE all == <<e>> \o rs
             k == IF Len(rs) < Window THEN Len(rs) + 1 ELSE Window
             new == SubSeq(all, 1, k)
  <2>1. B!Received(old, id) = [items |-> new, unread |-> u + 1]
    BY <1>2 DEF B!Received
  <2>2. all \in Seq(R) /\ Len(all) = Len(rs) + 1 /\ \A i \in 1 .. Len(all) : all[i] = IF i = 1 THEN e ELSE rs[i - 1]
    <3>. HIDE DEF e, R
    <3> QED
      BY <1>0, OneInFront
  <2>3. k \in Nat /\ k <= Window /\ k <= Len(all)
    BY <1>0, <2>2
  <2>4. new \in Seq(R) /\ Len(new) = k /\ \A i \in 1 .. k : new[i] = all[i]
    BY <2>2, <2>3, FirstItems
  <2>5. \A i \in DOMAIN rs : rs[i].id # id
    BY <1>2 DEF B!IdsIn
  <2>. HIDE DEF new
  <2>8. DOMAIN new = 1 .. k
    BY <2>3, <2>4
  <2>6. \A i, j \in DOMAIN new : new[i].id = new[j].id => i = j
    <3>. SUFFICES ASSUME NEW i \in 1 .. k, NEW j \in 1 .. k, new[i].id = new[j].id
                  PROVE  i = j
      BY <2>8
    <3>1. new[i].id = (IF i = 1 THEN id ELSE rs[i - 1].id) /\ new[j].id = (IF j = 1 THEN id ELSE rs[j - 1].id)
      <4>1. e.id = id
        BY Zenon
      <4>. HIDE DEF e, R, all
      <4>2. \A m \in 1 .. k : new[m] = IF m = 1 THEN e ELSE rs[m - 1]
        BY <2>2, <2>3, <2>4
      <4> QED
        BY <4>1, <4>2
    <3>2. (i # 1 => i - 1 \in DOMAIN rs) /\ (j # 1 => j - 1 \in DOMAIN rs)
      BY <1>0, <2>2, <2>3
    <3>3. \A x, y \in DOMAIN rs : rs[x].id = rs[y].id => x = y
      BY <1>0
    <3>4. i \in Int /\ j \in Int
      BY <2>3
    <3>. HIDE DEF e, R, all, k
    <3>5. CASE i # 1 /\ j # 1
      <4>1. rs[i - 1].id = rs[j - 1].id
        BY <3>1, <3>5
      <4>2. i - 1 = j - 1
        BY <3>2, <3>3, <3>5, <4>1
      <4> QED
        BY <3>4, <4>2
    <3>6. CASE i = 1 \/ j = 1
      BY <3>1, <3>2, <2>5, <3>6
    <3> QED
      BY <3>5, <3>6
  <2>7. Panel(new, n)
    BY <2>3, <2>4, <2>6 DEF Panel
  <2>9. B!Received(old, id) = [items |-> new, unread |-> u + 1] /\ u + 1 \in Nat
    BY <2>1 DEF new
  <2>. HIDE DEF e, R, all, k
  <2> QED
    BY <2>7, <2>9
<1> QED
  BY <1>1, <1>2

(* A handler, an answer or a tab at a time.                                *)
LEMMA BellInitially == ASSUME B!Init PROVE BellInv
<1>0. row = <<>> /\ jobs = {} /\ Len(row) = 0
  BY DEF B!Init
<1>1. BellServer
  <2>1. marking = [t \in Tabs |-> [at |-> "idle"]]
    BY DEF B!Init, B!Idle
  <2> QED
    BY <1>0, <2>1, PartsAssumption DEF BellServer, PartsAssumption
<1>2. BellWire
  <2>1. frames = [t \in Tabs |-> <<>>] /\ loads = [t \in Tabs |-> {[at |-> "sent"]}]
    BY DEF B!Init
  <2>2. <<>> \in Seq(Known(Len(row))) /\ Len(<<>>) = 0
    OBVIOUS
  <2>3. \A t \in Tabs : Len(frames[t]) <= Frames
    BY <2>1, <2>2, PartsAssumption DEF PartsAssumption
  <2>4. {[at |-> "sent"]} \subseteq Loading(Len(row))
    BY DEF Loading
  <2> QED
    BY <2>1, <2>2, <2>3, <2>4 DEF BellWire
<1>3. BellPanels
  BY DEF B!Init, BellPanels
<1> QED
  BY <1>1, <1>2, <1>3 DEF BellInv

LEMMA BellWrites ==
    ASSUME BellInv, B!Notify
    PROVE  BellInv'
<1> USE DEF BellInv
<1>1. /\ row \in Seq(BOOLEAN) /\ row' = Append(row, FALSE) /\ Len(row) < Rows
      /\ jobs' = jobs \cup {[do |-> "announce", id |-> Len(row) + 1]}
      /\ UNCHANGED <<frames, shown, loads, marking>>
  BY DEF BellServer, B!Notify
<1>2. row' \in Seq(BOOLEAN) /\ Len(row') = Len(row) + 1 /\ Len(row) \in Nat
  BY <1>1
<1>3. Len(row) + 1 \in B!Ids
  BY <1>1, <1>2, PartsAssumption DEF B!Ids, PartsAssumption
<1>4. BellServer'
  <2>1. [do |-> "announce", id |-> Len(row) + 1] \in B!Jobs
    BY <1>3 DEF B!Jobs
  <2>2. jobs' \subseteq B!Jobs
    BY <1>1, <2>1 DEF BellServer
  <2>3. \A job \in jobs' : job.do = "announce" => job.id \in 1 .. Len(row')
    BY <1>1, <1>2 DEF BellServer
  <2>4. Len(row') <= Rows
    BY <1>1, <1>2, PartsAssumption DEF PartsAssumption
  <2> QED
    BY <1>1, <1>2, <2>2, <2>3, <2>4 DEF BellServer
<1>5. /\ \A rs : Panel(rs, Len(row)) => Panel(rs, Len(row'))
      /\ Seq(Known(Len(row))) \subseteq Seq(Known(Len(row')))
      /\ Loading(Len(row)) \subseteq Loading(Len(row'))
  BY <1>2, PanelGrows
<1>6. BellWire'
  BY <1>1, <1>5 DEF BellWire
<1>7. BellPanels'
  BY <1>1, <1>5 DEF BellPanels
<1> QED
  BY <1>4, <1>6, <1>7

(* The rows are the same, marked or not.                                   *)
LEMMA BellMarks ==
    ASSUME BellInv, NEW id \in {0} \cup B!Ids, NEW t \in Tabs \cup {None},
           row' = [n \in DOMAIN row |-> row[n] \/ id \in {B!All, n}],
           jobs' = jobs \cup {[do |-> "count", for |-> t, id |-> id]},
           \/ marking' = marking
           \/ \E u \in Tabs : marking' = [marking EXCEPT ![u] = [at |-> "saved"]],
           UNCHANGED <<frames, shown, loads>>
    PROVE  BellInv'
<1> USE DEF BellInv
<1>1. row \in Seq(BOOLEAN) /\ Len(row) \in Nat /\ DOMAIN row = 1 .. Len(row)
  BY DEF BellServer
<1>2. row' \in [1 .. Len(row) -> BOOLEAN]
  BY <1>1
<1>3. row' \in Seq(BOOLEAN) /\ Len(row') = Len(row)
  BY <1>1, <1>2, SeqOfLength
<1>4. BellServer'
  <2>1. [do |-> "count", for |-> t, id |-> id] \in B!Jobs
    BY DEF B!Jobs, B!All
  <2>2. jobs' \subseteq B!Jobs
    BY <2>1 DEF BellServer
  <2>3. \A job \in jobs' : job.do = "announce" => job.id \in 1 .. Len(row')
    BY <1>3 DEF BellServer
  <2>4. marking' \in [Tabs -> [at : {"idle", "saved", "answered"}] \cup [at : {"sent"}, id : {0} \cup B!Ids]]
    BY DEF BellServer
  <2> QED
    BY <1>3, <2>2, <2>3, <2>4 DEF BellServer
<1>5. BellWire' /\ BellPanels'
  BY <1>3 DEF BellWire, BellPanels
<1> QED
  BY <1>4, <1>5

(* A push is a frame for every tab, if there is room for it.               *)
LEMMA BellPushes ==
    ASSUME BellInv, NEW f \in Known(Len(row)), B!Room, B!Emit(f),
           UNCHANGED <<row, shown, loads>>
    PROVE  BellWire' /\ BellPanels'
<1> USE DEF BellInv
<1>1. frames \in [Tabs -> Seq(Known(Len(row)))] /\ frames' = [t \in Tabs |-> Append(frames[t], f)]
  BY DEF BellWire, B!Emit
<1>2. ASSUME NEW t \in Tabs
      PROVE  Append(frames[t], f) \in Seq(Known(Len(row))) /\ Len(Append(frames[t], f)) <= Frames
  <2>1. frames[t] \in Seq(Known(Len(row))) /\ Len(frames[t]) < Frames
    BY <1>1 DEF B!Room
  <2>2. Append(frames[t], f) \in Seq(Known(Len(row))) /\ Len(Append(frames[t], f)) = Len(frames[t]) + 1
    BY <2>1
  <2>3. Len(frames[t]) \in Nat /\ Frames \in Nat
    BY <2>1, PartsAssumption DEF PartsAssumption
  <2> QED
    BY <2>1, <2>2, <2>3
<1>3. frames' \in [Tabs -> Seq(Known(Len(row)))] /\ \A t \in Tabs : Len(frames'[t]) <= Frames
  BY <1>1, <1>2
<1> QED
  BY <1>3 DEF BellWire, BellPanels

LEMMA BellWorks ==
    ASSUME BellInv, NEW job \in jobs, B!Work(job)
    PROVE  BellInv'
<1> USE DEF BellInv
<1>0. row \in Seq(BOOLEAN) /\ Len(row) <= Rows /\ jobs \subseteq B!Jobs /\ job \in B!Jobs
  BY DEF BellServer
<1>1. CASE B!Announce(job)
  <2>1. /\ job.do = "announce" /\ B!Room /\ B!Emit([new |-> job.id])
        /\ jobs' = (jobs \ {job}) \cup {[do |-> "count", for |-> None, id |-> job.id]}
        /\ UNCHANGED <<row, shown, loads, marking>>
    BY <1>1 DEF B!Announce
  <2>2. job.id \in 1 .. Len(row)
    BY <2>1 DEF BellServer
  <2>3. [new |-> job.id] \in Known(Len(row))
    BY <2>2 DEF Known
  <2>4. BellWire' /\ BellPanels'
    BY <2>1, <2>3, BellPushes
  <2>5. [do |-> "count", for |-> None, id |-> job.id] \in B!Jobs
    BY <1>0, <2>2, PartsAssumption DEF B!Jobs, B!Ids, PartsAssumption
  <2>6. BellServer'
    BY <1>0, <2>1, <2>5 DEF BellServer
  <2> QED
    BY <2>4, <2>6
<1>2. CASE B!CountUnread(job)
  <2>1. /\ job.do = "count"
        /\ jobs' = (jobs \ {job})
              \cup {[do |-> "push", for |-> job.for, id |-> job.id, unread |-> B!Unread]}
        /\ UNCHANGED <<row, frames, shown, loads, marking>>
    BY <1>2 DEF B!CountUnread
  <2>2. job.for \in Tabs \cup {None} /\ job.id \in {0} \cup B!Ids
    BY <1>0, <2>1 DEF B!Jobs, B!All
  <2>3. [do |-> "push", for |-> job.for, id |-> job.id, unread |-> B!Unread] \in B!Jobs
    BY <1>0, <2>2, UnreadIsCounted, PartsAssumption DEF B!Jobs, B!All, PartsAssumption
  <2>4. BellServer'
    BY <1>0, <2>1, <2>3 DEF BellServer
  <2> QED
    BY <2>1, <2>4 DEF BellWire, BellPanels
<1>3. CASE B!PushUnread(job)
  <2>1. /\ job.do = "push" /\ B!Room /\ B!Emit([unread |-> job.unread])
        /\ jobs' = jobs \ {job}
        /\ marking' = IF job.for = None THEN marking ELSE [marking EXCEPT ![job.for] = [at |-> "answered"]]
        /\ UNCHANGED <<row, shown, loads>>
    BY <1>3 DEF B!PushUnread
  <2>2. job.for \in Tabs \cup {None} /\ job.unread \in 0 .. Rows
    BY <1>0, <2>1 DEF B!Jobs
  <2>3. [unread |-> job.unread] \in Known(Len(row))
    BY <2>2 DEF Known
  <2>4. BellWire' /\ BellPanels'
    BY <2>1, <2>3, BellPushes
  <2>5. BellServer'
    BY <1>0, <2>1, <2>2 DEF BellServer
  <2> QED
    BY <2>4, <2>5
<1> QED
  BY <1>1, <1>2, <1>3 DEF B!Work

(* What a tab shows without a panel is an empty one.                       *)
LEMMA HeldIsAPanel ==
    ASSUME BellPanels, NEW t \in Tabs, row \in Seq(BOOLEAN), Window \in Nat
    PROVE  /\ B!Held(t) = [items |-> B!Held(t).items, unread |-> B!Held(t).unread]
           /\ Panel(B!Held(t).items, Len(row)) /\ B!Held(t).unread \in Nat
<1>1. CASE shown[t] = None
  <2>1. B!Held(t) = [items |-> <<>>, unread |-> 0]
    BY <1>1 DEF B!Held, B!Empty
  <2>2. Panel(<<>>, Len(row))
    BY DEF Panel
  <2> QED
    BY <2>1, <2>2
<1>2. CASE shown[t] # None
  BY <1>2 DEF BellPanels, B!Held
<1> QED
  BY <1>1, <1>2

(* One tab's panel changes.                                                *)
LEMMA OnePanel ==
    ASSUME BellInv, NEW t \in Tabs, NEW l,
           l = [items |-> l.items, unread |-> l.unread], Panel(l.items, Len(row)), l.unread \in Nat,
           shown' = [shown EXCEPT ![t] = l], row' = row
    PROVE  BellPanels'
  BY DEF BellInv, BellPanels

LEMMA BellDelivers ==
    ASSUME BellInv, NEW t \in Tabs, B!Deliver(t)
    PROVE  BellInv'
<1> USE DEF BellInv
<1> DEFINE f == Head(frames[t])
<1>0. row \in Seq(BOOLEAN) /\ Window \in Nat /\ Len(row) \in Nat
  BY PartsAssumption DEF BellServer, PartsAssumption
<1>1. /\ frames[t] # <<>> /\ frames' = [frames EXCEPT ![t] = Tail(frames[t])]
      /\ shown' = [shown EXCEPT ![t] =
              IF "new" \in DOMAIN f THEN B!Received(B!Held(t), f.new)
              ELSE [B!Held(t) EXCEPT !.unread = f.unread]]
      /\ UNCHANGED <<row, jobs, loads, marking>>
  BY DEF B!Deliver
<1>2. /\ frames[t] \in Seq(Known(Len(row))) /\ frames \in [Tabs -> Seq(Known(Len(row)))]
      /\ \A u \in Tabs : Len(frames[u]) <= Frames
  BY DEF BellWire
<1>3. f \in Known(Len(row)) /\ Tail(frames[t]) \in Seq(Known(Len(row)))
         /\ Len(Tail(frames[t])) = Len(frames[t]) - 1 /\ Len(frames[t]) \in Nat
  BY <1>1, <1>2
<1>4. BellWire'
  <2>1. Len(Tail(frames[t])) <= Frames
    BY <1>2, <1>3, PartsAssumption DEF PartsAssumption
  <2> QED
    BY <1>1, <1>2, <1>3, <2>1 DEF BellWire
<1>5. /\ B!Held(t) = [items |-> B!Held(t).items, unread |-> B!Held(t).unread]
      /\ Panel(B!Held(t).items, Len(row)) /\ B!Held(t).unread \in Nat
  BY <1>0, HeldIsAPanel
<1>6. BellPanels'
  <2>1. CASE f \in [new : 1 .. Len(row)]
    <3>1. "new" \in DOMAIN f /\ f.new \in 1 .. Len(row)
      BY <2>1
    <3> DEFINE l == B!Received(B!Held(t), f.new)
    <3>2. l = [items |-> l.items, unread |-> l.unread] /\ Panel(l.items, Len(row)) /\ l.unread \in Nat
      BY <1>0, <1>5, <3>1, ReceivedIsAPanel
    <3>3. shown' = [shown EXCEPT ![t] = l]
      BY <1>1, <3>1
    <3>. HIDE DEF l
    <3> QED
      BY <1>1, <3>2, <3>3, OnePanel
  <2>2. CASE f \in [unread : Nat]
    <3>1. "new" \notin DOMAIN f /\ f.unread \in Nat
      BY <2>2
    <3> DEFINE l == [items |-> B!Held(t).items, unread |-> f.unread]
    <3>2. shown' = [shown EXCEPT ![t] = l]
      BY <1>1, <1>5, <3>1, OtherCount
    <3>3. l = [items |-> l.items, unread |-> l.unread] /\ Panel(l.items, Len(row)) /\ l.unread \in Nat
      BY <1>5, <3>1
    <3>. HIDE DEF l
    <3> QED
      BY <1>1, <3>2, <3>3, OnePanel
  <2> QED
    BY <1>3, <2>1, <2>2 DEF Known
<1> QED
  BY <1>1, <1>4, <1>6 DEF BellServer

LEMMA BellLoads ==
    ASSUME BellInv, NEW t \in Tabs, NEW pull \in loads[t],
           B!Read(t, pull) \/ B!Loaded(t, pull) \/ B!LoadFails(t, pull)
    PROVE  BellInv'
<1> USE DEF BellInv
<1>0. row \in Seq(BOOLEAN) /\ Len(row) <= Rows /\ Window \in Nat /\ Rows \in Nat
  BY PartsAssumption DEF BellServer, PartsAssumption
<1>1. loads \in [Tabs -> SUBSET Loading(Len(row))] /\ pull \in Loading(Len(row))
  BY DEF BellWire
<1>2. CASE B!Read(t, pull)
  <2> DEFINE l == [at |-> "answer", items |-> B!Latest, unread |-> B!Unread]
  <2>1. loads' = [loads EXCEPT ![t] = (@ \ {pull}) \cup {l}] /\ UNCHANGED <<row, jobs, frames, shown, marking>>
    BY <1>2 DEF B!Read, B!Becomes
  <2>2. Panel(B!Latest, Len(row)) /\ B!Unread \in Nat
    BY <1>0, LatestIsAPanel, UnreadIsCounted
  <2>3. l \in Loading(Len(row))
    BY <2>2 DEF Loading, Panel
  <2> HIDE DEF l
  <2>4. loads' \in [Tabs -> SUBSET Loading(Len(row))]
    BY <1>1, <2>1, <2>3
  <2> QED
    BY <2>1, <2>4 DEF BellServer, BellWire, BellPanels
<1>3. CASE B!Loaded(t, pull)
  <2> DEFINE l == [items |-> pull.items, unread |-> pull.unread]
  <2>1. /\ pull.at = "answer" /\ loads' = [loads EXCEPT ![t] = (@ \ {pull}) \cup {}]
        /\ shown' = [shown EXCEPT ![t] = l]
        /\ UNCHANGED <<row, jobs, frames, marking>>
    BY <1>3 DEF B!Loaded, B!Becomes
  <2>2. Panel(pull.items, Len(row)) /\ pull.unread \in Nat
    BY <1>1, <2>1 DEF Loading
  <2>3. l = [items |-> l.items, unread |-> l.unread] /\ Panel(l.items, Len(row)) /\ l.unread \in Nat
    BY <2>2
  <2>. HIDE DEF l
  <2>4. BellPanels'
    BY <2>1, <2>3, OnePanel
  <2> QED
    BY <1>1, <2>1, <2>4 DEF BellServer, BellWire
<1>4. CASE B!LoadFails(t, pull)
  BY <1>1, <1>4 DEF B!LoadFails, B!Becomes, BellServer, BellWire, BellPanels
<1> QED
  BY <1>2, <1>3, <1>4

(* Clicks of the user.                                                     *)
LEMMA BellReads ==
    ASSUME BellInv, NEW t \in Tabs, NEW i, B!MarkRead(t, i)
    PROVE  BellInv'
<1> USE DEF BellInv
<1> DEFINE rs == B!Held(t).items
           e == [rs[i] EXCEPT !.read = TRUE]
           l == [items |-> [rs EXCEPT ![i] = e],
                 unread |-> IF shown[t].unread = 0 THEN 0 ELSE shown[t].unread - 1]
           R == [id : 1 .. Len(row), read : BOOLEAN]
<1>0. row \in Seq(BOOLEAN) /\ Len(row) <= Rows /\ Len(row) \in Nat /\ Window \in Nat /\ Rows \in Nat
  BY PartsAssumption DEF BellServer, PartsAssumption
<1>1. /\ i \in DOMAIN rs
      /\ shown' = [shown EXCEPT ![t] = B!ReadIn(shown[t], i)]
      /\ marking' = [marking EXCEPT ![t] = [at |-> "sent", id |-> rs[i].id]]
      /\ UNCHANGED <<row, jobs, frames, loads>>
  BY DEF B!MarkRead
<1>2. shown[t] # None /\ DOMAIN shown = Tabs
  <2>1. shown[t] = None => rs = <<>>
    BY DEF B!Held, B!Empty
  <2> QED
    BY <1>1, <2>1 DEF BellPanels
<1>3. /\ shown[t] = [items |-> shown[t].items, unread |-> shown[t].unread]
      /\ rs = shown[t].items /\ Panel(rs, Len(row)) /\ shown[t].unread \in Nat
  BY <1>2 DEF BellPanels, B!Held
<1>4. shown' = [shown EXCEPT ![t] = l]
  <2>1. B!ReadIn(shown[t], i) = l
    BY <1>3 DEF B!ReadIn
  <2>. HIDE DEF l
  <2> QED
    BY <1>1, <2>1
<1>5. rs \in Seq(R) /\ Len(rs) \in Nat /\ DOMAIN rs = 1 .. Len(rs) /\ rs[i] \in R
  BY <1>1, <1>3, PanelRows
<1>6. Panel([rs EXCEPT ![i] = e], Len(row))
  <2>1. e \in R /\ e.id = rs[i].id
    BY <1>5
  <2> DEFINE new == [rs EXCEPT ![i] = e]
  <2>. HIDE DEF rs, R, e
  <2>2. new \in Seq(R) /\ Len(new) = Len(rs) /\ DOMAIN new = DOMAIN rs
    BY <1>1, <1>5, <2>1
  <2>4. \A k \in DOMAIN rs : new[k].id = rs[k].id
    BY <1>5, <2>1
  <2>5. Len(rs) <= Window /\ \A k, m \in DOMAIN rs : rs[k].id = rs[m].id => k = m
    BY <1>3 DEF Panel
  <2> HIDE DEF new
  <2>6. \A k, m \in DOMAIN new : new[k].id = new[m].id => k = m
    BY <2>2, <2>4, <2>5
  <2>7. Panel(new, Len(row))
    BY <2>2, <2>5, <2>6 DEF Panel, R
  <2> QED
    BY <2>7 DEF new
<1>7. l = [items |-> l.items, unread |-> l.unread] /\ Panel(l.items, Len(row)) /\ l.unread \in Nat
  <2>. HIDE DEF rs, e
  <2> QED
    BY <1>3, <1>6
<1>8. BellPanels'
  <2>. HIDE DEF l
  <2> QED
    BY <1>1, <1>4, <1>7, OnePanel
<1>9. BellServer'
  <2>1. rs[i].id \in B!Ids
    BY <1>0, <1>5 DEF B!Ids
  <2> QED
    BY <1>1, <2>1 DEF BellServer
<1> QED
  BY <1>1, <1>8, <1>9 DEF BellWire

LEMMA BellReadsAll ==
    ASSUME BellInv, NEW t \in Tabs, B!MarkAllRead(t)
    PROVE  BellInv'
<1> USE DEF BellInv
<1> DEFINE rs == shown[t].items
           new == [i \in DOMAIN rs |-> [rs[i] EXCEPT !.read = TRUE]]
           l == [items |-> new, unread |-> 0]
           R == [id : 1 .. Len(row), read : BOOLEAN]
<1>0. row \in Seq(BOOLEAN) /\ Len(row) <= Rows /\ Len(row) \in Nat
  BY DEF BellServer
<1>1. /\ B!Held(t).unread > 0
      /\ shown' = [shown EXCEPT ![t] = l]
      /\ marking' = [marking EXCEPT ![t] = [at |-> "sent", id |-> 0]]
      /\ UNCHANGED <<row, jobs, frames, loads>>
  BY DEF B!MarkAllRead, B!All
<1>2. shown[t] # None
  <2>1. shown[t] = None => B!Held(t).unread = 0
    BY DEF B!Held, B!Empty
  <2> QED
    BY <1>1, <2>1
<1>3. Panel(rs, Len(row))
  BY <1>2 DEF BellPanels
<1>4. Panel(new, Len(row))
  <2>1. rs \in Seq(R) /\ Len(rs) \in Nat /\ DOMAIN rs = 1 .. Len(rs) /\ \A i \in DOMAIN rs : rs[i] \in R
    BY <1>3, PanelRows
  <2>2. new \in [1 .. Len(rs) -> R] /\ DOMAIN new = DOMAIN rs
    BY <2>1
  <2>3. new \in Seq(R) /\ Len(new) = Len(rs)
    BY <2>1, <2>2, SeqOfLength
  <2>4. \A k \in DOMAIN rs : new[k].id = rs[k].id
    BY <2>1
  <2> HIDE DEF new
  <2> QED
    BY <1>3, <2>2, <2>3, <2>4 DEF Panel
<1>5. BellPanels'
  <2>1. l = [items |-> l.items, unread |-> l.unread] /\ Panel(l.items, Len(row)) /\ l.unread \in Nat
    BY <1>4
  <2>. HIDE DEF l
  <2> QED
    BY <1>1, <2>1, OnePanel
<1>6. BellServer'
  BY <1>1 DEF BellServer
<1> QED
  BY <1>1, <1>5, <1>6 DEF BellWire

LEMMA BellStays ==
    ASSUME BellInv, [B!Next]_bell
    PROVE  BellInv'
<1>1. CASE B!Notify
  BY <1>1, BellWrites
<1>2. ASSUME NEW id \in {B!All} \cup B!Ids, B!MarkElsewhere(id) PROVE BellInv'
  BY <1>2, BellMarks DEF B!MarkElsewhere, B!All
<1>3. ASSUME NEW job \in jobs, B!Work(job) PROVE BellInv'
  BY <1>3, BellWorks
<1>4. ASSUME NEW t \in Tabs, B!Drop(t) \/ B!Open(t) \/ B!MarkLost(t) \/ B!Reconcile(t) PROVE BellInv'
  <2>1. BellServer'
    BY <1>4 DEF BellInv, BellServer, B!Drop, B!Open, B!MarkLost, B!Reconcile, B!Idle
  <2>2. BellPanels'
    BY <1>4 DEF BellInv, BellPanels, B!Drop, B!Open, B!MarkLost, B!Reconcile
  <2>3. CASE B!Drop(t)
    <3>1. frames' = [frames EXCEPT ![t] = <<>>] /\ UNCHANGED <<row, loads>>
      BY <2>3 DEF B!Drop
    <3>2. <<>> \in Seq(Known(Len(row))) /\ Len(<<>>) <= Frames
      BY PartsAssumption DEF PartsAssumption
    <3> QED
      BY <2>1, <2>2, <3>1, <3>2 DEF BellInv, BellWire
  <2>4. CASE B!Open(t) \/ B!MarkLost(t) \/ B!Reconcile(t)
    <3>1. /\ \/ loads' = loads
             \/ loads' = [loads EXCEPT ![t] = @ \cup {[at |-> "sent"]}]
          /\ UNCHANGED <<row, frames>>
      BY <2>4 DEF B!Open, B!MarkLost, B!Reconcile, B!Sending
    <3>2. [at |-> "sent"] \in Loading(Len(row))
      BY DEF Loading
    <3>3. BellWire'
      BY <3>1, <3>2 DEF BellInv, BellWire
    <3> QED
      BY <2>1, <2>2, <3>3 DEF BellInv
  <2> QED
    BY <1>4, <2>3, <2>4
<1>5. ASSUME NEW t \in Tabs, B!Mark(t) PROVE BellInv'
  <2>1. marking[t].at = "sent" /\ marking[t].id \in {0} \cup B!Ids
    BY <1>5 DEF B!Mark, BellInv, BellServer
  <2> QED
    BY <1>5, <2>1, BellMarks DEF B!Mark, B!All
<1>6. ASSUME NEW t \in Tabs, B!Deliver(t) PROVE BellInv'
  BY <1>6, BellDelivers
<1>7. ASSUME NEW t \in Tabs, NEW pull \in loads[t], B!Answer(t, pull) \/ B!LoadFails(t, pull) PROVE BellInv'
  BY <1>7, BellLoads DEF B!Answer
<1>8. ASSUME NEW t \in Tabs, B!MarkAllRead(t) \/ \E i \in 1 .. Window : B!MarkRead(t, i) PROVE BellInv'
  BY <1>8, BellReads, BellReadsAll
<1>9. CASE UNCHANGED bell
  BY <1>9 DEF bell, BellInv, BellServer, BellWire, BellPanels
<1> QED
  BY <1>1, <1>2, <1>3, <1>4, <1>5, <1>6, <1>7, <1>8, <1>9 DEF B!Next

LEMMA BellShowsRowsOnce ==
    ASSUME BellInv PROVE B!TypeOK /\ B!NoRowTwice
<1> USE DEF BellInv
<1>0. row \in Seq(BOOLEAN) /\ Len(row) <= Rows /\ Window \in Nat /\ Rows \in Nat /\ Len(row) \in Nat
  BY PartsAssumption DEF BellServer, PartsAssumption
<1>1. B!TypeOK
  <2>1. row \in B!SeqOf(BOOLEAN, Rows)
    <3>1. row \in [1 .. Len(row) -> BOOLEAN] /\ Len(row) \in 0 .. Rows
      BY <1>0
    <3> QED
      BY <3>1 DEF B!SeqOf
  <2>2. jobs \subseteq B!Jobs
    BY DEF BellServer
  <2>3. \A t \in Tabs : shown[t] # None => Len(shown[t].items) <= Window /\ shown[t].unread \in Nat
    BY DEF BellPanels, Panel
  <2>4. \A t \in Tabs : Len(frames[t]) <= Frames
    BY DEF BellWire
  <2> QED
    BY <2>1, <2>2, <2>3, <2>4 DEF B!TypeOK
<1>2. ASSUME NEW t \in Tabs
      PROVE  /\ B!IsInjective([i \in DOMAIN B!Held(t).items |-> B!Held(t).items[i].id])
             /\ B!IdsIn(B!Held(t).items) \subseteq DOMAIN row
  <2> DEFINE rs == B!Held(t).items
  <2>1. Panel(rs, Len(row))
    BY <1>0, HeldIsAPanel
  <2>2. \A i \in DOMAIN rs : rs[i].id \in 1 .. Len(row)
    BY <2>1, PanelRows
  <2>3. \A i, j \in DOMAIN rs : rs[i].id = rs[j].id => i = j
    BY <2>1 DEF Panel
  <2> HIDE DEF rs
  <2>4. B!IsInjective([i \in DOMAIN rs |-> rs[i].id])
    BY <2>3 DEF B!IsInjective
  <2>5. B!IdsIn(rs) \subseteq DOMAIN row
    BY <1>0, <2>2 DEF B!IdsIn
  <2> QED
    BY <2>4, <2>5 DEF rs
<1> QED
  BY <1>1, <1>2 DEF B!NoRowTwice

---------------------------------------------------------------------------
(* A list screen.                                                          *)

ListInv ==
    /\ found \in [L!Searches -> 0 .. Pages]
    /\ q \in L!Searches /\ box \subseteq L!Searches
    /\ \A r \in asked : r.q \in L!Searches
    /\ pages \in Nat \ {0} /\ at \in 1 .. pages

LEMMA ListInitially == ASSUME L!ListInit PROVE ListInv
  BY DEF L!ListInit, ListInv, L!Searches

LEMMA LoadAsks ==
    ASSUME ListInv, NEW t \in L!Searches, NEW p, L!Load(t, p)
    PROVE  \A r \in asked' : r.q \in L!Searches
  BY DEF ListInv, L!Load

LEMMA ListStays ==
    ASSUME ListInv, [L!ListNext]_list
    PROVE  ListInv'
<1> USE DEF ListInv
<1>0. NoTerm \in L!Searches /\ SearchTerms \subseteq L!Searches
  BY DEF L!Searches
<1>1. ASSUME NEW t \in L!Searches, L!Searched(t), UNCHANGED <<found, pages>>, box' = {}
      PROVE  ListInv'
  BY <1>1, LoadAsks DEF L!Searched
<1>2. CASE L!Emitted
  BY <1>1, <1>2 DEF L!Emitted
<1>3. CASE L!Cleared
  BY <1>0, <1>1, <1>3 DEF L!Cleared
<1>4. CASE L!Filter \/ L!Refresh \/ L!Saved
  BY <1>4, LoadAsks DEF L!Filter, L!Refresh, L!Saved
<1>5. ASSUME NEW p \in {at - 1, at + 1}, L!GoToPage(p) PROVE ListInv'
  BY <1>5, LoadAsks DEF L!GoToPage, L!Target
<1>6. CASE L!Create \/ L!Close \/ L!Save \/ L!SaveFails
  BY <1>6 DEF L!Create, L!Close, L!Save, L!SaveFails, L!Dialog
<1>7. ASSUME NEW t \in SearchTerms, L!TypeTerm(t) PROVE ListInv'
  BY <1>0, <1>7 DEF L!TypeTerm
<1>8. ASSUME NEW t \in L!Searches, NEW n \in 0 .. Pages, L!Move(t, n) PROVE ListInv'
  BY <1>8 DEF L!Move
<1>9. ASSUME NEW r \in asked, L!Answer(r) \/ L!Fail(r) PROVE ListInv'
  <2>1. found[r.q] \in Nat
    BY PartsAssumption DEF PartsAssumption
  <2> QED
    BY <1>9, <2>1 DEF L!Answer, L!Fail, L!StepBack, L!AtLeastOne
<1>10. CASE UNCHANGED list
  BY <1>10 DEF list
<1> QED
  BY <1>2, <1>3, <1>4, <1>5, <1>6, <1>7, <1>8, <1>9, <1>10 DEF L!ListNext

---------------------------------------------------------------------------
(* The search-and-select box.                                              *)

AllTerms == Terms \cup {NoTerm}

(* The list shows the first pages of what a term finds.                    *)
ShowsPages(t) ==
    total = Len(Options[t]) /\ page \in 1 .. total /\ items = SubSeq(Options[t], 1, page)

Latest(r) == r.seq = seq
Waiting == \E r \in sent : r.seq = seq

(* What the latest request will leave behind if its answer comes before    *)
(* the next key: the first page, or one more page of the same term.        *)
PickerInv ==
    /\ term \in AllTerms /\ timer \in BOOLEAN
    /\ seq \in Nat /\ page \in Nat
    /\ \A r \in sent :
          /\ r = [seq |-> r.seq, term |-> r.term, page |-> r.page]
          /\ r.seq \in 1 .. seq /\ r.term \in AllTerms /\ r.page \in Nat \ {0}
    /\ \A r, s \in sent : r.seq = s.seq => r = s
    /\ loading \in BOOLEAN /\ more \in BOOLEAN
    /\ (loading \/ more) <=> Waiting
    /\ \A r \in sent : (Latest(r) /\ ~timer) =>
          /\ r.term = term
          /\ r.page > 1 => ShowsPages(term) /\ r.page = page + 1 /\ r.page <= total
    /\ (~Waiting /\ ~timer) =>
          ShowsPages(term) \/ (total = 0 /\ items = <<>>)

LEMMA PickerInitially == ASSUME P!PickerInit PROVE PickerInv
  BY DEF P!PickerInit, PickerInv, AllTerms, Waiting, Latest

LEMMA QueryRuns ==
    ASSUME PickerInv, NEW t \in AllTerms, NEW p \in Nat \ {0}, P!RunQuery(t, p),
           UNCHANGED <<items, total, page>>, term' \in AllTerms, timer' \in BOOLEAN,
           ~timer' => /\ t = term'
                      /\ p > 1 => ShowsPages(t) /\ p = page + 1 /\ p <= total
    PROVE  PickerInv'
<1> DEFINE new == [seq |-> seq + 1, term |-> t, page |-> p]
<1>1. /\ seq' = seq + 1 /\ sent' = sent \cup {new}
      /\ loading' = (loading \/ p = 1) /\ more' = (more \/ p > 1)
  BY DEF P!RunQuery
<1>2. seq \in Nat /\ \A r \in sent : r.seq \in 1 .. seq
  BY DEF PickerInv
<1>3. \A r \in sent' : r.seq = seq' => r = new
  <2>1. \A r \in sent : r.seq # seq + 1
    BY <1>2
  <2>. HIDE DEF new
  <2> QED
    BY <1>1, <2>1
<1>4. Waiting'
  <2>1. new \in sent' /\ new.seq = seq'
    BY <1>1
  <2>. HIDE DEF new
  <2> QED
    BY <2>1 DEF Waiting
<1>5. (loading' \/ more') /\ loading' \in BOOLEAN /\ more' \in BOOLEAN
  <2>1. p = 1 \/ p > 1
    OBVIOUS
  <2> QED
    BY <1>1, <2>1, Zenon DEF PickerInv
<1>6. \A r \in sent' :
          /\ r = [seq |-> r.seq, term |-> r.term, page |-> r.page]
          /\ r.seq \in 1 .. seq' /\ r.term \in AllTerms /\ r.page \in Nat \ {0}
  BY <1>1, <1>2 DEF PickerInv
<1>7. \A r, s \in sent' : r.seq = s.seq => r = s
  BY <1>1, <1>2, <1>3 DEF PickerInv
<1>8. ShowsPages(t) => ShowsPages(t)'
  BY DEF ShowsPages
<1>9. \A r \in sent' : (Latest(r)' /\ ~timer') =>
          /\ r.term = term'
          /\ r.page > 1 => ShowsPages(term)' /\ r.page = page' + 1 /\ r.page <= total'
  BY <1>3, <1>8 DEF Latest, ShowsPages
<1> QED
  BY <1>1, <1>4, <1>5, <1>6, <1>7, <1>9 DEF PickerInv

LEMMA OneMoreItem ==
    ASSUME NEW S, NEW s \in Seq(S), NEW k \in Nat, k + 1 \in DOMAIN s
    PROVE  SubSeq(s, 1, k) \o <<s[k + 1]>> = SubSeq(s, 1, k + 1)
  OBVIOUS

LEMMA FirstItem ==
    ASSUME NEW S, NEW s \in Seq(S), 1 \in DOMAIN s
    PROVE  <<>> \o <<s[1]>> = SubSeq(s, 1, 1)
  OBVIOUS

LEMMA AnswerShows ==
    ASSUME PickerInv, NEW r \in sent, P!Answered(r) \/ P!Failed(r)
    PROVE  PickerInv'
<1>0. /\ sent' = sent \ {r} /\ seq' = seq /\ term' = term /\ timer' = timer
      /\ ~Latest(r) => UNCHANGED <<items, total, page, loading, more>>
      /\ Latest(r) => loading' = FALSE /\ more' = FALSE /\ page' \in {page, r.page}
  BY DEF P!Answered, P!Failed, P!IsLatest, Latest
<1>1. CASE ~Latest(r)
  <2>1. Waiting' <=> Waiting
    BY <1>0, <1>1 DEF Waiting, Latest
  <2> QED
    BY <1>0, <1>1, <2>1 DEF PickerInv, Latest, ShowsPages
<1>2. CASE Latest(r)
  <2>1. ~Waiting' /\ \A s \in sent' : ~Latest(s)'
    BY <1>0, <1>2 DEF Waiting, Latest, PickerInv
  <2>2. page' \in Nat
    BY <1>0, <1>2 DEF PickerInv
  <2>3. ASSUME ~timer
        PROVE  (ShowsPages(term) \/ (total = 0 /\ items = <<>>))'
    <3> DEFINE o == Options[term]
    <3>1. o \in Seq({o[i] : i \in DOMAIN o}) /\ Len(o) \in Nat /\ DOMAIN o = 1 .. Len(o)
      BY PartsAssumption DEF PartsAssumption, PickerInv, AllTerms
    <3>2. /\ r.term = term /\ r.page \in Nat \ {0}
          /\ r.page > 1 => ShowsPages(term) /\ r.page = page + 1 /\ r.page <= total
      BY <1>2, <2>3 DEF PickerInv
    <3>3. CASE P!Answered(r)
      <4>1. /\ items' = (IF r.page = 1 THEN <<>> ELSE items) \o P!PageOf(term, r.page)
            /\ total' = Len(o) /\ page' = r.page
        BY <1>2, <3>2, <3>3 DEF P!Answered, P!IsLatest, Latest
      <4>2. CASE r.page = 1 /\ Len(o) = 0
        BY <3>1, <4>1, <4>2 DEF P!PageOf
      <4>3. CASE r.page = 1 /\ Len(o) # 0
        <5>1. items' = <<>> \o <<o[1]>> /\ 1 \in DOMAIN o
          BY <3>1, <4>1, <4>3 DEF P!PageOf
        <5> QED
          BY <1>0, <3>1, <4>1, <4>3, <5>1, FirstItem DEF ShowsPages
      <4>4. CASE r.page # 1
        <5>1. ShowsPages(term) /\ r.page = page + 1 /\ r.page \in DOMAIN o /\ page \in Nat
          BY <3>1, <3>2, <4>4 DEF ShowsPages, PickerInv
        <5>2. items' = SubSeq(o, 1, page) \o <<o[page + 1]>>
          BY <4>1, <4>4, <5>1 DEF P!PageOf, ShowsPages
        <5>3. items' = SubSeq(o, 1, r.page)
          BY <3>1, <5>1, <5>2, OneMoreItem
        <5> QED
          BY <1>0, <3>1, <4>1, <5>1, <5>3 DEF ShowsPages
      <4> QED
        BY <4>2, <4>3, <4>4
    <3>4. CASE P!Failed(r)
      <4>1. page' = page /\ IF r.page = 1 THEN items' = <<>> /\ total' = 0 ELSE UNCHANGED <<items, total>>
        BY <1>2, <3>4 DEF P!Failed, P!IsLatest, Latest
      <4>2. CASE r.page = 1
        BY <4>1, <4>2
      <4>3. CASE r.page # 1
        BY <1>0, <3>2, <4>1, <4>3 DEF ShowsPages
      <4> QED
        BY <4>2, <4>3
    <3> QED
      BY <3>3, <3>4
  <2> QED
    BY <1>0, <1>2, <2>1, <2>2, <2>3 DEF PickerInv
<1> QED
  BY <1>1, <1>2

LEMMA PickerStays ==
    ASSUME PickerInv, [P!PickerNext]_picker
    PROVE  PickerInv'
<1>0. NoTerm \in AllTerms /\ term \in AllTerms /\ timer \in BOOLEAN
  BY DEF AllTerms, PickerInv
<1>1. CASE P!OpenPanel
  <2>1. /\ P!RunQuery(NoTerm, 1) /\ term' = NoTerm
        /\ UNCHANGED <<timer, items, total, page>>
    BY <1>1 DEF P!OpenPanel
  <2>2. 1 \in Nat \ {0} /\ ~(1 > 1)
    OBVIOUS
  <2> QED
    BY <1>0, <2>1, <2>2, QueryRuns
<1>2. CASE P!ClosePanel \/ P!Pick \/ P!Clear \/ \E i \in 1 .. 2 : P!MoveTo(i)
  <2>1. UNCHANGED <<term, timer, items, total, page, loading, more, seq, sent>>
    BY <1>2 DEF P!ClosePanel, P!Pick, P!Clear, P!MoveTo
  <2> QED
    BY <2>1 DEF PickerInv, Waiting, Latest, ShowsPages
<1>3. CASE P!Debounced
  <2>1. /\ P!RunQuery(term, 1) /\ timer' = FALSE
        /\ UNCHANGED <<term, items, total, page>>
    BY <1>3 DEF P!Debounced
  <2>2. 1 \in Nat \ {0} /\ ~(1 > 1)
    OBVIOUS
  <2> QED
    BY <1>0, <2>1, <2>2, QueryRuns
<1>4. CASE P!Scroll
  <2>1. /\ Len(items) < total /\ ~loading /\ ~more /\ P!RunQuery(term, page + 1)
        /\ UNCHANGED <<term, timer, items, total, page>>
    BY <1>4 DEF P!Scroll, P!HasMore
  <2>2. page \in Nat /\ seq \in Nat /\ ~Waiting
    BY <2>1 DEF PickerInv
  <2>3. page + 1 \in Nat \ {0}
    BY <2>2
  <2>4. ASSUME ~timer PROVE page + 1 > 1 => ShowsPages(term) /\ page + 1 <= total
    <3> DEFINE o == Options[term]
    <3>1. o \in Seq({o[i] : i \in DOMAIN o}) /\ Len(o) \in Nat
      BY PartsAssumption, <1>0 DEF PartsAssumption, AllTerms
    <3>2. ~(total = 0 /\ items = <<>>)
      BY <2>1
    <3>3. ShowsPages(term)
      BY <2>2, <2>4, <3>2 DEF PickerInv
    <3>4. total = Len(o) /\ page \in 1 .. Len(o) /\ items = SubSeq(o, 1, page)
      BY <3>3 DEF ShowsPages
    <3>. HIDE DEF o
    <3>5. Len(items) = page
      BY <2>2, <3>1, <3>4, FirstItems
    <3> QED
      BY <2>1, <2>2, <3>1, <3>3, <3>4, <3>5
  <2> QED
    BY <1>0, <2>1, <2>3, <2>4, QueryRuns
<1>5. ASSUME NEW t \in AllTerms, P!Type(t) PROVE PickerInv'
  BY <1>5 DEF PickerInv, Waiting, Latest, ShowsPages, P!Type
<1>6. ASSUME NEW r \in sent, P!Answered(r) \/ P!Failed(r) PROVE PickerInv'
  BY <1>6, AnswerShows
<1>7. CASE UNCHANGED picker
  BY <1>7 DEF PickerInv, Waiting, Latest, ShowsPages, picker
<1> QED
  BY <1>1, <1>2, <1>3, <1>4, <1>5, <1>6, <1>7 DEF P!PickerNext, AllTerms

LEMMA BoxShowsItsTerm == ASSUME PickerInv PROVE P!ListMatchesTerm
<1>1. (loading \/ more) = Waiting
  BY DEF PickerInv, Waiting
<1>2. ASSUME ShowsPages(term)
      PROVE  P!IsPrefix(items, Options[term]) /\ total = Len(Options[term])
  <2> DEFINE o == Options[term]
  <2>1. o \in Seq({o[i] : i \in DOMAIN o}) /\ Len(o) \in Nat
    BY PartsAssumption DEF PartsAssumption, AllTerms, PickerInv
  <2>2. Len(items) = page /\ page <= Len(o) /\ page \in Nat
    BY <1>2, <2>1, FirstItems DEF ShowsPages
  <2>3. items \in Seq({o[i] : i \in DOMAIN o}) /\ \A i \in 1 .. page : items[i] = o[i]
    BY <1>2, <2>1, <2>2, FirstItems DEF ShowsPages
  <2> QED
    BY <1>2, <2>1, <2>2, <2>3 DEF P!IsPrefix, ShowsPages
<1>3. P!IsPrefix(<<>>, Options[term])
  <2> DEFINE o == Options[term]
  <2>1. o \in Seq({o[i] : i \in DOMAIN o}) /\ Len(o) \in Nat
    BY PartsAssumption DEF PartsAssumption, AllTerms, PickerInv
  <2> QED
    BY <2>1 DEF P!IsPrefix
<1> QED
  BY <1>1, <1>2, <1>3 DEF P!ListMatchesTerm, PickerInv, Waiting, Latest

LEMMA OneMore ==
    ASSUME NEW S, NEW s \in Seq(S), NEW x \in S
    PROVE  /\ s \o <<x>> \in Seq(S) /\ Len(s \o <<x>>) = Len(s) + 1
           /\ \A i \in 1 .. Len(s) + 1 : (s \o <<x>>)[i] = IF i <= Len(s) THEN s[i] ELSE x
  OBVIOUS

LEMMA NoneMore == ASSUME NEW S, NEW s \in Seq(S) PROVE s \o <<>> = s
  OBVIOUS

LEMMA Least ==
    ASSUME NEW S \in SUBSET Nat, S # {}
    PROVE  \E x \in S : \A y \in S : x <= y
<1>. DEFINE R == OpToRel(<, Nat)
<1>1. IsWellFoundedOn(R, Nat)
    BY NatLessThanWellFounded
<1>2. \A x, y \in Nat : x < y => <<x, y>> \in R
    BY DEF OpToRel
<1>. HIDE DEF R
<1>3. PICK x \in S : \A y \in S : ~(<<y, x>> \in R)
    BY <1>1, WFMin
<1>4. ASSUME NEW y \in S PROVE x <= y
  <2>1. x \in Nat /\ y \in Nat /\ ~(y < x)
      BY <1>2, <1>3
  <2>. QED
      BY <2>1
<1>. QED
    BY <1>4

(* The lines with some ids, one after the other.                           *)
Step(lines, ids, i) == IF lines[i].id \in ids THEN <<lines[i]>> ELSE <<>>
IsUpTo(f, n, lines, ids) ==
    f = [i \in 0 .. n |-> IF i = 0 THEN <<>> ELSE f[i - 1] \o Step(lines, ids, i)]

LEMMA UpToExists ==
    ASSUME NEW lines, NEW ids, NEW n \in Nat
    PROVE  \E f : IsUpTo(f, n, lines, ids)
<1> DEFINE Bad == {m \in Nat : ~\E f : IsUpTo(f, m, lines, ids)}
<1>1. ASSUME Bad # {} PROVE FALSE
  <2>1. PICK m \in Bad : \A k \in Bad : m <= k
    BY <1>1, Least
  <2>2. CASE m = 0
    <3> DEFINE f == [i \in 0 .. 0 |-> <<>>]
    <3>1. IsUpTo(f, 0, lines, ids)
      BY DEF IsUpTo
    <3> HIDE DEF f
    <3> QED
      BY <2>1, <2>2, <3>1
  <2>3. CASE m # 0
    <3>1. m \in Nat /\ m - 1 \in Nat /\ ~(m - 1 \in Bad)
      BY <2>1, <2>3
    <3>2. PICK f : IsUpTo(f, m - 1, lines, ids)
      BY <3>1
    <3> DEFINE g == [i \in 0 .. m |-> IF i = m THEN f[m - 1] \o Step(lines, ids, m) ELSE f[i]]
    <3>3. f = [i \in 0 .. m - 1 |-> IF i = 0 THEN <<>> ELSE f[i - 1] \o Step(lines, ids, i)]
      BY <3>2 DEF IsUpTo
    <3>4. \A i \in 0 .. m : g[i] = IF i = 0 THEN <<>> ELSE g[i - 1] \o Step(lines, ids, i)
      <4>. TAKE i \in 0 .. m
      <4>1. CASE i = m
        <5>1. g[i] = f[m - 1] \o Step(lines, ids, m)
          BY <4>1
        <5>2. m - 1 \in 0 .. m /\ m - 1 # m
          BY <3>1
        <5>3. g[m - 1] = f[m - 1]
          BY <5>2
        <5> HIDE DEF g
        <5> QED
          BY <2>3, <4>1, <5>1, <5>3
      <4>2. CASE i # m
        <5>1. i \in 0 .. m - 1 /\ g[i] = f[i]
          BY <3>1, <4>2
        <5>2. f[i] = IF i = 0 THEN <<>> ELSE f[i - 1] \o Step(lines, ids, i)
          BY <3>3, <5>1
        <5>3. i # 0 => g[i - 1] = f[i - 1]
          BY <3>1, <5>1
        <5> QED
          BY <5>1, <5>2, <5>3
      <4> QED
        BY <4>1, <4>2
    <3>5. g = [i \in 0 .. m |-> g[i]]
      OBVIOUS
    <3> HIDE DEF g
    <3>6. IsUpTo(g, m, lines, ids)
      BY <3>4, <3>5 DEF IsUpTo
    <3> QED
      BY <2>1, <3>6
  <2> QED
    BY <2>2, <2>3
<1> QED
  BY <1>1

LEMMA WithIdsUnfolds ==
    ASSUME NEW lines, NEW ids, Len(lines) \in Nat
    PROVE  \E f : IsUpTo(f, Len(lines), lines, ids) /\ N!WithIds(lines, ids) = f[Len(lines)]
<1> DEFINE upTo == CHOOSE f : IsUpTo(f, Len(lines), lines, ids)
<1>1. IsUpTo(upTo, Len(lines), lines, ids)
  BY UpToExists
<1>2. N!WithIds(lines, ids) = upTo[Len(lines)]
  BY DEF N!WithIds, IsUpTo, Step
<1> HIDE DEF upTo
<1> QED
  BY <1>1, <1>2

(* What it keeps of a sequence of lines.                                   *)
KeptOf(s, n, S, lines, ids) ==
    /\ s \in Seq(S)
    /\ \A k \in DOMAIN s : \E i \in 1 .. n : s[k] = lines[i] /\ lines[i].id \in ids
    /\ (\A i, j \in 1 .. n : lines[i].id = lines[j].id => i = j)
          => \A k, m \in DOMAIN s : s[k].id = s[m].id => k = m

LEMMA KeptGrows ==
    ASSUME NEW S, NEW lines \in Seq(S), NEW ids, NEW n \in Nat, n + 1 <= Len(lines),
           NEW s, KeptOf(s, n, S, lines, ids)
    PROVE  KeptOf(s \o Step(lines, ids, n + 1), n + 1, S, lines, ids)
<1>1. /\ s \in Seq(S) /\ DOMAIN s = 1 .. Len(s) /\ Len(s) \in Nat
      /\ n + 1 \in 1 .. Len(lines) /\ lines[n + 1] \in S
  BY DEF KeptOf
<1>2. CASE lines[n + 1].id \notin ids
  <2>1. s \o Step(lines, ids, n + 1) = s
    BY <1>1, <1>2, NoneMore DEF Step
  <2>2. \A k \in DOMAIN s : \E i \in 1 .. n + 1 : s[k] = lines[i] /\ lines[i].id \in ids
    BY DEF KeptOf
  <2>3. (\A i, j \in 1 .. n + 1 : lines[i].id = lines[j].id => i = j)
            => \A k, m \in DOMAIN s : s[k].id = s[m].id => k = m
    <3>1. \A i \in 1 .. n : i \in 1 .. n + 1
      OBVIOUS
    <3> QED
      BY <3>1 DEF KeptOf
  <2>4. KeptOf(s, n + 1, S, lines, ids)
    BY <1>1, <2>2, <2>3 DEF KeptOf
  <2> QED
    BY <2>1, <2>4
<1>3. CASE lines[n + 1].id \in ids
  <2> DEFINE t == s \o <<lines[n + 1]>>
  <2>1. s \o Step(lines, ids, n + 1) = t
    BY <1>3 DEF Step
  <2>2. t \in Seq(S) /\ Len(t) = Len(s) + 1 /\ \A i \in 1 .. Len(s) + 1 : t[i] = IF i <= Len(s) THEN s[i] ELSE lines[n + 1]
    BY <1>1, OneMore
  <2>. HIDE DEF t
  <2>3. DOMAIN t = 1 .. Len(s) + 1 /\ t[Len(s) + 1] = lines[n + 1] /\ \A k \in 1 .. Len(s) : t[k] = s[k]
    BY <1>1, <2>2
  <2>4. \A k \in DOMAIN t : \E i \in 1 .. n + 1 : t[k] = lines[i] /\ lines[i].id \in ids
    <3>. TAKE k \in DOMAIN t
    <3>1. CASE k \in 1 .. Len(s)
      <4>1. PICK i \in 1 .. n : s[k] = lines[i] /\ lines[i].id \in ids
        BY <1>1, <3>1 DEF KeptOf
      <4> QED
        BY <2>3, <3>1, <4>1
    <3>2. CASE k = Len(s) + 1
      BY <1>1, <1>3, <2>3, <3>2
    <3> QED
      BY <1>1, <2>3, <3>1, <3>2
  <2>5. ASSUME \A i, j \in 1 .. n + 1 : lines[i].id = lines[j].id => i = j,
               NEW k \in DOMAIN t, NEW m \in DOMAIN t, t[k].id = t[m].id
        PROVE  k = m
    <3>1. \A i, j \in 1 .. n : lines[i].id = lines[j].id => i = j
      BY <2>5
    <3>2. \A i, j \in DOMAIN s : s[i].id = s[j].id => i = j
      BY <3>1 DEF KeptOf
    <3>3. \A i \in 1 .. Len(s) : t[i].id # lines[n + 1].id
      <4>. TAKE i \in 1 .. Len(s)
      <4>1. PICK j \in 1 .. n : s[i] = lines[j]
        BY <1>1 DEF KeptOf
      <4>2. j # n + 1 /\ j \in 1 .. n + 1 /\ n + 1 \in 1 .. n + 1
        BY <4>1
      <4> QED
        BY <2>3, <2>5, <4>1, <4>2
    <3>4. CASE k \in 1 .. Len(s) /\ m \in 1 .. Len(s)
      BY <1>1, <2>3, <2>5, <3>2, <3>4
    <3>5. CASE k = Len(s) + 1 \/ m = Len(s) + 1
      BY <1>1, <2>3, <2>5, <3>3, <3>5
    <3> QED
      BY <1>1, <2>3, <3>4, <3>5
  <2> QED
    BY <2>1, <2>2, <2>4, <2>5 DEF KeptOf
<1> QED
  BY <1>2, <1>3

LEMMA WithIdsKeeps ==
    ASSUME NEW S, NEW lines \in Seq(S), NEW ids
    PROVE  KeptOf(N!WithIds(lines, ids), Len(lines), S, lines, ids)
<1>0. Len(lines) \in Nat
  OBVIOUS
<1> DEFINE L0 == Len(lines)
<1>1. PICK f : IsUpTo(f, Len(lines), lines, ids) /\ N!WithIds(lines, ids) = f[Len(lines)]
  BY <1>0, WithIdsUnfolds
<1>2. \A i \in 0 .. Len(lines) : f[i] = IF i = 0 THEN <<>> ELSE f[i - 1] \o Step(lines, ids, i)
  BY <1>1 DEF IsUpTo
<1> DEFINE Bad == {i \in 0 .. Len(lines) : ~KeptOf(f[i], i, S, lines, ids)}
<1>3. ASSUME Bad # {} PROVE FALSE
  <2>1. Bad \in SUBSET Nat
    BY <1>0
  <2>2. PICK m \in Bad : \A k \in Bad : m <= k
    BY <1>3, <2>1, Least
  <2>3. m \in 0 .. Len(lines) /\ m \in Nat /\ ~KeptOf(f[m], m, S, lines, ids)
    BY <2>2
  <2>4. m # 0
    <3>1. KeptOf(<<>>, 0, S, lines, ids)
      BY DEF KeptOf
    <3>2. f[0] = <<>>
      BY <1>0, <1>2
    <3> QED
      BY <2>3, <3>1, <3>2
  <2>5. m - 1 \in 0 .. Len(lines) /\ m - 1 \in Nat /\ ~(m - 1 \in Bad) /\ (m - 1) + 1 = m
    BY <1>0, <2>2, <2>3, <2>4
  <2>6. KeptOf(f[m - 1], m - 1, S, lines, ids)
    BY <2>5
  <2>7. f[m] = f[m - 1] \o Step(lines, ids, m)
    BY <1>2, <2>3, <2>4
  <2>8. KeptOf(f[m], m, S, lines, ids)
    <3> DEFINE n == m - 1
    <3>1. n \in Nat /\ n + 1 = m /\ n + 1 <= Len(lines) /\ KeptOf(f[n], n, S, lines, ids)
      BY <1>0, <2>3, <2>5, <2>6
    <3> HIDE DEF n
    <3>2. KeptOf(f[n] \o Step(lines, ids, n + 1), n + 1, S, lines, ids)
      BY <3>1, KeptGrows
    <3>3. f[m] = f[n] \o Step(lines, ids, n + 1)
      BY <2>7, <3>1 DEF n
    <3> QED
      BY <3>1, <3>2, <3>3
  <2> QED
    BY <2>3, <2>8
<1> QED
  BY <1>0, <1>1, <1>3

LEMMA TwoSeqs ==
    ASSUME NEW S, NEW s \in Seq(S), NEW t \in Seq(S)
    PROVE  /\ s \o t \in Seq(S) /\ Len(s \o t) = Len(s) + Len(t)
           /\ \A i \in 1 .. Len(s) + Len(t) : (s \o t)[i] = IF i <= Len(s) THEN s[i] ELSE t[i - Len(s)]
  OBVIOUS

LEMMA Highest ==
    ASSUME NEW n \in Nat, NEW S \in SUBSET (0 .. n), S # {}
    PROVE  N!Max(S) \in S /\ \A y \in S : y <= N!Max(S)
<1> DEFINE T == {n - k : k \in S}
<1>1. T \in SUBSET Nat /\ T # {}
  <2>1. \A k \in S : n - k \in Nat
    OBVIOUS
  <2> QED
    BY <2>1, Zenon
<1>2. PICK x \in T : \A y \in T : x <= y
  <2>. HIDE DEF T
  <2> QED
    BY <1>1, Least
<1>3. PICK k \in S : x = n - k
  BY <1>2
<1>4. ASSUME NEW j \in S PROVE k >= j
  <2>1. n - j \in T /\ x <= n - j
    BY <1>2
  <2> QED
    BY <1>3, <2>1
<1>5. \E m \in S : \A j \in S : m >= j
  BY <1>4
<1>6. N!Max(S) \in S /\ \A j \in S : N!Max(S) >= j
  BY <1>5 DEF N!Max
<1> QED
  BY <1>6

---------------------------------------------------------------------------
(* The quotations of the customer's page.                                  *)

EventDocs == [line : N!Ids \cup {None}, text : N!Texts, about : Products \cup {None}]
ThreadStages == {"DRAFT", "PENDING_APPROVAL", "APPROVED", "NEGOTIATION", "CONFIRMED", "REJECTED"}
OrderDocs == {None} \cup [seen : Seq(N!LineDocs) \cup {None}, lines : Seq(N!LineDocs)]
Docs == [stage : ThreadStages, events : Seq(EventDocs), order : OrderDocs, lines : Seq(N!LineDocs)]

Told(lines) == \A i, j \in DOMAIN lines : lines[i].id = lines[j].id => i = j
Apart(said) == \A i, j \in DOMAIN said : said[i] = said[j] => i = j

(* The lines after an edit.                                                *)
LEMMA EditsAreTold ==
    ASSUME NEW lines \in Seq(N!LineDocs), Told(lines), NEW r \in Quotations,
           NEW m \in 0 .. MaxOthers - 1, MaxOthers \in Nat,
           \A i \in DOMAIN lines : lines[i].id[2] <= m + 2,
           NEW kept, NEW added \in UNION {[1 .. k -> Products] : k \in 0 .. 1}
    PROVE  LET next == N!Max({0} \cup {id[2] : id \in {lines[i].id : i \in DOMAIN lines}}) + 1
               new == N!WithIds(lines, kept)
                        \o [k \in DOMAIN added |-> [id |-> <<r, next + k - 1>>, product |-> added[k], terms |-> 0]]
           IN  new \in Seq(N!LineDocs) /\ Told(new) /\ \A i \in DOMAIN new : new[i].id[2] <= m + 1 + 2
<1> DEFINE numbers == {0} \cup {id[2] : id \in {lines[i].id : i \in DOMAIN lines}}
           next == N!Max(numbers) + 1
           hit == N!WithIds(lines, kept)
           tail == [k \in DOMAIN added |-> [id |-> <<r, next + k - 1>>, product |-> added[k], terms |-> 0]]
           new == hit \o tail
<1>0. DOMAIN lines = 1 .. Len(lines) /\ Len(lines) \in Nat /\ \A i \in DOMAIN lines : lines[i] \in N!LineDocs
  <2>. HIDE DEF N!LineDocs
  <2> QED
    OBVIOUS
<1>1. \A i \in DOMAIN lines : lines[i].id \in N!Ids /\ lines[i].id[2] \in 1 .. m + 2
  BY <1>0 DEF N!LineDocs, N!Ids
<1>2. numbers \subseteq 0 .. m + 2 /\ numbers # {} /\ m + 2 \in Nat
  BY <1>1
<1>3. next \in 1 .. m + 3 /\ \A i \in DOMAIN lines : lines[i].id[2] < next
  <2>1. N!Max(numbers) \in 0 .. m + 2 /\ \A y \in numbers : y <= N!Max(numbers)
    <3>. HIDE DEF numbers
    <3> QED
      BY <1>2, Highest
  <2>2. \A i \in DOMAIN lines : lines[i].id[2] \in numbers
    OBVIOUS
  <2>. HIDE DEF numbers
  <2> QED
    BY <1>1, <2>1, <2>2
<1>4. hit \in Seq(N!LineDocs) /\ Len(hit) \in Nat /\ DOMAIN hit = 1 .. Len(hit)
        /\ Told(hit) /\ \A k \in DOMAIN hit : \E i \in DOMAIN lines : hit[k] = lines[i]
  <2>1. KeptOf(hit, Len(lines), N!LineDocs, lines, kept)
    BY WithIdsKeeps
  <2>. HIDE DEF hit, N!LineDocs
  <2>2. hit \in Seq(N!LineDocs) /\ Len(hit) \in Nat /\ DOMAIN hit = 1 .. Len(hit)
    BY <2>1 DEF KeptOf
  <2>3. \A i, j \in 1 .. Len(lines) : lines[i].id = lines[j].id => i = j
    BY <1>0 DEF Told
  <2>4. Told(hit)
    BY <2>1, <2>3 DEF KeptOf, Told
  <2>5. \A k \in DOMAIN hit : \E i \in DOMAIN lines : hit[k] = lines[i]
    BY <1>0, <2>1 DEF KeptOf
  <2> QED
    BY <2>2, <2>4, <2>5
<1>5. PICK n \in 0 .. 1 : added \in [1 .. n -> Products]
  OBVIOUS
<1>. HIDE DEF numbers, next, hit
<1>6. tail \in [1 .. n -> N!LineDocs] /\ \A k \in 1 .. n : k = 1 /\ tail[k].id = <<r, next>>
  <2>1. \A k \in 1 .. n : k = 1 /\ next + k - 1 = next /\ <<r, next>> \in N!Ids /\ added[k] \in Products
    BY <1>3, <1>5 DEF N!Ids
  <2> QED
    BY <1>5, <2>1 DEF N!LineDocs
<1>. HIDE DEF tail, N!LineDocs
<1>7. tail \in Seq(N!LineDocs) /\ Len(tail) = n
  BY <1>6, SeqOfLength
<1>8. /\ new \in Seq(N!LineDocs) /\ Len(new) = Len(hit) + n /\ DOMAIN new = 1 .. Len(hit) + n
      /\ \A i \in 1 .. Len(hit) + n : new[i] = IF i <= Len(hit) THEN hit[i] ELSE tail[i - Len(hit)]
  BY <1>4, <1>7, TwoSeqs
<1>. HIDE DEF new
<1>9. \A i \in DOMAIN new : \/ i \in DOMAIN hit /\ new[i] = hit[i]
                            \/ i = Len(hit) + 1 /\ new[i].id = <<r, next>>
  <2>. TAKE i \in DOMAIN new
  <2>1. CASE i <= Len(hit)
    BY <1>4, <1>8, <2>1
  <2>2. CASE ~(i <= Len(hit))
    <3>1. i - Len(hit) \in 1 .. n
      BY <1>4, <1>8, <2>2
    <3>2. i - Len(hit) = 1 /\ tail[i - Len(hit)].id = <<r, next>>
      BY <1>6, <3>1
    <3> QED
      BY <1>4, <1>8, <2>2, <3>2
  <2> QED
    BY <2>1, <2>2
<1>10. \A k \in DOMAIN hit : hit[k].id[2] < next /\ hit[k].id[2] <= m + 2
  BY <1>1, <1>3, <1>4
<1>11. Told(new)
  <2>. SUFFICES ASSUME NEW i \in DOMAIN new, NEW j \in DOMAIN new, new[i].id = new[j].id PROVE i = j
    BY DEF Told
  <2>1. <<r, next>>[2] = next /\ ~(next < next)
    BY <1>3
  <2> QED
    BY <1>4, <1>9, <1>10, <2>1 DEF Told
<1>12. \A i \in DOMAIN new : new[i].id[2] <= m + 1 + 2
  <2>. TAKE i \in DOMAIN new
  <2>1. CASE i \in DOMAIN hit /\ new[i] = hit[i]
    <3>1. hit[i].id[2] \in Int /\ hit[i].id[2] <= m + 2
      BY <1>1, <1>4, <1>10, <2>1
    <3> QED
      BY <2>1, <3>1
  <2>2. CASE new[i].id = <<r, next>>
    <3>1. new[i].id[2] = next
      BY <2>2
    <3> QED
      BY <1>3, <3>1
  <2> QED
    BY <1>9, <2>1, <2>2
<1> QED
  BY <1>8, <1>11, <1>12 DEF new, tail, hit, next, numbers

(* What a counter-offer adds to the events: one of each line it names, and *)
(* the note.                                                               *)
Added(ev, ew, lines, n) ==
    /\ ew \in Seq(EventDocs)
    /\ DOMAIN ev \subseteq DOMAIN ew /\ \A i \in DOMAIN ev : ew[i] = ev[i]
    /\ \A i \in DOMAIN ew \ DOMAIN ev :
          \/ ew[i].line # None /\ ew[i].line \in DOMAIN lines /\ ew[i].text = lines[ew[i].line]
          \/ ew[i].line = None /\ n # None /\ ew[i].text = n
    /\ \A i, j \in DOMAIN ew \ DOMAIN ev : ew[i].line # None /\ ew[i].line = ew[j].line => i = j

LEMMA ThreeSeqs ==
    ASSUME NEW S, NEW s \in Seq(S), NEW t \in Seq(S), NEW u \in Seq(S)
    PROVE  /\ s \o t \o u \in Seq(S) /\ DOMAIN (s \o t \o u) = 1 .. Len(s) + Len(t) + Len(u)
           /\ \A i \in 1 .. Len(s) + Len(t) + Len(u) :
                 \/ i \in 1 .. Len(s) /\ (s \o t \o u)[i] = s[i]
                 \/ i - Len(s) \in 1 .. Len(t) /\ (s \o t \o u)[i] = t[i - Len(s)]
                 \/ i - Len(s) - Len(t) \in 1 .. Len(u) /\ (s \o t \o u)[i] = u[i - Len(s) - Len(t)]
<1> DEFINE r == s \o t
<1>1. r \in Seq(S) /\ Len(r) = Len(s) + Len(t)
         /\ \A i \in 1 .. Len(s) + Len(t) : r[i] = IF i <= Len(s) THEN s[i] ELSE t[i - Len(s)]
  BY TwoSeqs
<1> HIDE DEF r
<1>0. r \in Seq(S)
  BY <1>1
<1>2. r \o u \in Seq(S) /\ Len(r \o u) = Len(r) + Len(u)
         /\ \A i \in 1 .. Len(r) + Len(u) : (r \o u)[i] = IF i <= Len(r) THEN r[i] ELSE u[i - Len(r)]
  BY <1>0, TwoSeqs, Zenon
<1>3. Len(s) \in Nat /\ Len(t) \in Nat /\ Len(u) \in Nat
  OBVIOUS
<1> DEFINE w == r \o u
<1>4. w = s \o t \o u
  BY DEF r
<1> HIDE DEF w
<1>5. DOMAIN w = 1 .. Len(s) + Len(t) + Len(u)
  BY <1>1, <1>2, <1>3 DEF w
<1>6. \A i \in 1 .. Len(s) + Len(t) + Len(u) :
                 \/ i \in 1 .. Len(s) /\ w[i] = s[i]
                 \/ i - Len(s) \in 1 .. Len(t) /\ w[i] = t[i - Len(s)]
                 \/ i - Len(s) - Len(t) \in 1 .. Len(u) /\ w[i] = u[i - Len(s) - Len(t)]
  <2>. TAKE i \in 1 .. Len(s) + Len(t) + Len(u)
  <2>1. CASE i <= Len(s)
    BY <1>1, <1>2, <1>3, <2>1 DEF w
  <2>2. CASE ~(i <= Len(s)) /\ i <= Len(s) + Len(t)
    BY <1>1, <1>2, <1>3, <2>2 DEF w
  <2>3. CASE ~(i <= Len(s) + Len(t))
    <3>1. w[i] = u[i - Len(r)] /\ i - Len(r) = i - Len(s) - Len(t)
      BY <1>1, <1>2, <1>3, <2>3 DEF w
    <3> QED
      BY <1>1, <1>3, <2>3, <3>1
  <2> QED
    BY <2>1, <2>2, <2>3
<1> QED
  BY <1>2, <1>4, <1>5, <1>6 DEF w

LEMMA CounterAdds ==
    ASSUME NEW doc \in Docs, Told(doc.lines), NEW lines \in N!Typed, NEW n \in N!Texts \cup {None},
           NEW over \in BOOLEAN, None \notin N!Ids
    PROVE  LET new == N!Countered(doc, lines, n, over)
           IN  /\ new \in Docs /\ Added(doc.events, new.events, lines, n)
               /\ DOMAIN new.lines = DOMAIN doc.lines
               /\ \A i \in DOMAIN doc.lines : new.lines[i].id = doc.lines[i].id
<1> DEFINE hit == N!WithIds(doc.lines, DOMAIN lines)
           said == [k \in DOMAIN hit |->
                    [line |-> hit[k].id, text |-> lines[hit[k].id], about |-> hit[k].product]]
           remark == IF n = None THEN <<>> ELSE <<[line |-> None, text |-> n, about |-> None]>>
           ls == [i \in DOMAIN doc.lines |-> N!Proposed(doc.lines[i], lines)]
           ew == doc.events \o said \o remark
           stage == IF over THEN "PENDING_APPROVAL" ELSE "NEGOTIATION"
<1>1. N!Countered(doc, lines, n, over) = [stage |-> stage, order |-> doc.order, lines |-> ls, events |-> ew]
  BY DEF N!Countered
<1>2. doc.lines \in Seq(N!LineDocs) /\ doc.events \in Seq(EventDocs) /\ doc.order \in OrderDocs
  <2>. HIDE DEF N!LineDocs, EventDocs, OrderDocs
  <2> QED
    BY DEF Docs
<1>3. DOMAIN doc.lines = 1 .. Len(doc.lines) /\ Len(doc.lines) \in Nat
        /\ \A i \in DOMAIN doc.lines : doc.lines[i] \in N!LineDocs
  <2>. HIDE DEF N!LineDocs
  <2> QED
    BY <1>2
<1>4. \A id \in DOMAIN lines : id \in N!Ids /\ lines[id] \in N!Texts
  BY DEF N!Typed
<1>5. /\ hit \in Seq(N!LineDocs) /\ Len(hit) \in Nat /\ DOMAIN hit = 1 .. Len(hit) /\ Told(hit)
      /\ \A k \in DOMAIN hit : hit[k].id \in DOMAIN lines /\ hit[k] \in N!LineDocs
  <2>1. KeptOf(hit, Len(doc.lines), N!LineDocs, doc.lines, DOMAIN lines)
    BY <1>2, WithIdsKeeps
  <2>. HIDE DEF hit, N!LineDocs
  <2>2. hit \in Seq(N!LineDocs) /\ Len(hit) \in Nat /\ DOMAIN hit = 1 .. Len(hit)
    BY <2>1 DEF KeptOf
  <2>3. \A i, j \in 1 .. Len(doc.lines) : doc.lines[i].id = doc.lines[j].id => i = j
    BY <1>3 DEF Told
  <2>4. Told(hit)
    BY <2>1, <2>3 DEF KeptOf, Told
  <2>5. \A k \in DOMAIN hit : hit[k].id \in DOMAIN lines
    BY <2>1 DEF KeptOf
  <2> QED
    BY <2>2, <2>4, <2>5
<1>. HIDE DEF hit
<1>6. said \in Seq(EventDocs) /\ Len(said) = Len(hit) /\ \A k \in 1 .. Len(hit) :
         /\ said[k].line = hit[k].id /\ said[k].line \in DOMAIN lines /\ said[k].line # None
         /\ said[k].text = lines[said[k].line]
  <2>1. \A k \in DOMAIN hit : hit[k].id \in N!Ids /\ hit[k].product \in Products /\ lines[hit[k].id] \in N!Texts
    BY <1>4, <1>5 DEF N!LineDocs
  <2>2. said \in [1 .. Len(hit) -> EventDocs]
    BY <1>5, <2>1 DEF EventDocs
  <2>3. said \in Seq(EventDocs) /\ Len(said) = Len(hit)
    <3>. HIDE DEF said, EventDocs
    <3> QED
      BY <1>5, <2>2, SeqOfLength
  <2>4. \A k \in 1 .. Len(hit) : said[k].line = hit[k].id /\ said[k].text = lines[hit[k].id]
    BY <1>5
  <2> HIDE DEF said
  <2> QED
    BY <1>4, <1>5, <2>1, <2>3, <2>4
<1>. HIDE DEF said
<1>7. remark \in Seq(EventDocs) /\ Len(remark) \in Nat
        /\ \A k \in 1 .. Len(remark) : k = 1 /\ n # None /\ remark[k].line = None /\ remark[k].text = n
  <2>1. CASE n = None
    BY <2>1
  <2>2. CASE n # None
    <3> DEFINE e == [line |-> None, text |-> n, about |-> None]
    <3>1. e \in EventDocs /\ e.line = None /\ e.text = n
      BY <2>2 DEF EventDocs
    <3>2. remark = <<e>>
      BY <2>2
    <3> HIDE DEF e, remark, EventDocs
    <3> QED
      BY <2>2, <3>1, <3>2
  <2> QED
    BY <2>1, <2>2
<1>. HIDE DEF remark
<1>8. Added(doc.events, ew, lines, n)
  <2>. HIDE DEF EventDocs
  <2>1. Len(doc.events) \in Nat /\ DOMAIN doc.events = 1 .. Len(doc.events)
    BY <1>2
  <2>2. ew \in Seq(EventDocs) /\ DOMAIN ew = 1 .. Len(doc.events) + Len(said) + Len(remark)
    BY <1>2, <1>6, <1>7, ThreeSeqs
  <2>3. \A i \in 1 .. Len(doc.events) + Len(said) + Len(remark) :
                 \/ i \in 1 .. Len(doc.events) /\ ew[i] = doc.events[i]
                 \/ i - Len(doc.events) \in 1 .. Len(said) /\ ew[i] = said[i - Len(doc.events)]
                 \/ i - Len(doc.events) - Len(said) \in 1 .. Len(remark) /\ ew[i] = remark[i - Len(doc.events) - Len(said)]
    BY <1>2, <1>6, <1>7, ThreeSeqs
  <2>. HIDE DEF ew
  <2>4. DOMAIN doc.events \subseteq DOMAIN ew
    BY <1>5, <1>6, <1>7, <2>1, <2>2
  <2>5. \A i \in DOMAIN doc.events : ew[i] = doc.events[i]
    <3>. TAKE i \in DOMAIN doc.events
    <3>1. ~(i - Len(doc.events) \in 1 .. Len(said)) /\ ~(i - Len(doc.events) - Len(said) \in 1 .. Len(remark))
      BY <1>5, <1>6, <1>7, <2>1
    <3> QED
      BY <2>2, <2>3, <2>4, <3>1
  <2>6. \A i \in DOMAIN ew \ DOMAIN doc.events :
          \/ /\ i - Len(doc.events) \in 1 .. Len(hit) /\ ew[i].line = hit[i - Len(doc.events)].id
             /\ ew[i].line # None /\ ew[i].line \in DOMAIN lines /\ ew[i].text = lines[ew[i].line]
          \/ ew[i].line = None /\ n # None /\ ew[i].text = n
    <3>. TAKE i \in DOMAIN ew \ DOMAIN doc.events
    <3> DEFINE k == i - Len(doc.events)
               m == i - Len(doc.events) - Len(said)
    <3>1. ~(i \in 1 .. Len(doc.events))
      BY <2>1
    <3>2. \/ k \in 1 .. Len(said) /\ ew[i] = said[k]
          \/ m \in 1 .. Len(remark) /\ ew[i] = remark[m]
      BY <2>2, <2>3, <3>1
    <3> HIDE DEF k, m
    <3>3. \/ /\ k \in 1 .. Len(hit) /\ ew[i].line = hit[k].id
             /\ ew[i].line # None /\ ew[i].line \in DOMAIN lines /\ ew[i].text = lines[ew[i].line]
          \/ ew[i].line = None /\ n # None /\ ew[i].text = n
      BY <1>6, <1>7, <3>2
    <3> QED
      BY <3>3 DEF k
  <2>7. \A i, j \in DOMAIN ew \ DOMAIN doc.events : ew[i].line # None /\ ew[i].line = ew[j].line => i = j
    <3>. SUFFICES ASSUME NEW i \in DOMAIN ew \ DOMAIN doc.events, NEW j \in DOMAIN ew \ DOMAIN doc.events,
                         ew[i].line # None, ew[i].line = ew[j].line
                  PROVE  i = j
      OBVIOUS
    <3> DEFINE k == i - Len(doc.events)
               m == j - Len(doc.events)
    <3>1. k \in 1 .. Len(hit) /\ m \in 1 .. Len(hit) /\ hit[k].id = hit[m].id
      BY <2>6
    <3>2. k = m
      <4> HIDE DEF k, m
      <4> QED
        BY <1>5, <3>1 DEF Told
    <3> QED
      BY <2>1, <2>2, <3>2
  <2> QED
    BY <2>2, <2>4, <2>5, <2>6, <2>7 DEF Added
<1>9. ls \in Seq(N!LineDocs) /\ DOMAIN ls = DOMAIN doc.lines /\ \A i \in DOMAIN doc.lines : ls[i].id = doc.lines[i].id
  <2>1. \A i \in DOMAIN doc.lines : N!Proposed(doc.lines[i], lines) \in N!LineDocs
                                     /\ N!Proposed(doc.lines[i], lines).id = doc.lines[i].id
    BY <1>3 DEF N!Proposed, N!LineDocs
  <2>2. ls \in [1 .. Len(doc.lines) -> N!LineDocs]
    BY <1>3, <2>1
  <2>3. \A i \in DOMAIN doc.lines : ls[i].id = doc.lines[i].id
    BY <2>1
  <2>. HIDE DEF ls, N!LineDocs
  <2> QED
    BY <1>3, <2>2, <2>3, SeqOfLength
<1>. HIDE DEF ls, ew, N!LineDocs, EventDocs, OrderDocs
<1>10. ew \in Seq(EventDocs)
  BY <1>8 DEF Added
<1> DEFINE new == [stage |-> stage, order |-> doc.order, lines |-> ls, events |-> ew]
<1>11. new \in Docs
  BY <1>2, <1>9, <1>10 DEF Docs, ThreadStages
<1> QED
  BY <1>1, <1>8, <1>9, <1>11

Answers == [of : Quotations, stage : ThreadStages, lines : Seq(N!LineDocs), events : Seq(EventDocs)]
Gets == [of : Quotations, then : {"nothing", "write"}, at : {"asked", "failed", "read"}, got : Answers \cup {None}]

(* The lines of every quotation have ids of their own, no higher than the  *)
(* edits there were.                                                       *)
ThreadInv ==
    /\ thread \in [Quotations -> Docs]
    /\ others \in 0 .. MaxOthers /\ texts \in 0 .. MaxTexts
    /\ \A qn \in Quotations : /\ Told(thread[qn].lines)
                             /\ \A i \in DOMAIN thread[qn].lines : thread[qn].lines[i].id[2] <= others + 2

(* What is on the page and under way; a write waits for one load only.     *)
PageInv ==
    /\ drafts \in N!Typed /\ note \in N!Texts \cup {None}
    /\ presented # None => presented \in Answers
    /\ request # None => request \in N!Requests
    /\ gets \subseteq Gets
    /\ \A g \in gets : /\ g.at = "read" => g.got \in Answers
                       /\ g.then = "write" => request # None /\ request.step = "loading"
    /\ \A g, h \in gets : g.then = "write" /\ h.then = "write" => g = h
    /\ lost \in BOOLEAN

LEMMA EventsOfTyped ==
    ASSUME ThreadInv, NEW qn \in Quotations
    PROVE  /\ thread[qn] \in Docs /\ thread[qn].lines \in Seq(N!LineDocs) /\ thread[qn].events \in Seq(EventDocs)
           /\ thread[qn].order \in OrderDocs /\ thread[qn].stage \in ThreadStages
<1>. HIDE DEF N!LineDocs, EventDocs, OrderDocs, ThreadStages
<1> QED
  BY DEF ThreadInv, Docs

LEMMA LinesAreDocs ==
    ASSUME NEW lines \in Seq(N!LineDocs)
    PROVE  /\ DOMAIN lines = 1 .. Len(lines) /\ Len(lines) \in Nat
           /\ \A i \in DOMAIN lines : lines[i] \in N!LineDocs /\ lines[i].id \in N!Ids
                                       /\ lines[i].id[2] \in 1 .. MaxOthers + 2 /\ lines[i].id[1] \in Quotations
<1>1. DOMAIN lines = 1 .. Len(lines) /\ Len(lines) \in Nat /\ \A i \in DOMAIN lines : lines[i] \in N!LineDocs
  <2>. HIDE DEF N!LineDocs
  <2> QED
    OBVIOUS
<1>2. \A l \in N!LineDocs : l.id \in N!Ids /\ l.id[2] \in 1 .. MaxOthers + 2 /\ l.id[1] \in Quotations
  BY DEF N!LineDocs, N!Ids
<1> HIDE DEF N!LineDocs, N!Ids
<1> QED
  BY <1>1, <1>2

LEMMA NothingAdded ==
    ASSUME NEW ev \in Seq(EventDocs), NEW lines, NEW n
    PROVE  Added(ev, ev, lines, n)
  BY DEF Added

(* A step that changes one quotation.                                      *)
LEMMA OneChanges ==
    ASSUME PartsAssumption, ThreadInv, NEW r \in Quotations, NEW new \in Docs, thread' = [thread EXCEPT ![r] = new],
           others' \in others .. MaxOthers, texts' \in 0 .. MaxTexts, Told(new.lines),
           \A i \in DOMAIN new.lines : new.lines[i].id[2] <= others' + 2
    PROVE  ThreadInv'
<1>. HIDE DEF Docs
<1>1. thread' \in [Quotations -> Docs] /\ thread'[r] = new /\ \A qn \in Quotations \ {r} : thread'[qn] = thread[qn]
  BY DEF ThreadInv
<1>2. others \in Nat /\ others' \in Nat /\ MaxOthers \in Nat /\ others <= others' /\ others' \in 0 .. MaxOthers
  BY DEF ThreadInv, PartsAssumption
<1>3. ASSUME NEW qn \in Quotations, qn # r
      PROVE  Told(thread'[qn].lines) /\ \A i \in DOMAIN thread'[qn].lines : thread'[qn].lines[i].id[2] <= others' + 2
  <2>1. thread'[qn] = thread[qn]
    BY <1>1, <1>3
  <2>2. Told(thread[qn].lines) /\ \A i \in DOMAIN thread[qn].lines : thread[qn].lines[i].id[2] <= others + 2
    BY DEF ThreadInv
  <2>3. \A i \in DOMAIN thread[qn].lines : thread[qn].lines[i].id[2] \in Int
    BY EventsOfTyped, LinesAreDocs
  <2> DEFINE ls == thread[qn].lines
  <2> HIDE DEF ls
  <2>4. \A i \in DOMAIN ls : ls[i].id[2] <= others' + 2
    BY <1>2, <2>2, <2>3 DEF ls
  <2> QED
    BY <2>1, <2>2, <2>4 DEF ls
<1> QED
  BY <1>1, <1>2, <1>3 DEF ThreadInv

LEMMA EditStays ==
    ASSUME PartsAssumption, ThreadInv, NEW r \in Quotations, N!Edit(r)
    PROVE  /\ ThreadInv' /\ \A qn \in Quotations : thread'[qn].events = thread[qn].events
           /\ UNCHANGED <<texts, drafts, note, request, lost, presented, gets>>
<1> DEFINE numbers == {0} \cup {id[2] : id \in {thread[r].lines[i].id : i \in DOMAIN thread[r].lines}}
           next == N!Max(numbers) + 1
<1>1. PICK kept \in SUBSET N!LineIds(r), added \in UNION {[1 .. k -> Products] : k \in 0 .. 1} :
          thread' = [thread EXCEPT ![r].lines =
                N!WithIds(@, kept)
                    \o [k \in DOMAIN added |->
                          [id |-> N!Id(r, N!NextLineNumber(r) + k - 1), product |-> added[k], terms |-> 0]]]
  BY DEF N!Edit
<1> DEFINE new == N!WithIds(thread[r].lines, kept)
                    \o [k \in DOMAIN added |-> [id |-> <<r, next + k - 1>>, product |-> added[k], terms |-> 0]]
<1>2. N!NextLineNumber(r) = next
  BY DEF N!NextLineNumber, N!LineIds
<1>3. thread' = [thread EXCEPT ![r].lines = new]
  BY <1>1, <1>2 DEF N!Id
<1>4. thread[r].lines \in Seq(N!LineDocs) /\ thread[r] \in Docs
  BY EventsOfTyped
<1>5. others \in 0 .. MaxOthers - 1 /\ MaxOthers \in Nat /\ others' = others + 1
  BY DEF ThreadInv, PartsAssumption, N!Edit
<1>6. Told(thread[r].lines) /\ \A i \in DOMAIN thread[r].lines : thread[r].lines[i].id[2] <= others + 2
  BY DEF ThreadInv
<1>7. new \in Seq(N!LineDocs) /\ Told(new) /\ \A i \in DOMAIN new : new[i].id[2] <= others + 1 + 2
  BY <1>4, <1>5, <1>6, EditsAreTold
<1>. HIDE DEF new, N!LineDocs, EventDocs, OrderDocs, ThreadStages
<1> DEFINE doc == [thread[r] EXCEPT !.lines = new]
<1>8. doc \in Docs /\ doc.lines = new /\ doc.events = thread[r].events
  BY <1>4, <1>7 DEF Docs
<1>9. thread' = [thread EXCEPT ![r] = doc]
  BY <1>3
<1>. HIDE DEF doc
<1>10. UNCHANGED <<texts, drafts, note, request, lost, presented, gets>>
  BY DEF N!Edit
<1>11. ThreadInv'
  <2>1. others' \in others .. MaxOthers /\ texts' \in 0 .. MaxTexts
    BY <1>5, <1>10 DEF ThreadInv
  <2>2. Told(doc.lines) /\ \A i \in DOMAIN doc.lines : doc.lines[i].id[2] <= others' + 2
    BY <1>5, <1>7, <1>8
  <2> QED
    BY <1>8, <1>9, <2>1, <2>2, OneChanges
<1>12. \A qn \in Quotations : thread'[qn].events = thread[qn].events
  BY <1>8, <1>9 DEF ThreadInv
<1> QED
  BY <1>10, <1>11, <1>12

LEMMA ReviewStays ==
    ASSUME PartsAssumption, ThreadInv, NEW r \in Quotations, N!Review(r)
    PROVE  /\ ThreadInv' /\ \A qn \in Quotations : thread'[qn].events = thread[qn].events
           /\ UNCHANGED <<texts, drafts, note, request, lost, presented, gets>>
<1>1. PICK move \in N!StageMoves : thread' = [thread EXCEPT ![r].stage = move[2]]
  BY DEF N!Review
<1>2. move[2] \in ThreadStages
  BY DEF N!StageMoves, ThreadStages
<1>3. thread[r] \in Docs /\ thread[r].lines \in Seq(N!LineDocs)
  BY EventsOfTyped
<1> DEFINE doc == [thread[r] EXCEPT !.stage = move[2]]
<1>. HIDE DEF N!LineDocs, EventDocs, OrderDocs, ThreadStages
<1>4. doc \in Docs /\ doc.lines = thread[r].lines /\ doc.events = thread[r].events
  BY <1>2, <1>3 DEF Docs
<1>5. thread' = [thread EXCEPT ![r] = doc]
  BY <1>1
<1>. HIDE DEF doc
<1>6. UNCHANGED <<texts, drafts, note, request, lost, presented, gets>> /\ others' = others + 1 /\ others < MaxOthers
  BY DEF N!Review
<1>7. ThreadInv'
  <2>1. others' \in others .. MaxOthers /\ texts' \in 0 .. MaxTexts /\ others \in Nat /\ MaxOthers \in Nat
    BY <1>6 DEF ThreadInv, PartsAssumption
  <2>2. Told(doc.lines)
    BY <1>4 DEF ThreadInv
  <2>3. \A i \in DOMAIN doc.lines : doc.lines[i].id[2] \in Int /\ doc.lines[i].id[2] <= others + 2
    BY <1>3, <1>4, LinesAreDocs DEF ThreadInv
  <2>4. \A i \in DOMAIN doc.lines : doc.lines[i].id[2] <= others' + 2
    BY <1>6, <2>1, <2>3
  <2> QED
    BY <1>4, <1>5, <2>1, <2>2, <2>4, OneChanges
<1>8. \A qn \in Quotations : thread'[qn].events = thread[qn].events
  BY <1>4, <1>5 DEF ThreadInv
<1> QED
  BY <1>6, <1>7, <1>8

(* A counter-offer, of a colleague or of the page.                         *)
LEMMA CounterStays ==
    ASSUME PartsAssumption, NoneIsNoDocument, ThreadInv, NEW r \in Quotations,
           NEW lines \in N!Typed, NEW n \in N!Texts \cup {None}, NEW over \in BOOLEAN,
           thread' = [thread EXCEPT ![r] = N!Countered(@, lines, n, over)],
           others' \in others .. MaxOthers, texts' \in 0 .. MaxTexts
    PROVE  /\ ThreadInv' /\ Added(thread[r].events, thread'[r].events, lines, n)
           /\ \A qn \in Quotations \ {r} : thread'[qn].events = thread[qn].events
<1> DEFINE new == N!Countered(thread[r], lines, n, over)
<1>1. thread[r] \in Docs /\ Told(thread[r].lines) /\ None \notin N!Ids
  BY EventsOfTyped DEF ThreadInv, NoneIsNoDocument
<1>2. /\ new \in Docs /\ Added(thread[r].events, new.events, lines, n)
      /\ DOMAIN new.lines = DOMAIN thread[r].lines
      /\ \A i \in DOMAIN thread[r].lines : new.lines[i].id = thread[r].lines[i].id
  BY <1>1, CounterAdds
<1>3. thread' = [thread EXCEPT ![r] = new]
  OBVIOUS
<1>. HIDE DEF new
<1>4. Told(new.lines)
  BY <1>1, <1>2 DEF Told
<1>5. \A i \in DOMAIN new.lines : new.lines[i].id[2] <= others' + 2
  <2>1. others \in Nat /\ others' \in Nat /\ others <= others'
    BY DEF ThreadInv
  <2>2. \A i \in DOMAIN thread[r].lines : thread[r].lines[i].id[2] <= others + 2 /\ thread[r].lines[i].id[2] \in Int
    BY EventsOfTyped, LinesAreDocs DEF ThreadInv
  <2>3. \A i \in DOMAIN new.lines : new.lines[i].id[2] <= others + 2 /\ new.lines[i].id[2] \in Int
    BY <1>2, <2>2
  <2> QED
    BY <2>1, <2>3
<1>6. ThreadInv'
  BY <1>2, <1>3, <1>4, <1>5, OneChanges
<1>7. thread'[r] = new /\ \A qn \in Quotations \ {r} : thread'[qn] = thread[qn]
  BY <1>3 DEF ThreadInv
<1> QED
  BY <1>2, <1>6, <1>7

LEMMA TypedFunction ==
    ASSUME NEW D \in SUBSET N!Ids, NEW f \in [D -> N!Texts]
    PROVE  f \in N!Typed
<1>. HIDE DEF N!Ids, N!Texts
<1> QED
  BY Zenon DEF N!Typed

LEMMA OneKey ==
    ASSUME NEW id \in N!Ids, NEW t \in N!Texts
    PROVE  [i \in {id} |-> t] \in N!Typed
<1>. HIDE DEF N!Ids, N!Texts
<1>1. [i \in {id} |-> t] \in [{id} -> N!Texts] /\ {id} \in SUBSET N!Ids
  OBVIOUS
<1> QED
  BY <1>1, TypedFunction

LEMMA NothingTyped == <<>> \in N!Typed /\ \A id : id \notin DOMAIN <<>>
<1>1. <<>> \in [{} -> N!Texts]
  BY DEF N!Texts
<1> QED
  BY <1>1 DEF N!Typed

LEMMA TypedOne ==
    ASSUME NEW d \in N!Typed, NEW id \in N!Ids, NEW t \in N!Texts
    PROVE  [i \in DOMAIN d \cup {id} |-> IF i = id THEN t ELSE d[i]] \in N!Typed
<1>. HIDE DEF N!Ids, N!Texts
<1> DEFINE D == DOMAIN d \cup {id}
           f == [i \in D |-> IF i = id THEN t ELSE d[i]]
<1>1. DOMAIN d \subseteq N!Ids /\ \A i \in DOMAIN d : d[i] \in N!Texts
  BY DEF N!Typed
<1>2. D \in SUBSET N!Ids /\ f \in [D -> N!Texts]
  BY <1>1
<1>. HIDE DEF D, f
<1>3. f \in N!Typed
  BY <1>2, TypedFunction
<1> QED
  BY <1>3 DEF D, f

LEMMA StepOf ==
    ASSUME NEW r \in N!Requests, NEW s \in {"sent", "handled", "loading", "listing"}
    PROVE  LET new == [r EXCEPT !.step = s]
           IN  /\ new \in N!Requests /\ new.step = s /\ new.lines = r.lines /\ new.note = r.note
               /\ new.kind = r.kind /\ new.to = r.to
<1>. HIDE DEF N!Typed, N!Texts, N!LineDocs
<1> QED
  BY DEF N!Requests

LEMMA RequestFields ==
    ASSUME NEW r \in N!Requests
    PROVE  /\ r.lines \in N!Typed /\ r.note \in N!Texts \cup {None} /\ r.to \in Quotations
           /\ r.seen \in Seq(N!LineDocs) \cup {None} /\ r.kind \in {"counter", "confirm"}
           /\ r.step \in {"sent", "handled", "loading", "listing"}
<1>. HIDE DEF N!Typed, N!Texts, N!LineDocs
<1> QED
  BY DEF N!Requests

LEMMA GetFields ==
    ASSUME NEW g \in Gets
    PROVE  /\ g.of \in Quotations /\ g.then \in {"nothing", "write"} /\ g.at \in {"asked", "failed", "read"}
           /\ g.got \in Answers \cup {None}
<1>. HIDE DEF Answers
<1> QED
  BY DEF Gets

LEMMA AskedLoad ==
    ASSUME NEW o \in Quotations, NEW then \in {"nothing", "write"}
    PROVE  LET g == [of |-> o, then |-> then, at |-> "asked", got |-> None]
           IN  g \in Gets /\ g.at = "asked" /\ g.then = then
<1>. HIDE DEF Answers
<1> QED
  BY DEF Gets

LEMMA AnsweredLoad ==
    ASSUME NEW o \in Quotations, NEW then \in {"nothing", "write"}, NEW a \in {"failed", "read"},
           NEW got \in Answers \cup {None}
    PROVE  LET g == [of |-> o, then |-> then, at |-> a, got |-> got]
           IN  g \in Gets /\ g.at = a /\ g.then = then /\ g.got = got
<1>. HIDE DEF Answers
<1> QED
  BY DEF Gets

LEMMA PageInitially ==
    ASSUME PartsAssumption, N!NegotiationInit
    PROVE  ThreadInv /\ PageInv
<1>1. PICK prod \in Products :
          thread = [qn \in Quotations |->
                    [stage |-> IF qn \in Moving THEN "APPROVED" ELSE "REJECTED", events |-> <<>>, order |-> None,
                     lines |-> [n \in 1 .. 2 |-> [id |-> N!Id(qn, n), product |-> prod, terms |-> 0]]]]
  BY DEF N!NegotiationInit
<1>2. others = 0 /\ texts = 0 /\ MaxOthers \in Nat /\ MaxTexts \in Nat
  BY DEF N!NegotiationInit, PartsAssumption
<1>3. ASSUME NEW qn \in Quotations
      PROVE  /\ thread[qn] \in Docs /\ Told(thread[qn].lines)
             /\ \A i \in DOMAIN thread[qn].lines : thread[qn].lines[i].id[2] <= 2
  <2> DEFINE ls == [n \in 1 .. 2 |-> [id |-> N!Id(qn, n), product |-> prod, terms |-> 0]]
             stage == IF qn \in Moving THEN "APPROVED" ELSE "REJECTED"
  <2>1. thread[qn] = [stage |-> stage, events |-> <<>>, order |-> None, lines |-> ls]
    BY <1>1
  <2>2. ls \in [1 .. 2 -> N!LineDocs] /\ \A i \in 1 .. 2 : ls[i].id = <<qn, i>>
    BY <1>2 DEF N!LineDocs, N!Ids, N!Id
  <2> HIDE DEF ls
  <2>3. DOMAIN ls = 1 .. 2 /\ \A i \in DOMAIN ls : ls[i].id = <<qn, i>>
    BY <2>2
  <2> HIDE DEF N!LineDocs, EventDocs
  <2>4. ls \in Seq(N!LineDocs)
    BY <2>2, SeqOfLength
  <2>5. [stage |-> stage, events |-> <<>>, order |-> None, lines |-> ls] \in Docs
    BY <2>4 DEF Docs, OrderDocs, ThreadStages
  <2>6. Told(ls) /\ \A i \in DOMAIN ls : ls[i].id[2] <= 2
    BY <2>3 DEF Told
  <2> QED
    BY <2>1, <2>5, <2>6
<1>4. thread \in [Quotations -> Docs]
  <2>. HIDE DEF Docs
  <2> QED
    BY <1>1, <1>3
<1>5. ThreadInv
  BY <1>2, <1>3, <1>4 DEF ThreadInv
<1>6. PageInv
  BY NothingTyped DEF PageInv, N!NegotiationInit
<1> QED
  BY <1>5, <1>6

(* A load that is started.                                                 *)
LEMMA LoadStarts ==
    ASSUME PageInv, NEW o \in Quotations, NEW then \in {"nothing", "write"}, N!StartLoad(o, then),
           then = "nothing" => UNCHANGED request,
           then = "write" => request # None /\ request.step # "loading" /\ request' # None /\ request'.step = "loading"
    PROVE  /\ gets' \subseteq Gets
           /\ \A g \in gets' : /\ g.at = "read" => g.got \in Answers
                               /\ g.then = "write" => request' # None /\ request'.step = "loading"
           /\ \A g, h \in gets' : g.then = "write" /\ h.then = "write" => g = h
<1> DEFINE new == [of |-> o, then |-> then, at |-> "asked", got |-> None]
<1>1. new \in Gets /\ new.at = "asked" /\ new.then = then
  BY AskedLoad
<1>. HIDE DEF new, Gets, Answers
<1>2. gets' = gets \cup {new}
  BY DEF N!StartLoad, new
<1>3. then = "write" => \A g \in gets : g.then # "write"
  BY DEF PageInv
<1>4. ASSUME NEW g \in gets' PROVE (g.at = "read" => g.got \in Answers) /\ (g.then = "write" => request' # None /\ request'.step = "loading")
  <2>1. CASE g \in gets
    BY <1>3, <2>1 DEF PageInv
  <2>2. CASE g = new
    BY <1>1, <2>2
  <2> QED
    BY <1>2, <2>1, <2>2
<1>5. ASSUME NEW g \in gets', NEW h \in gets', g.then = "write", h.then = "write" PROVE g = h
  BY <1>1, <1>2, <1>3, <1>5 DEF PageInv
<1> QED
  BY <1>1, <1>2, <1>4, <1>5 DEF PageInv

(* ... answered ...                                                        *)
LEMMA LoadAnswers ==
    ASSUME ThreadInv, PageInv, NEW pull \in gets, N!LoadAnswered(pull)
    PROVE  PageInv'
<1> DEFINE o == pull.of
           answer == [of |-> o, stage |-> thread[o].stage, lines |-> thread[o].lines, events |-> thread[o].events]
<1>1. pull \in Gets /\ o \in Quotations /\ pull.then \in {"nothing", "write"}
  BY GetFields DEF PageInv
<1>2. answer \in Answers
  <2>1. thread[o].lines \in Seq(N!LineDocs) /\ thread[o].events \in Seq(EventDocs) /\ thread[o].stage \in ThreadStages
    BY <1>1, EventsOfTyped
  <2>. HIDE DEF N!LineDocs, EventDocs, ThreadStages, o
  <2> QED
    BY <1>1, <2>1 DEF Answers
<1>. HIDE DEF Answers, Gets, answer
<1>3. PICK new \in Gets : /\ gets' = (gets \ {pull}) \cup {new} /\ new.then = pull.then
                          /\ new.at = "read" => new.got \in Answers
  <2>1. CASE gets' = (gets \ {pull}) \cup {[of |-> o, then |-> pull.then, at |-> "failed", got |-> None]}
    <3> DEFINE new == [of |-> o, then |-> pull.then, at |-> "failed", got |-> None]
    <3>1. new \in Gets /\ new.then = pull.then /\ new.at = "failed"
      BY <1>1, AnsweredLoad
    <3> HIDE DEF new, o
    <3>2. gets' = (gets \ {pull}) \cup {new}
      BY <2>1 DEF new
    <3> QED
      BY <3>1, <3>2
  <2>2. CASE gets' = (gets \ {pull}) \cup {[of |-> o, then |-> pull.then, at |-> "read", got |-> answer]}
    <3> DEFINE new == [of |-> o, then |-> pull.then, at |-> "read", got |-> answer]
    <3>1. new \in Gets /\ new.then = pull.then /\ new.at = "read" /\ new.got = answer
      BY <1>1, <1>2, AnsweredLoad
    <3> HIDE DEF new, o
    <3>2. gets' = (gets \ {pull}) \cup {new}
      BY <2>2 DEF new
    <3> QED
      BY <1>2, <3>1, <3>2
  <2> QED
    BY <2>1, <2>2 DEF N!LoadAnswered, answer
<1>4. UNCHANGED <<drafts, note, presented, request, lost>>
  BY DEF N!LoadAnswered
<1>5. ASSUME NEW g \in gets' PROVE (g.at = "read" => g.got \in Answers) /\ (g.then = "write" => request' # None /\ request'.step = "loading")
  <2>1. CASE g \in gets
    BY <1>4, <2>1 DEF PageInv
  <2>2. CASE g = new
    BY <1>3, <1>4, <2>2 DEF PageInv
  <2> QED
    BY <1>3, <2>1, <2>2
<1>6. ASSUME NEW g \in gets', NEW h \in gets', g.then = "write", h.then = "write" PROVE g = h
  BY <1>3, <1>6 DEF PageInv
<1>7. gets' \subseteq Gets
  BY <1>3 DEF PageInv
<1> QED
  BY <1>4, <1>5, <1>6, <1>7 DEF PageInv

(* ... and done.                                                           *)
LEMMA LoadEnds ==
    ASSUME NoneIsNoDocument, PageInv, NEW pull \in gets, N!LoadDone(pull)
    PROVE  /\ PageInv'
           /\ \/ UNCHANGED request
              \/ request # None /\ request' # None /\ request.step = "loading" /\ request'.step = "listing"
                 /\ request'.lines = request.lines /\ request'.note = request.note /\ request'.kind = request.kind
<1>1. pull \in Gets
  BY DEF PageInv
<1>. HIDE DEF Answers, Gets, N!Requests
<1>2. gets' = gets \ {pull} /\ UNCHANGED <<drafts, note, lost>>
  BY DEF N!LoadDone
<1>3. presented' # None => presented' \in Answers
  <2>1. CASE pull.at = "failed"
    BY <2>1 DEF N!LoadDone, PageInv
  <2>2. CASE pull.at # "failed"
    <3>1. pull.at = "read" /\ presented' = pull.got
      BY <1>1, <2>2, GetFields DEF N!LoadDone
    <3> QED
      BY <3>1 DEF PageInv
  <2> QED
    BY <2>1, <2>2
<1>4. CASE pull.then = "write"
  <2>1. request # None /\ request \in N!Requests /\ request.step = "loading"
    BY <1>4 DEF PageInv
  <2>2. request' = [request EXCEPT !.step = "listing"]
    BY <1>4 DEF N!LoadDone
  <2>3. /\ request' \in N!Requests /\ request'.step = "listing" /\ request'.lines = request.lines
        /\ request'.note = request.note /\ request'.kind = request.kind
    BY <2>1, <2>2, StepOf
  <2>4. request' # None
    BY <2>3 DEF NoneIsNoDocument
  <2>5. \A g \in gets' : g.then # "write"
    BY <1>2, <1>4 DEF PageInv
  <2>6. PageInv'
    BY <1>2, <1>3, <2>3, <2>5 DEF PageInv
  <2> QED
    BY <2>1, <2>3, <2>4, <2>6
<1>5. CASE pull.then # "write"
  <2>1. UNCHANGED request
    BY <1>5 DEF N!LoadDone
  <2>2. PageInv'
    BY <1>2, <1>3, <2>1 DEF PageInv
  <2> QED
    BY <2>1, <2>2
<1> QED
  BY <1>4, <1>5

(* What a step does to what has been said, typed and sent.                 *)
EventsKept == \A qn \in Quotations : thread'[qn].events = thread[qn].events
SameRequest == request'.kind = request.kind /\ request'.lines = request.lines /\ request'.note = request.note

Quiet ==
    /\ EventsKept /\ UNCHANGED <<texts, drafts, note, lost>>
    /\ \/ UNCHANGED request
       \/ /\ request # None /\ request' # None /\ SameRequest
          /\ request'.step # "sent" /\ (request.step # "sent" \/ request.kind = "confirm")
Opens == EventsKept /\ drafts' = <<>> /\ note' = None /\ UNCHANGED <<texts, request, lost>>
Types ==
    /\ EventsKept /\ texts' = texts + 1 /\ UNCHANGED <<note, request, lost>>
    /\ \E id \in N!Ids : drafts' = [i \in DOMAIN drafts \cup {id} |-> IF i = id THEN texts + 1 ELSE drafts[i]]
Notes == EventsKept /\ texts' = texts + 1 /\ note' = texts + 1 /\ UNCHANGED <<drafts, request, lost>>
Sends ==
    /\ EventsKept /\ UNCHANGED <<texts, drafts, note, lost>>
    /\ request = None /\ request' # None /\ request'.step = "sent"
    /\ \/ request'.kind = "counter" /\ request'.lines = drafts /\ request'.note = note
       \/ request'.kind = "confirm" /\ request'.lines = <<>> /\ request'.note = None
Counters(r, lines, n) ==
    /\ Added(thread[r].events, thread'[r].events, lines, n)
    /\ \A qn \in Quotations \ {r} : thread'[qn].events = thread[qn].events
    /\ UNCHANGED <<drafts, note, lost>>
Colleague ==
    /\ \E r \in Quotations, id \in N!Ids : Counters(r, [i \in {id} |-> texts + 1], None)
    /\ texts' = texts + 1 /\ UNCHANGED request
Lands ==
    /\ \E r \in Quotations : Counters(r, request.lines, request.note)
    /\ request # None /\ request.kind = "counter" /\ request.step = "sent"
    /\ request' # None /\ SameRequest /\ request'.step = "handled" /\ UNCHANGED texts
Fails ==
    /\ EventsKept /\ UNCHANGED <<texts, drafts, note>>
    /\ request # None /\ request.step \in {"sent", "handled"} /\ request' = None
    /\ lost' = (lost \/ request.step = "handled")
Finishes ==
    /\ EventsKept /\ UNCHANGED <<texts, note, lost>>
    /\ request # None /\ request.step = "listing" /\ request' = None
    /\ drafts' = IF request.kind = "counter" THEN <<>> ELSE drafts
Effect ==
    Quiet \/ Opens \/ Types \/ Notes \/ Sends \/ Colleague \/ Lands \/ Fails \/ Finishes

LEMMA SameThread ==
    ASSUME ThreadInv, UNCHANGED <<thread, others>>, texts' \in 0 .. MaxTexts
    PROVE  ThreadInv' /\ EventsKept
<1>. HIDE DEF Docs
<1> QED
  BY DEF ThreadInv, EventsKept

LEMMA NewText ==
    ASSUME PartsAssumption, ThreadInv, texts < MaxTexts, texts' = texts + 1
    PROVE  texts' \in 0 .. MaxTexts /\ texts + 1 \in N!Texts
  BY DEF PartsAssumption, ThreadInv, N!Texts

LEMMA TakesStep ==
    ASSUME NoneIsNoDocument, PageInv, request # None, NEW s \in {"handled", "loading"},
           request' = [request EXCEPT !.step = s]
    PROVE  request' \in N!Requests /\ request' # None /\ SameRequest /\ request'.step = s
<1>1. request \in N!Requests
  BY DEF PageInv
<1> DEFINE new == [request EXCEPT !.step = s]
<1>2. /\ new \in N!Requests /\ new.step = s /\ new.lines = request.lines /\ new.note = request.note
      /\ new.kind = request.kind
  <2>1. s \in {"sent", "handled", "loading", "listing"}
    OBVIOUS
  <2> QED
    BY <1>1, <2>1, StepOf
<1>. HIDE DEF new, N!Requests
<1>3. request' = new
  BY DEF new
<1> QED
  BY <1>2, <1>3 DEF SameRequest, NoneIsNoDocument

(* A step that starts no load and moves no write keeps the loads in order. *)
LEMMA LoadsKept ==
    ASSUME PageInv, UNCHANGED gets,
           \/ UNCHANGED request
           \/ request = None
           \/ request # None /\ request.step # "loading"
    PROVE  /\ gets' \subseteq Gets
           /\ \A g \in gets' : /\ g.at = "read" => g.got \in Answers
                               /\ g.then = "write" => request' # None /\ request'.step = "loading"
           /\ \A g, h \in gets' : g.then = "write" /\ h.then = "write" => g = h
<1>. HIDE DEF Gets, Answers
<1> QED
  BY DEF PageInv

LEMMA PortalSteps ==
    ASSUME PartsAssumption, NoneIsNoDocument, ThreadInv, PageInv, [N!NegotiationNext]_portal
    PROVE  ThreadInv' /\ PageInv' /\ Effect
<1>. HIDE DEF Gets, Answers, N!Requests, N!Typed, N!Texts, N!Ids
<1>0. texts \in 0 .. MaxTexts
  BY DEF ThreadInv
<1>1. CASE UNCHANGED portal
  <2>1. UNCHANGED <<thread, others, texts, drafts, note, request, lost, presented, gets>>
    BY <1>1 DEF portal
  <2>2. ThreadInv' /\ EventsKept
    BY <1>0, <2>1, SameThread
  <2>3. PageInv'
    BY <2>1 DEF PageInv
  <2> QED
    BY <2>1, <2>2, <2>3 DEF Effect, Quiet
<1>2. ASSUME NEW r \in Moving, N!Edit(r) PROVE ThreadInv' /\ PageInv' /\ Effect
  <2>1. /\ ThreadInv' /\ EventsKept /\ UNCHANGED <<texts, drafts, note, request, lost, presented, gets>>
    BY <1>2, EditStays DEF EventsKept, PartsAssumption
  <2>2. PageInv'
    BY <2>1 DEF PageInv
  <2> QED
    BY <2>1, <2>2 DEF Effect, Quiet
<1>3. ASSUME NEW r \in Moving, N!Review(r) PROVE ThreadInv' /\ PageInv' /\ Effect
  <2>1. /\ ThreadInv' /\ EventsKept /\ UNCHANGED <<texts, drafts, note, request, lost, presented, gets>>
    BY <1>3, ReviewStays DEF EventsKept, PartsAssumption
  <2>2. PageInv'
    BY <2>1 DEF PageInv
  <2> QED
    BY <2>1, <2>2 DEF Effect, Quiet
<1>4. ASSUME NEW r \in Moving, N!ColleagueCounters(r) PROVE ThreadInv' /\ PageInv' /\ Effect
  <2>1. PICK id \in N!LineIds(r), over \in BOOLEAN :
          thread' = [thread EXCEPT ![r] = N!Countered(@, [i \in {id} |-> texts + 1], None, over)]
    BY <1>4 DEF N!ColleagueCounters
  <2>2. r \in Quotations
    BY DEF PartsAssumption
  <2>3. id \in N!Ids
    BY <2>2, EventsOfTyped, LinesAreDocs DEF N!LineIds
  <2>4. /\ texts < MaxTexts /\ texts' = texts + 1 /\ others' = others + 1 /\ others < MaxOthers
        /\ UNCHANGED <<drafts, note, request, lost, presented, gets>>
    BY <1>4 DEF N!ColleagueCounters
  <2>5. texts + 1 \in N!Texts /\ texts' \in 0 .. MaxTexts
    BY <2>4, NewText
  <2>6. [i \in {id} |-> texts + 1] \in N!Typed
    BY <2>3, <2>5, OneKey
  <2>7. others' \in others .. MaxOthers
    BY <2>4 DEF ThreadInv, PartsAssumption
  <2> DEFINE lines == [i \in {id} |-> texts + 1]
  <2>8. /\ ThreadInv' /\ Added(thread[r].events, thread'[r].events, lines, None)
        /\ \A qn \in Quotations \ {r} : thread'[qn].events = thread[qn].events
    BY <2>1, <2>2, <2>5, <2>6, <2>7, CounterStays
  <2>9. PageInv'
    BY <2>4 DEF PageInv
  <2>10. Counters(r, lines, None)
    BY <2>4, <2>8 DEF Counters
  <2> QED
    BY <2>2, <2>3, <2>4, <2>8, <2>9, <2>10 DEF Effect, Colleague
<1>5. ASSUME NEW r \in Quotations, N!Open(r) PROVE ThreadInv' /\ PageInv' /\ Effect
  <2>1. UNCHANGED <<thread, presented, request, texts, others, lost>> /\ drafts' = <<>> /\ note' = None
          /\ N!StartLoad(r, "nothing")
    BY <1>5 DEF N!Open
  <2>2. ThreadInv' /\ EventsKept
    BY <1>0, <2>1, SameThread
  <2>3. PageInv'
    BY <2>1, LoadStarts, NothingTyped DEF PageInv
  <2> QED
    BY <2>1, <2>2, <2>3 DEF Effect, Opens
<1>6. ASSUME N!LiveReload PROVE ThreadInv' /\ PageInv' /\ Effect
  <2>1. UNCHANGED <<thread, presented, drafts, note, request, texts, others, lost>> /\ presented # None
          /\ N!StartLoad(presented.of, "nothing")
    BY <1>6 DEF N!LiveReload
  <2>2. ThreadInv' /\ EventsKept
    BY <1>0, <2>1, SameThread
  <2>3. presented.of \in Quotations
    BY <2>1 DEF PageInv, Answers
  <2>4. PageInv'
    BY <2>1, <2>3, LoadStarts DEF PageInv
  <2> QED
    BY <2>1, <2>2, <2>4 DEF Effect, Quiet
<1>7. ASSUME NEW pull \in gets, N!LoadAnswered(pull) PROVE ThreadInv' /\ PageInv' /\ Effect
  <2>1. UNCHANGED <<thread, drafts, note, request, texts, others, lost>>
    BY <1>7 DEF N!LoadAnswered
  <2>2. ThreadInv' /\ EventsKept
    BY <1>0, <2>1, SameThread
  <2>3. PageInv'
    BY <1>7, LoadAnswers
  <2> QED
    BY <2>1, <2>2, <2>3 DEF Effect, Quiet
<1>8. ASSUME NEW pull \in gets, N!LoadDone(pull) PROVE ThreadInv' /\ PageInv' /\ Effect
  <2>1. UNCHANGED <<thread, drafts, note, texts, others, lost>>
    BY <1>8 DEF N!LoadDone
  <2>2. ThreadInv' /\ EventsKept
    BY <1>0, <2>1, SameThread
  <2>3. /\ PageInv'
        /\ \/ UNCHANGED request
           \/ request # None /\ request' # None /\ SameRequest /\ request.step = "loading" /\ request'.step = "listing"
    BY <1>8, LoadEnds DEF SameRequest
  <2> QED
    BY <2>1, <2>2, <2>3 DEF Effect, Quiet
<1>9. ASSUME NEW r \in Quotations, NEW n \in 1 .. MaxOthers + 2, presented # None, N!Type(N!Id(r, n))
      PROVE  ThreadInv' /\ PageInv' /\ Effect
  <2> DEFINE id == N!Id(r, n)
  <2>1. UNCHANGED <<thread, presented, gets, note, request, others, lost>> /\ texts < MaxTexts /\ texts' = texts + 1
        /\ drafts' = [i \in DOMAIN drafts \cup {id} |-> IF i = id THEN texts + 1 ELSE drafts[i]]
    BY <1>9 DEF N!Type
  <2>2. id \in N!Ids
    BY DEF N!Ids, N!Id
  <2>3. texts + 1 \in N!Texts /\ texts' \in 0 .. MaxTexts
    BY <2>1, NewText
  <2>. HIDE DEF id
  <2>4. ThreadInv' /\ EventsKept
    BY <2>1, <2>3, SameThread
  <2>5. drafts' \in N!Typed
    BY <2>1, <2>2, <2>3, TypedOne DEF PageInv
  <2>6. PageInv'
    BY <2>1, <2>5 DEF PageInv
  <2> QED
    BY <2>1, <2>2, <2>4, <2>6 DEF Effect, Types
<1>10. ASSUME N!TypeNote PROVE ThreadInv' /\ PageInv' /\ Effect
  <2>1. UNCHANGED <<thread, presented, gets, drafts, request, others, lost>> /\ texts < MaxTexts /\ texts' = texts + 1
        /\ note' = texts + 1
    BY <1>10 DEF N!TypeNote
  <2>2. texts + 1 \in N!Texts /\ texts' \in 0 .. MaxTexts
    BY <2>1, NewText
  <2>3. ThreadInv' /\ EventsKept
    BY <2>1, <2>2, SameThread
  <2>4. PageInv'
    BY <2>1, <2>2 DEF PageInv
  <2> QED
    BY <2>1, <2>3, <2>4 DEF Effect, Notes
<1>11. ASSUME N!Send PROVE ThreadInv' /\ PageInv' /\ Effect
  <2> DEFINE new == [kind |-> "counter", to |-> presented.of, lines |-> drafts, note |-> note,
                     seen |-> None, step |-> "sent"]
  <2>1. UNCHANGED <<thread, presented, gets, drafts, note, texts, others, lost>> /\ request = None
        /\ presented # None /\ request' = new
    BY <1>11 DEF N!Send, N!MaySend, N!FormShown
  <2>2. presented.of \in Quotations /\ drafts \in N!Typed /\ note \in N!Texts \cup {None}
    BY <2>1 DEF PageInv, Answers
  <2>3. new \in N!Requests /\ new.kind = "counter" /\ new.lines = drafts /\ new.note = note /\ new.step = "sent"
    <3>. HIDE DEF N!LineDocs
    <3> QED
      BY <2>2 DEF N!Requests
  <2>. HIDE DEF new
  <2>4. request' # None /\ request' \in N!Requests
    BY <2>1, <2>3 DEF NoneIsNoDocument
  <2>5. ThreadInv' /\ EventsKept
    BY <1>0, <2>1, SameThread
  <2>6. PageInv'
    BY <2>1, <2>4, LoadsKept DEF PageInv
  <2> QED
    BY <2>1, <2>3, <2>4, <2>5, <2>6 DEF Effect, Sends
<1>12. ASSUME N!Confirm PROVE ThreadInv' /\ PageInv' /\ Effect
  <2> DEFINE new == [kind |-> "confirm", to |-> presented.of, lines |-> <<>>, note |-> None,
                     seen |-> presented.lines, step |-> "sent"]
  <2>1. UNCHANGED <<thread, presented, gets, drafts, note, texts, others, lost>> /\ request = None
        /\ presented # None /\ request' = new
    BY <1>12 DEF N!Confirm, N!FormShown
  <2>2. presented.of \in Quotations /\ presented.lines \in Seq(N!LineDocs)
    <3>. HIDE DEF N!LineDocs, EventDocs, ThreadStages
    <3> QED
      BY <2>1 DEF PageInv, Answers
  <2>3. new \in N!Requests /\ new.kind = "confirm" /\ new.lines = <<>> /\ new.note = None /\ new.step = "sent"
    <3>. HIDE DEF N!LineDocs
    <3> QED
      BY <2>2, NothingTyped DEF N!Requests
  <2>. HIDE DEF new
  <2>4. request' # None /\ request' \in N!Requests
    BY <2>1, <2>3 DEF NoneIsNoDocument
  <2>5. ThreadInv' /\ EventsKept
    BY <1>0, <2>1, SameThread
  <2>6. PageInv'
    BY <2>1, <2>4, LoadsKept DEF PageInv
  <2> QED
    BY <2>1, <2>3, <2>4, <2>5, <2>6 DEF Effect, Sends
<1>13. ASSUME N!CounterHandled PROVE ThreadInv' /\ PageInv' /\ Effect
  <2>1. PICK over \in BOOLEAN :
          thread' = [thread EXCEPT ![request.to] = N!Countered(@, request.lines, request.note, over)]
    BY <1>13 DEF N!CounterHandled
  <2>2. /\ request # None /\ request.kind = "counter" /\ request.step = "sent"
        /\ request' = [request EXCEPT !.step = "handled"]
        /\ UNCHANGED <<presented, gets, drafts, note, texts, others, lost>>
    BY <1>13 DEF N!CounterHandled
  <2>3. request.to \in Quotations /\ request.lines \in N!Typed /\ request.note \in N!Texts \cup {None}
    BY <2>2, RequestFields DEF PageInv
  <2>4. others' \in others .. MaxOthers /\ texts' \in 0 .. MaxTexts
    BY <1>0, <2>2 DEF ThreadInv
  <2>5. /\ ThreadInv' /\ Added(thread[request.to].events, thread'[request.to].events, request.lines, request.note)
        /\ \A qn \in Quotations \ {request.to} : thread'[qn].events = thread[qn].events
    BY <2>1, <2>3, <2>4, CounterStays
  <2>6. request' \in N!Requests /\ request' # None /\ SameRequest /\ request'.step = "handled"
    BY <2>2, TakesStep
  <2>7. PageInv'
    BY <2>2, <2>6, LoadsKept DEF PageInv
  <2>8. Counters(request.to, request.lines, request.note)
    BY <2>2, <2>5 DEF Counters
  <2> QED
    BY <2>2, <2>3, <2>5, <2>6, <2>7, <2>8 DEF Effect, Lands
<1>14. ASSUME N!ConfirmHandled PROVE ThreadInv' /\ PageInv' /\ Effect
  <2> DEFINE r == request.to
             doc == [stage |-> "CONFIRMED", events |-> thread[r].events, lines |-> thread[r].lines,
                     order |-> [seen |-> request.seen, lines |-> thread[r].lines]]
  <2>1. /\ request # None /\ request.kind = "confirm" /\ request.step = "sent"
        /\ request' = [request EXCEPT !.step = "handled"]
        /\ thread' = [thread EXCEPT ![r] = doc]
        /\ UNCHANGED <<presented, gets, drafts, note, texts, others, lost>>
    BY <1>14 DEF N!ConfirmHandled
  <2>2. r \in Quotations /\ request.seen \in Seq(N!LineDocs) \cup {None}
    BY <2>1, RequestFields DEF PageInv
  <2>3. thread[r].lines \in Seq(N!LineDocs) /\ thread[r].events \in Seq(EventDocs)
    BY <2>2, EventsOfTyped
  <2>4. doc \in Docs /\ doc.lines = thread[r].lines /\ doc.events = thread[r].events
    <3>. HIDE DEF N!LineDocs, EventDocs, r
    <3> QED
      BY <2>2, <2>3 DEF Docs, OrderDocs, ThreadStages
  <2>. HIDE DEF doc, r
  <2>5. others' \in others .. MaxOthers /\ texts' \in 0 .. MaxTexts /\ others' = others
    BY <1>0, <2>1 DEF ThreadInv
  <2>6. Told(doc.lines) /\ \A i \in DOMAIN doc.lines : doc.lines[i].id[2] <= others' + 2
    BY <2>2, <2>4, <2>5 DEF ThreadInv
  <2>7. ThreadInv'
    BY <2>1, <2>2, <2>4, <2>5, <2>6, OneChanges
  <2>8. EventsKept
    BY <2>1, <2>2, <2>4 DEF EventsKept, ThreadInv
  <2>9. request' \in N!Requests /\ request' # None /\ SameRequest /\ request'.step = "handled"
    BY <2>1, TakesStep
  <2>10. PageInv'
    BY <2>1, <2>9, LoadsKept DEF PageInv
  <2> QED
    BY <2>1, <2>7, <2>8, <2>9, <2>10 DEF Effect, Quiet
<1>15. ASSUME N!WriteFails PROVE ThreadInv' /\ PageInv' /\ Effect
  <2>1. /\ request # None /\ request.step \in {"sent", "handled"} /\ request' = None
        /\ lost' = (lost \/ request.step = "handled")
        /\ UNCHANGED <<thread, presented, gets, drafts, note, texts, others>>
    BY <1>15 DEF N!WriteFails
  <2>2. ThreadInv' /\ EventsKept
    BY <1>0, <2>1, SameThread
  <2>3. PageInv'
    BY <2>1, LoadsKept DEF PageInv
  <2> QED
    BY <2>1, <2>2, <2>3 DEF Effect, Fails
<1>16. ASSUME N!WriteAnswered PROVE ThreadInv' /\ PageInv' /\ Effect
  <2>1. /\ request # None /\ request.step = "handled" /\ request' = [request EXCEPT !.step = "loading"]
        /\ N!StartLoad(request.to, "write")
        /\ UNCHANGED <<thread, presented, drafts, note, texts, others, lost>>
    BY <1>16 DEF N!WriteAnswered
  <2>2. ThreadInv' /\ EventsKept
    BY <1>0, <2>1, SameThread
  <2>3. request.to \in Quotations
    BY <2>1, RequestFields DEF PageInv
  <2>4. request' \in N!Requests /\ request' # None /\ SameRequest /\ request'.step = "loading"
    BY <2>1, TakesStep
  <2>5. PageInv'
    BY <2>1, <2>3, <2>4, LoadStarts DEF PageInv
  <2> QED
    BY <2>1, <2>2, <2>4, <2>5 DEF Effect, Quiet
<1>17. ASSUME N!Finish PROVE ThreadInv' /\ PageInv' /\ Effect
  <2>1. /\ request # None /\ request.step = "listing" /\ request' = None
        /\ drafts' = IF request.kind = "counter" THEN <<>> ELSE drafts
        /\ UNCHANGED <<thread, presented, gets, note, texts, others, lost>>
    BY <1>17 DEF N!Finish, N!Emptied
  <2>2. ThreadInv' /\ EventsKept
    BY <1>0, <2>1, SameThread
  <2>3. drafts' \in N!Typed
    BY <2>1, NothingTyped DEF PageInv
  <2>4. PageInv'
    BY <2>1, <2>3, LoadsKept DEF PageInv
  <2> QED
    BY <2>1, <2>2, <2>4 DEF Effect, Finishes
<1> QED
  BY <1>1, <1>2, <1>3, <1>4, <1>5, <1>6, <1>7, <1>8, <1>9, <1>10, <1>11, <1>12, <1>13, <1>14, <1>15, <1>16, <1>17
     DEF N!NegotiationNext

(* Who says a text: a box, a request or an event; beside a line or as a    *)
(* note.                                                                   *)
LineSaid(t) == \E qn \in Quotations : \E i \in DOMAIN thread[qn].events :
                  thread[qn].events[i].line # None /\ thread[qn].events[i].text = t
NoteSaid(t) == \E qn \in Quotations : \E i \in DOMAIN thread[qn].events :
                  thread[qn].events[i].line = None /\ thread[qn].events[i].text = t
LineText(t) ==
    \/ \E id \in DOMAIN drafts : drafts[id] = t
    \/ request # None /\ \E id \in DOMAIN request.lines : request.lines[id] = t
    \/ LineSaid(t)
NoteText(t) ==
    \/ note # None /\ note = t
    \/ request # None /\ request.note # None /\ request.note = t
    \/ NoteSaid(t)

(* What is typed has a text of its own, said beside a line or as a note.   *)
TextInv ==
    \A t \in N!Texts : /\ LineText(t) => t <= texts /\ ~NoteText(t)
                       /\ NoteText(t) => t <= texts

Posted == request # None /\ request.kind = "counter" /\ request.step # "sent"

(* The drafts that were said are those of the request that will empty them.*)
SaidInv ==
    /\ Apart(drafts) /\ (request # None => Apart(request.lines))
    /\ \/ lost
       \/ /\ N!SaidOnce
          /\ \A id \in DOMAIN drafts : LineSaid(drafts[id]) => Posted
          /\ (request # None /\ request.kind = "counter" /\ request.step = "sent")
                => \A id \in DOMAIN request.lines : ~LineSaid(request.lines[id])

LEMMA KeptSaid ==
    ASSUME EventsKept
    PROVE  /\ \A t : LineSaid(t)' <=> LineSaid(t)
           /\ \A t : NoteSaid(t)' <=> NoteSaid(t)
           /\ \A qn \in Quotations : thread'[qn].events = thread[qn].events
  BY DEF EventsKept, LineSaid, NoteSaid

LEMMA AddedSaid ==
    ASSUME NEW r \in Quotations, NEW lines, NEW n, Counters(r, lines, n)
    PROVE  /\ \A t : LineSaid(t)' => LineSaid(t) \/ \E id \in DOMAIN lines : lines[id] = t
           /\ \A t : NoteSaid(t)' => NoteSaid(t) \/ (n # None /\ n = t)
<1>1. \A qn \in Quotations : \A i : i \in DOMAIN thread'[qn].events =>
             \/ i \in DOMAIN thread[qn].events /\ thread'[qn].events[i] = thread[qn].events[i]
             \/ /\ thread'[qn].events[i].line # None
                /\ \E id \in DOMAIN lines : lines[id] = thread'[qn].events[i].text
             \/ thread'[qn].events[i].line = None /\ n # None /\ n = thread'[qn].events[i].text
  <2>. TAKE qn \in Quotations
  <2>1. CASE qn = r
    BY <2>1 DEF Counters, Added
  <2>2. CASE qn # r
    BY <2>2 DEF Counters
  <2> QED
    BY <2>1, <2>2
<1>2. ASSUME NEW t, LineSaid(t)' PROVE LineSaid(t) \/ \E id \in DOMAIN lines : lines[id] = t
  <2>1. PICK qn, i :
           qn \in Quotations /\ i \in DOMAIN thread'[qn].events /\ thread'[qn].events[i].line # None /\ thread'[qn].events[i].text = t
    BY <1>2 DEF LineSaid
  <2> QED
    BY <1>1, <2>1 DEF LineSaid
<1>3. ASSUME NEW t, NoteSaid(t)' PROVE NoteSaid(t) \/ (n # None /\ n = t)
  <2>1. PICK qn, i :
           qn \in Quotations /\ i \in DOMAIN thread'[qn].events /\ thread'[qn].events[i].line = None /\ thread'[qn].events[i].text = t
    BY <1>3 DEF NoteSaid
  <2> QED
    BY <1>1, <2>1 DEF NoteSaid
<1> QED
  BY <1>2, <1>3

(* A step after which every text is an old one or the next.                *)
LEMMA TextsFollow ==
    ASSUME ThreadInv, TextInv,
           \/ /\ texts' = texts
              /\ \A t \in N!Texts : (LineText(t)' => LineText(t)) /\ (NoteText(t)' => NoteText(t))
           \/ /\ texts' = texts + 1
              /\ \A t \in N!Texts : (LineText(t)' => LineText(t) \/ t = texts + 1) /\ (NoteText(t)' => NoteText(t))
           \/ /\ texts' = texts + 1
              /\ \A t \in N!Texts : (LineText(t)' => LineText(t)) /\ (NoteText(t)' => NoteText(t) \/ t = texts + 1)
    PROVE  TextInv'
<1>1. texts \in Nat /\ \A t \in N!Texts : t \in Nat
  BY DEF ThreadInv, N!Texts
<1>2. \A t \in N!Texts : /\ LineText(t)' => t <= texts' /\ ~NoteText(t)'
                         /\ NoteText(t)' => t <= texts'
  <2>. TAKE t \in N!Texts
  <2>1. (LineText(t) => t <= texts /\ ~NoteText(t)) /\ (NoteText(t) => t <= texts)
    BY DEF TextInv
  <2> QED
    BY <1>1, <2>1
<1> QED
  BY <1>2 DEF TextInv

LEMMA TextsStay ==
    ASSUME NoneIsNoDocument, ThreadInv, PageInv, TextInv, Effect
    PROVE  TextInv'
<1>1. CASE Quiet
  <2>1. UNCHANGED texts /\ \A t : (LineSaid(t)' <=> LineSaid(t)) /\ (NoteSaid(t)' <=> NoteSaid(t))
    BY <1>1, KeptSaid DEF Quiet
  <2>2. \A t : (LineText(t)' => LineText(t)) /\ (NoteText(t)' => NoteText(t))
    BY <1>1, <2>1 DEF Quiet, SameRequest, LineText, NoteText
  <2> QED
    BY <2>1, <2>2, TextsFollow
<1>2. CASE Opens
  <2>1. UNCHANGED texts /\ \A t : (LineSaid(t)' <=> LineSaid(t)) /\ (NoteSaid(t)' <=> NoteSaid(t))
    BY <1>2, KeptSaid DEF Opens
  <2>2. \A id : id \notin DOMAIN drafts'
    BY <1>2, NothingTyped DEF Opens
  <2>3. \A t : (LineText(t)' => LineText(t)) /\ (NoteText(t)' => NoteText(t))
    BY <1>2, <2>1, <2>2 DEF Opens, LineText, NoteText
  <2> QED
    BY <2>1, <2>3, TextsFollow
<1>3. CASE Types
  <2>1. texts' = texts + 1 /\ \A t : (LineSaid(t)' <=> LineSaid(t)) /\ (NoteSaid(t)' <=> NoteSaid(t))
    BY <1>3, KeptSaid DEF Types
  <2>2. PICK new \in N!Ids : drafts' = [i \in DOMAIN drafts \cup {new} |-> IF i = new THEN texts + 1 ELSE drafts[i]]
    BY <1>3 DEF Types
  <2>3. \A id \in DOMAIN drafts' : drafts'[id] = texts + 1 \/ (id \in DOMAIN drafts /\ drafts'[id] = drafts[id])
    BY <2>2
  <2>4. \A t : (LineText(t)' => LineText(t) \/ t = texts + 1) /\ (NoteText(t)' => NoteText(t))
    BY <1>3, <2>1, <2>3 DEF Types, LineText, NoteText
  <2> QED
    BY <2>1, <2>4, TextsFollow
<1>4. CASE Notes
  <2>1. texts' = texts + 1 /\ \A t : (LineSaid(t)' <=> LineSaid(t)) /\ (NoteSaid(t)' <=> NoteSaid(t))
    BY <1>4, KeptSaid DEF Notes
  <2>2. \A t : (LineText(t)' => LineText(t)) /\ (NoteText(t)' => NoteText(t) \/ t = texts + 1)
    BY <1>4, <2>1 DEF Notes, LineText, NoteText
  <2> QED
    BY <2>1, <2>2, TextsFollow
<1>5. CASE Sends
  <2>1. UNCHANGED texts /\ \A t : (LineSaid(t)' <=> LineSaid(t)) /\ (NoteSaid(t)' <=> NoteSaid(t))
    BY <1>5, KeptSaid DEF Sends
  <2>2. \A t : (LineText(t)' => LineText(t)) /\ (NoteText(t)' => NoteText(t))
    BY <1>5, <2>1, NothingTyped DEF Sends, LineText, NoteText
  <2> QED
    BY <2>1, <2>2, TextsFollow
<1>6. CASE Colleague
  <2>1. PICK r \in Quotations, id \in N!Ids : Counters(r, [i \in {id} |-> texts + 1], None)
    BY <1>6 DEF Colleague
  <2> DEFINE lines == [i \in {id} |-> texts + 1]
  <2>2. /\ \A t : LineSaid(t)' => LineSaid(t) \/ \E k \in DOMAIN lines : lines[k] = t
        /\ \A t : NoteSaid(t)' => NoteSaid(t)
    BY <2>1, AddedSaid
  <2>3. \A k \in DOMAIN lines : lines[k] = texts + 1
    OBVIOUS
  <2>. HIDE DEF lines
  <2>4. texts' = texts + 1 /\ UNCHANGED <<drafts, note, request>>
    BY <1>6, <2>1 DEF Colleague, Counters
  <2>5. \A t : (LineText(t)' => LineText(t) \/ t = texts + 1) /\ (NoteText(t)' => NoteText(t))
    BY <2>2, <2>3, <2>4 DEF LineText, NoteText
  <2> QED
    BY <2>4, <2>5, TextsFollow
<1>7. CASE Lands
  <2>1. PICK r \in Quotations : Counters(r, request.lines, request.note)
    BY <1>7 DEF Lands
  <2>2. /\ \A t : LineSaid(t)' => LineSaid(t) \/ \E k \in DOMAIN request.lines : request.lines[k] = t
        /\ \A t : NoteSaid(t)' => NoteSaid(t) \/ (request.note # None /\ request.note = t)
    BY <2>1, AddedSaid
  <2>3. UNCHANGED <<texts, drafts, note>> /\ request # None /\ SameRequest
    BY <1>7, <2>1 DEF Lands, Counters
  <2>4. \A t : (LineText(t)' => LineText(t)) /\ (NoteText(t)' => NoteText(t))
    BY <2>2, <2>3 DEF LineText, NoteText, SameRequest
  <2> QED
    BY <2>3, <2>4, TextsFollow
<1>8. CASE Fails
  <2>1. UNCHANGED texts /\ \A t : (LineSaid(t)' <=> LineSaid(t)) /\ (NoteSaid(t)' <=> NoteSaid(t))
    BY <1>8, KeptSaid DEF Fails
  <2>2. \A t : (LineText(t)' => LineText(t)) /\ (NoteText(t)' => NoteText(t))
    BY <1>8, <2>1 DEF Fails, LineText, NoteText
  <2> QED
    BY <2>1, <2>2, TextsFollow
<1>9. CASE Finishes
  <2>1. UNCHANGED texts /\ \A t : (LineSaid(t)' <=> LineSaid(t)) /\ (NoteSaid(t)' <=> NoteSaid(t))
    BY <1>9, KeptSaid DEF Finishes
  <2>2. \A t : (LineText(t)' => LineText(t)) /\ (NoteText(t)' => NoteText(t))
    BY <1>9, <2>1, NothingTyped DEF Finishes, LineText, NoteText
  <2> QED
    BY <2>1, <2>2, TextsFollow
<1> QED
  BY <1>1, <1>2, <1>3, <1>4, <1>5, <1>6, <1>7, <1>8, <1>9 DEF Effect

(* A text that is not yet anywhere.                                        *)
LEMMA NextTextIsNew ==
    ASSUME PartsAssumption, ThreadInv, PageInv, TextInv
    PROVE  /\ ~LineText(texts + 1) /\ ~NoteText(texts + 1)
<1>1. ASSUME texts + 1 \in N!Texts PROVE ~LineText(texts + 1) /\ ~NoteText(texts + 1)
  BY <1>1 DEF TextInv, ThreadInv
<1>2. ASSUME LineText(texts + 1) \/ NoteText(texts + 1) PROVE texts + 1 \in N!Texts
  <2>1. ASSUME NEW id \in DOMAIN drafts, drafts[id] = texts + 1 PROVE texts + 1 \in N!Texts
    BY <2>1 DEF PageInv, N!Typed
  <2>2. ASSUME request # None, NEW id \in DOMAIN request.lines, request.lines[id] = texts + 1
        PROVE texts + 1 \in N!Texts
    <3>1. request.lines \in N!Typed
      BY <2>2, RequestFields DEF PageInv
    <3> QED
      BY <2>2, <3>1 DEF N!Typed
  <2>3. ASSUME NEW qn \in Quotations, NEW i \in DOMAIN thread[qn].events, thread[qn].events[i].text = texts + 1
        PROVE texts + 1 \in N!Texts
    <3>1. thread[qn].events \in Seq(EventDocs)
      BY EventsOfTyped
    <3>2. thread[qn].events[i] \in EventDocs
      <4>. HIDE DEF EventDocs
      <4> QED
        BY <3>1
    <3> QED
      BY <2>3, <3>2 DEF EventDocs
  <2>4. note # None => note \in N!Texts
    BY DEF PageInv
  <2>5. request # None => request.note \in N!Texts \cup {None}
    BY RequestFields DEF PageInv
  <2> QED
    BY <1>2, <2>1, <2>2, <2>3, <2>4, <2>5 DEF LineText, NoteText, LineSaid, NoteSaid
<1> QED
  BY <1>1, <1>2

Once(ev) == \A i, j \in DOMAIN ev : ev[i].text = ev[j].text /\ ev[i].line # None => i = j

LEMMA SaidOnceIs == /\ N!SaidOnce <=> (lost \/ \A qn \in Quotations : Once(thread[qn].events))
                    /\ N!SaidOnce' <=> (lost' \/ \A qn \in Quotations : Once(thread'[qn].events))
  BY DEF N!SaidOnce, Once

LEMMA OnceAdds ==
    ASSUME NEW ev, NEW ew, NEW lines, NEW n, Added(ev, ew, lines, n), Once(ev), Apart(lines),
           \A id \in DOMAIN lines : \A i \in DOMAIN ev : ev[i].text # lines[id],
           n # None => \A id \in DOMAIN lines : lines[id] # n,
           n # None => \A i \in DOMAIN ev : ev[i].line # None => ev[i].text # n
    PROVE  Once(ew)
<1>. SUFFICES ASSUME NEW i \in DOMAIN ew, NEW j \in DOMAIN ew, ew[i].text = ew[j].text, ew[i].line # None
              PROVE  i = j
  BY DEF Once
<1>1. CASE i \in DOMAIN ev /\ j \in DOMAIN ev
  BY <1>1 DEF Added, Once
<1>2. CASE i \in DOMAIN ev /\ j \notin DOMAIN ev
  BY <1>2 DEF Added
<1>3. CASE i \notin DOMAIN ev /\ j \in DOMAIN ev
  BY <1>3 DEF Added
<1>4. CASE i \notin DOMAIN ev /\ j \notin DOMAIN ev
  <2>1. ew[i].line \in DOMAIN lines /\ ew[i].text = lines[ew[i].line]
    BY <1>4 DEF Added
  <2>2. ew[j].line \in DOMAIN lines /\ ew[j].text = lines[ew[j].line]
    BY <1>4, <2>1 DEF Added
  <2>3. ew[i].line = ew[j].line
    BY <2>1, <2>2 DEF Apart
  <2> QED
    BY <1>4, <2>3 DEF Added
<1> QED
  BY <1>1, <1>2, <1>3, <1>4

(* A counter-offer whose texts are new is said once.                       *)
LEMMA CounterOnce ==
    ASSUME NEW r \in Quotations, NEW lines, NEW n, Counters(r, lines, n), ~lost, N!SaidOnce, Apart(lines),
           \A id \in DOMAIN lines : ~LineSaid(lines[id]) /\ ~NoteSaid(lines[id]),
           n # None => ~LineSaid(n) /\ \A id \in DOMAIN lines : lines[id] # n
    PROVE  N!SaidOnce'
<1>1. \A qn \in Quotations : Once(thread[qn].events)
  BY SaidOnceIs
<1>2. \A id \in DOMAIN lines : \A i \in DOMAIN thread[r].events : thread[r].events[i].text # lines[id]
  BY DEF LineSaid, NoteSaid
<1>3. n # None => \A i \in DOMAIN thread[r].events : thread[r].events[i].line # None => thread[r].events[i].text # n
  BY DEF LineSaid
<1>4. Once(thread'[r].events)
  BY <1>1, <1>2, <1>3, OnceAdds DEF Counters
<1>5. \A qn \in Quotations : Once(thread'[qn].events)
  BY <1>1, <1>4 DEF Counters
<1> QED
  BY <1>5, SaidOnceIs

LEMMA KeptOnce == ASSUME EventsKept, ~lost, N!SaidOnce PROVE N!SaidOnce'
<1>1. \A qn \in Quotations : Once(thread[qn].events)
  BY SaidOnceIs
<1>2. \A qn \in Quotations : Once(thread'[qn].events)
  BY <1>1 DEF EventsKept
<1> QED
  BY <1>2, SaidOnceIs

LEMMA NothingApart == Apart(<<>>)
  BY NothingTyped DEF Apart

(* What SaidInv says while no answer has been lost.                        *)
Fresh ==
    /\ \A id \in DOMAIN drafts : LineSaid(drafts[id]) => Posted
    /\ (request # None /\ request.kind = "counter" /\ request.step = "sent")
          => \A id \in DOMAIN request.lines : ~LineSaid(request.lines[id])

LEMMA SaidIs ==
    /\ SaidInv <=> Apart(drafts) /\ (request # None => Apart(request.lines)) /\ (lost \/ (N!SaidOnce /\ Fresh))
    /\ SaidInv' <=> Apart(drafts') /\ (request' # None => Apart(request'.lines)) /\ (lost' \/ (N!SaidOnce' /\ Fresh'))
  BY DEF SaidInv, Fresh

LEMMA SaidStays ==
    ASSUME PartsAssumption, NoneIsNoDocument, ThreadInv, PageInv, TextInv, SaidInv, Effect
    PROVE  SaidInv'
<1>0. Apart(drafts) /\ (request # None => Apart(request.lines)) /\ (lost \/ (N!SaidOnce /\ Fresh)) /\ lost \in BOOLEAN
  BY SaidIs DEF PageInv
<1>1. CASE Quiet
  <2>1. EventsKept /\ \A t : LineSaid(t)' <=> LineSaid(t)
    BY <1>1, KeptSaid DEF Quiet
  <2>2. Apart(drafts') /\ (request' # None => Apart(request'.lines))
    BY <1>0, <1>1 DEF Quiet, SameRequest
  <2>3. ASSUME ~lost PROVE N!SaidOnce' /\ Fresh'
    <3>1. Posted => Posted'
      BY <1>1 DEF Quiet, SameRequest, Posted
    <3>2. drafts' = drafts /\ ((request' # None /\ request'.kind = "counter" /\ request'.step = "sent") => request' = request)
      BY <1>1 DEF Quiet
    <3>3. N!SaidOnce'
      BY <1>0, <2>1, <2>3, KeptOnce
    <3> QED
      BY <1>0, <2>1, <2>3, <3>1, <3>2, <3>3 DEF Fresh
  <2> QED
    BY <1>1, <2>2, <2>3, SaidIs DEF Quiet
<1>2. CASE Opens
  <2>1. EventsKept /\ \A t : LineSaid(t)' <=> LineSaid(t)
    BY <1>2, KeptSaid DEF Opens
  <2>2. Apart(drafts') /\ (request' # None => Apart(request'.lines)) /\ \A id : id \notin DOMAIN drafts'
    BY <1>0, <1>2, NothingApart, NothingTyped DEF Opens
  <2>3. ASSUME ~lost PROVE N!SaidOnce' /\ Fresh'
    BY <1>0, <1>2, <2>1, <2>2, <2>3, KeptOnce DEF Fresh, Opens
  <2> QED
    BY <1>2, <2>2, <2>3, SaidIs DEF Opens
<1>3. CASE Types
  <2>1. EventsKept /\ \A t : LineSaid(t)' <=> LineSaid(t)
    BY <1>3, KeptSaid DEF Types
  <2>2. PICK new \in N!Ids : drafts' = [i \in DOMAIN drafts \cup {new} |-> IF i = new THEN texts + 1 ELSE drafts[i]]
    BY <1>3 DEF Types
  <2>3. ~LineText(texts + 1)
    BY NextTextIsNew
  <2>4. \A id \in DOMAIN drafts' : IF id = new THEN drafts'[id] = texts + 1
                                   ELSE id \in DOMAIN drafts /\ drafts'[id] = drafts[id] /\ drafts[id] # texts + 1
    BY <2>2, <2>3 DEF LineText
  <2>5. Apart(drafts') /\ (request' # None => Apart(request'.lines))
    <3>1. ASSUME NEW i \in DOMAIN drafts', NEW j \in DOMAIN drafts', drafts'[i] = drafts'[j] PROVE i = j
      <4>1. CASE i # new /\ j # new
        BY <1>0, <2>4, <3>1, <4>1 DEF Apart
      <4>2. CASE i = new \/ j = new
        BY <2>4, <3>1, <4>2
      <4> QED
        BY <4>1, <4>2
    <3> QED
      BY <1>0, <1>3, <3>1 DEF Types, Apart
  <2>6. ASSUME ~lost PROVE N!SaidOnce' /\ Fresh'
    <3>1. ~LineSaid(texts + 1)
      BY <2>3 DEF LineText
    <3>2. request' = request /\ (Posted' <=> Posted)
      BY <1>3 DEF Types, Posted
    <3>3. \A id \in DOMAIN drafts' : LineSaid(drafts'[id]) => Posted
      BY <1>0, <2>4, <2>6, <3>1 DEF Fresh
    <3>4. Fresh'
      BY <1>0, <2>1, <2>6, <3>2, <3>3 DEF Fresh
    <3> QED
      BY <1>0, <2>1, <2>6, <3>4, KeptOnce
  <2> QED
    BY <1>3, <2>5, <2>6, SaidIs DEF Types
<1>4. CASE Notes
  <2>1. EventsKept /\ \A t : LineSaid(t)' <=> LineSaid(t)
    BY <1>4, KeptSaid DEF Notes
  <2>2. UNCHANGED <<drafts, request, lost>> /\ (Posted' <=> Posted)
    BY <1>4 DEF Notes, Posted
  <2>3. ASSUME ~lost PROVE N!SaidOnce' /\ Fresh'
    BY <1>0, <2>1, <2>2, <2>3, KeptOnce DEF Fresh
  <2> QED
    BY <1>0, <2>2, <2>3, SaidIs
<1>5. CASE Sends
  <2>1. EventsKept /\ \A t : LineSaid(t)' <=> LineSaid(t)
    BY <1>5, KeptSaid DEF Sends
  <2>2. UNCHANGED <<drafts, lost>> /\ request = None /\ ~Posted
    BY <1>5 DEF Sends, Posted
  <2>3. Apart(request'.lines)
    BY <1>0, <1>5, NothingApart DEF Sends
  <2>4. ASSUME ~lost PROVE N!SaidOnce' /\ Fresh'
    <3>1. \A id \in DOMAIN drafts : ~LineSaid(drafts[id])
      BY <1>0, <2>2, <2>4 DEF Fresh
    <3>2. request'.kind = "counter" => request'.lines = drafts
      BY <1>5 DEF Sends
    <3>3. Fresh'
      BY <2>1, <2>2, <3>1, <3>2 DEF Fresh
    <3> QED
      BY <1>0, <2>1, <2>4, <3>3, KeptOnce
  <2> QED
    BY <1>0, <2>2, <2>3, <2>4, SaidIs
<1>6. CASE Colleague
  <2>1. PICK r \in Quotations, id \in N!Ids : Counters(r, [i \in {id} |-> texts + 1], None)
    BY <1>6 DEF Colleague
  <2> DEFINE lines == [i \in {id} |-> texts + 1]
  <2>2. \A t : LineSaid(t)' => LineSaid(t) \/ \E k \in DOMAIN lines : lines[k] = t
    BY <2>1, AddedSaid
  <2>3. DOMAIN lines = {id} /\ lines[id] = texts + 1
    OBVIOUS
  <2>4. Counters(r, lines, None)
    BY <2>1
  <2>. HIDE DEF lines
  <2>5. UNCHANGED <<drafts, note, request, lost>> /\ (Posted' <=> Posted)
    BY <1>6, <2>1 DEF Colleague, Counters, Posted
  <2>6. ~LineText(texts + 1) /\ ~NoteText(texts + 1)
    BY NextTextIsNew
  <2>7. ~LineSaid(texts + 1) /\ ~NoteSaid(texts + 1)
    BY <2>6 DEF LineText, NoteText
  <2>8. ASSUME ~lost PROVE N!SaidOnce' /\ Fresh'
    <3>1. Apart(lines)
      BY <2>3 DEF Apart
    <3>2. N!SaidOnce'
      BY <1>0, <2>3, <2>4, <2>7, <2>8, <3>1, CounterOnce
    <3>3. \A k \in DOMAIN drafts : drafts[k] # texts + 1
      BY <2>6 DEF LineText
    <3>4. request # None => \A k \in DOMAIN request.lines : request.lines[k] # texts + 1
      BY <2>6 DEF LineText
    <3>5. Fresh'
      BY <1>0, <2>2, <2>3, <2>5, <2>8, <3>3, <3>4 DEF Fresh
    <3> QED
      BY <3>2, <3>5
  <2> QED
    BY <1>0, <2>5, <2>8, SaidIs
<1>7. CASE Lands
  <2>1. PICK r \in Quotations : Counters(r, request.lines, request.note)
    BY <1>7 DEF Lands
  <2>2. UNCHANGED <<texts, drafts, note, lost>> /\ request # None /\ SameRequest /\ Posted' /\ request'.step = "handled"
          /\ request.kind = "counter" /\ request.step = "sent"
    BY <1>7, <2>1 DEF Lands, Counters, Posted, SameRequest
  <2>3. ASSUME ~lost PROVE N!SaidOnce' /\ Fresh'
    <3>1. \A id \in DOMAIN request.lines : request.lines[id] \in N!Texts
      <4>1. request.lines \in N!Typed
        BY <2>2, RequestFields DEF PageInv
      <4> QED
        BY <4>1 DEF N!Typed
    <3>2. \A id \in DOMAIN request.lines : ~NoteText(request.lines[id])
      BY <2>2, <3>1 DEF TextInv, LineText
    <3>3. \A id \in DOMAIN request.lines : ~LineSaid(request.lines[id]) /\ ~NoteSaid(request.lines[id])
      BY <1>0, <2>2, <2>3, <3>2 DEF Fresh, NoteText
    <3>4. request.note # None => request.note \in N!Texts
      BY <2>2, RequestFields DEF PageInv
    <3>5. request.note # None => ~LineText(request.note)
      BY <2>2, <3>4 DEF TextInv, NoteText
    <3>6. request.note # None => ~LineSaid(request.note) /\ \A id \in DOMAIN request.lines : request.lines[id] # request.note
      BY <2>2, <3>5 DEF LineText
    <3>7. N!SaidOnce'
      BY <1>0, <2>1, <2>2, <2>3, <3>3, <3>6, CounterOnce
    <3>8. Fresh'
      BY <2>2 DEF Fresh
    <3> QED
      BY <3>7, <3>8
  <2> QED
    BY <1>0, <2>2, <2>3, SaidIs DEF SameRequest
<1>8. CASE Fails
  <2>1. EventsKept /\ \A t : LineSaid(t)' <=> LineSaid(t)
    BY <1>8, KeptSaid DEF Fails
  <2>2. drafts' = drafts /\ request' = None /\ lost' = (lost \/ request.step = "handled") /\ request.step \in {"sent", "handled"}
    BY <1>8 DEF Fails
  <2>3. ASSUME ~lost' PROVE N!SaidOnce' /\ Fresh'
    <3>1. ~lost /\ request.step = "sent"
      BY <2>2, <2>3
    <3>2. \A id \in DOMAIN drafts : ~LineSaid(drafts[id])
      BY <1>0, <3>1 DEF Fresh, Posted
    <3>3. Fresh'
      BY <2>1, <2>2, <3>2 DEF Fresh
    <3> QED
      BY <1>0, <2>1, <3>1, <3>3, KeptOnce
  <2> QED
    BY <1>0, <2>2, <2>3, SaidIs
<1>9. CASE Finishes
  <2>1. EventsKept /\ \A t : LineSaid(t)' <=> LineSaid(t)
    BY <1>9, KeptSaid DEF Finishes
  <2>2. lost' = lost /\ request' = None /\ request # None /\ drafts' = IF request.kind = "counter" THEN <<>> ELSE drafts
    BY <1>9 DEF Finishes
  <2>3. Apart(drafts')
    BY <1>0, <2>2, NothingApart
  <2>4. ASSUME ~lost PROVE N!SaidOnce' /\ Fresh'
    <3>1. ASSUME NEW id \in DOMAIN drafts' PROVE ~LineSaid(drafts'[id])
      <4>1. request.kind # "counter" /\ drafts' = drafts
        BY <2>2, <3>1, NothingTyped
      <4> QED
        BY <1>0, <2>4, <3>1, <4>1 DEF Fresh, Posted
    <3>2. Fresh'
      BY <2>1, <2>2, <3>1 DEF Fresh
    <3> QED
      BY <1>0, <2>1, <2>4, <3>2, KeptOnce
  <2> QED
    BY <2>2, <2>3, <2>4, SaidIs
<1> QED
  BY <1>1, <1>2, <1>3, <1>4, <1>5, <1>6, <1>7, <1>8, <1>9 DEF Effect

PortalInv == ThreadInv /\ PageInv /\ TextInv /\ SaidInv

LEMMA PortalInitially ==
    ASSUME PartsAssumption, N!NegotiationInit
    PROVE  PortalInv
<1>1. ThreadInv /\ PageInv
  BY PageInitially
<1>2. drafts = <<>> /\ note = None /\ request = None
  BY DEF N!NegotiationInit
<1>3. \A qn \in Quotations : thread[qn].events = <<>>
  BY DEF N!NegotiationInit
<1>4. (\A t : ~LineSaid(t) /\ ~NoteSaid(t)) /\ \A id : id \notin DOMAIN drafts
  BY <1>2, <1>3, NothingTyped DEF LineSaid, NoteSaid
<1>5. TextInv
  BY <1>2, <1>4 DEF TextInv, LineText, NoteText
<1>6. \A qn \in Quotations : Once(thread[qn].events)
  BY <1>3, NothingTyped DEF Once
<1>7. N!SaidOnce /\ Fresh /\ Apart(drafts)
  BY <1>2, <1>4, <1>6, SaidOnceIs, NothingApart DEF Fresh
<1> QED
  BY <1>1, <1>2, <1>5, <1>7, SaidIs DEF PortalInv

LEMMA PortalStays ==
    ASSUME PartsAssumption, NoneIsNoDocument, PortalInv, [N!NegotiationNext]_portal
    PROVE  PortalInv'
<1>1. ThreadInv' /\ PageInv' /\ Effect
  BY PortalSteps DEF PortalInv
<1>2. TextInv' /\ SaidInv'
  BY <1>1, TextsStay, SaidStays DEF PortalInv
<1> QED
  BY <1>1, <1>2 DEF PortalInv

LEMMA LinesApart == ASSUME PortalInv PROVE N!LinesAreTold
<1>1. ASSUME NEW qn \in Quotations PROVE Cardinality(N!LineIds(qn)) = Len(thread[qn].lines)
  <2> DEFINE lines == thread[qn].lines
             ids == {lines[i].id : i \in 1 .. Len(lines)}
             f == [i \in 1 .. Len(lines) |-> lines[i].id]
  <2>1. DOMAIN lines = 1 .. Len(lines) /\ Len(lines) \in Nat
    BY <1>1, EventsOfTyped, LinesAreDocs DEF PortalInv
  <2>2. Told(lines)
    BY <1>1 DEF PortalInv, ThreadInv
  <2>3. N!LineIds(qn) = ids
    BY <2>1 DEF N!LineIds
  <2>. HIDE DEF lines
  <2>4. f \in Bijection(1 .. Len(lines), ids)
    <3>1. f \in Injection(1 .. Len(lines), ids)
      BY <2>1, <2>2 DEF Told, Injection, IsInjective
    <3>2. f \in Surjection(1 .. Len(lines), ids)
      BY DEF Surjection
    <3> QED
      BY <3>1, <3>2 DEF Bijection
  <2>. HIDE DEF f, ids
  <2>5. Cardinality(ids) = Len(lines)
    BY <2>1, <2>4, FS_CountingElements DEF ExistsBijection
  <2> QED
    BY <2>3, <2>5 DEF lines
<1>2. \A S : N!Cardinality(S) = Cardinality(S)
  BY DEF N!Cardinality, Cardinality
<1> QED
  BY <1>1, <1>2 DEF N!LinesAreTold

LEMMA PortalSaysItOnce == ASSUME PortalInv PROVE N!LinesAreTold /\ N!SaidOnce
  BY LinesApart, SaidIs, SaidOnceIs DEF PortalInv

---------------------------------------------------------------------------
(* The deal-health board.                                                  *)

Keys == Deals \X H!Types
Entries == Managers \X {"NUDGE", "ESCALATE"}

AlertInv(k) ==
    /\ alerts[k] = [severity |-> alerts[k].severity, issue |-> alerts[k].issue,
                    status |-> alerts[k].status, actions |-> alerts[k].actions]
    /\ alerts[k].actions = done[k]
    /\ alerts[k].actions # <<>> => alerts[k].status # "OPEN"

(* A request is about an alert that there is; if the alert it read was not *)
(* open, it is not.                                                        *)
ActingInv(m) ==
    acting[m] # None =>
        /\ acting[m] = [key |-> acting[m].key, action |-> acting[m].action,
                        saved |-> acting[m].saved, read |-> acting[m].read]
        /\ acting[m].key \in DOMAIN alerts
        /\ acting[m].action \in {"NUDGE", "ESCALATE"}
        /\ acting[m].read.status # "OPEN" => alerts[acting[m].key].status # "OPEN"

HealthInv ==
    /\ DOMAIN alerts \subseteq Keys
    /\ \A k \in DOMAIN alerts : AlertInv(k)
    /\ done \in [Keys -> Seq(Entries)]
    /\ \A k \in Keys \ DOMAIN alerts : done[k] = <<>>
    /\ DOMAIN evaluation = Evaluators
    /\ \A e \in Evaluators : evaluation[e] # None => \A f \in evaluation[e] : H!Key(f) \in Keys
    /\ DOMAIN acting = Managers /\ \A m \in Managers : ActingInv(m)
    /\ DOMAIN board = Managers /\ \A m \in Managers : board[m] \subseteq DOMAIN alerts

LEMMA HealthInitially == ASSUME H!HealthInit PROVE HealthInv
<1>1. alerts = <<>> /\ DOMAIN alerts = {}
  BY DEF H!HealthInit
<1>2. done \in [Keys -> Seq(Entries)] /\ \A k \in Keys : done[k] = <<>>
  BY DEF H!HealthInit, Keys
<1> QED
  BY <1>1, <1>2 DEF H!HealthInit, HealthInv, ActingInv

(* The findings are about deals, each under one of the three types.        *)
LEMMA FindingsHaveKeys ==
    ASSUME NEW f \in H!EvaluateDealHealth(deal, today)
    PROVE  H!Key(f) \in Keys
<1>1. f.on \in Deals /\ f.type \in H!Types
  BY DEF H!EvaluateDealHealth, H!DetectStalledDeals, H!DetectDiscountAnomalies, H!DetectDeliverySlippage, H!Types
<1> QED
  BY <1>1 DEF H!Key, Keys

(* A finding is written.                                                   *)
LEMMA WritingKeepsActions ==
    ASSUME HealthInv, NEW e \in Evaluators, H!EvaluateWrite(e)
    PROVE  HealthInv'
<1>1. PICK f \in evaluation[e] :
         /\ alerts' = [k \in DOMAIN alerts \cup {H!Key(f)} |-> IF k = H!Key(f) THEN H!Upserted(f) ELSE alerts[k]]
         /\ evaluation' = [evaluation EXCEPT ![e] = @ \ {f}]
  BY DEF H!EvaluateWrite
<1>2. evaluation[e] # None /\ UNCHANGED <<acting, board, done>>
  BY DEF H!EvaluateWrite
<1> DEFINE key == H!Key(f)
<1>3. key \in Keys
  BY <1>2 DEF HealthInv
<1>4. CASE key \in DOMAIN alerts
  <2>1. H!Upserted(f) = [alerts[key] EXCEPT !.severity = f.severity, !.issue = f.issue] /\ AlertInv(key)
    BY <1>4 DEF H!Upserted, HealthInv
  <2>2. H!Upserted(f) = [severity |-> f.severity, issue |-> f.issue,
                         status |-> alerts[key].status, actions |-> alerts[key].actions]
    BY <2>1 DEF AlertInv
  <2>. HIDE DEF key
  <2>3. DOMAIN alerts' = DOMAIN alerts /\ \A k \in DOMAIN alerts : k # key => alerts'[k] = alerts[k]
    BY <1>1, <1>4 DEF key
  <2>4. alerts'[key] = [severity |-> f.severity, issue |-> f.issue,
                        status |-> alerts[key].status, actions |-> alerts[key].actions]
    BY <1>1, <2>2 DEF key
  <2>5. \A k \in DOMAIN alerts : alerts'[k].status = alerts[k].status /\ alerts'[k].actions = alerts[k].actions
    BY <2>3, <2>4
  <2>6. \A k \in DOMAIN alerts' : AlertInv(k)'
    <3>1. AlertInv(key)'
      BY <1>2, <2>1, <2>4 DEF AlertInv
    <3>2. ASSUME NEW k \in DOMAIN alerts, k # key PROVE AlertInv(k)'
      BY <1>2, <2>3, <3>2 DEF AlertInv, HealthInv
    <3> QED
      BY <2>3, <3>1, <3>2
  <2>7. \A m \in Managers : ActingInv(m)'
    BY <1>2, <2>3, <2>5 DEF ActingInv, HealthInv
  <2>8. /\ DOMAIN evaluation' = Evaluators
        /\ \A x \in Evaluators : evaluation'[x] # None => \A g \in evaluation'[x] : H!Key(g) \in Keys
    BY <1>1, <1>2 DEF HealthInv
  <2> QED
    BY <1>2, <2>3, <2>6, <2>7, <2>8 DEF HealthInv
<1>5. CASE key \notin DOMAIN alerts
  <2>1. H!Upserted(f) = [severity |-> f.severity, issue |-> f.issue, status |-> "OPEN", actions |-> <<>>]
    BY <1>5 DEF H!Upserted
  <2>2. done[key] = <<>>
    BY <1>3, <1>5 DEF HealthInv
  <2>. HIDE DEF key
  <2>3. DOMAIN alerts' = DOMAIN alerts \cup {key} /\ \A k \in DOMAIN alerts : alerts'[k] = alerts[k]
    BY <1>1, <1>5 DEF key
  <2>4. alerts'[key] = [severity |-> f.severity, issue |-> f.issue, status |-> "OPEN", actions |-> <<>>]
    BY <1>1, <2>1 DEF key
  <2>6. \A k \in DOMAIN alerts' : AlertInv(k)'
    BY <1>2, <2>2, <2>3, <2>4 DEF AlertInv, HealthInv
  <2>7. \A m \in Managers : ActingInv(m)'
    BY <1>2, <2>3 DEF ActingInv, HealthInv
  <2>8. /\ DOMAIN evaluation' = Evaluators
        /\ \A x \in Evaluators : evaluation'[x] # None => \A g \in evaluation'[x] : H!Key(g) \in Keys
    BY <1>1, <1>2 DEF HealthInv
  <2> QED
    BY <1>2, <1>3, <2>3, <2>6, <2>7, <2>8 DEF HealthInv
<1> QED
  BY <1>4, <1>5

(* A record of which one or two fields are written.                        *)
LEMMA AlertFields ==
    ASSUME NEW v, NEW i, NEW s, NEW x, NEW al, al = [severity |-> v, issue |-> i, status |-> s, actions |-> x]
    PROVE  al.severity = v /\ al.issue = i /\ al.status = s /\ al.actions = x
  OBVIOUS

LEMMA AlertOf ==
    ASSUME NEW al, NEW v, NEW i, NEW s, NEW x,
           al \in [severity : {v}, issue : {i}, status : {s}, actions : {x}]
    PROVE  al = [severity |-> v, issue |-> i, status |-> s, actions |-> x]
  OBVIOUS

LEMMA RequestOf ==
    ASSUME NEW a, NEW k, NEW c, NEW s, NEW r, a \in [key : {k}, action : {c}, saved : {s}, read : {r}]
    PROVE  a = [key |-> k, action |-> c, saved |-> s, read |-> r]
  OBVIOUS

LEMMA SavedAlert ==
    ASSUME NEW al, NEW x, NEW s,
           al = [severity |-> al.severity, issue |-> al.issue, status |-> al.status, actions |-> al.actions]
    PROVE  [al EXCEPT !.actions = x, !.status = s]
             = [severity |-> al.severity, issue |-> al.issue, status |-> s, actions |-> x]
<1>1. al \in [severity : {al.severity}, issue : {al.issue}, status : {al.status}, actions : {al.actions}]
  OBVIOUS
<1> DEFINE r == [al EXCEPT !.actions = x, !.status = s]
           v == al.severity
           i == al.issue
<1>2. r \in [severity : {v}, issue : {i}, status : {s}, actions : {x}]
  BY <1>1
<1>. HIDE DEF r, v, i
<1>3. r = [severity |-> v, issue |-> i, status |-> s, actions |-> x]
  BY <1>2, AlertOf
<1> QED
  BY <1>3 DEF r, v, i

LEMMA SavedRequest ==
    ASSUME NEW a, a = [key |-> a.key, action |-> a.action, saved |-> a.saved, read |-> a.read]
    PROVE  [a EXCEPT !.saved = TRUE] = [key |-> a.key, action |-> a.action, saved |-> TRUE, read |-> a.read]
<1>1. a \in [key : {a.key}, action : {a.action}, saved : {a.saved}, read : {a.read}]
  OBVIOUS
<1> DEFINE new == [a EXCEPT !.saved = TRUE]
           k == a.key
           c == a.action
           r == a.read
<1>2. new \in [key : {k}, action : {c}, saved : {TRUE}, read : {r}]
  BY <1>1
<1>. HIDE DEF new, k, c, r
<1>3. new = [key |-> k, action |-> c, saved |-> TRUE, read |-> r]
  BY <1>2, RequestOf
<1> QED
  BY <1>3 DEF new, k, c, r

(* A manager's entry is saved.                                             *)
LEMMA SavingAddsAnEntry ==
    ASSUME HealthInv, NEW m \in Managers, H!ActSave(m)
    PROVE  HealthInv'
<1> DEFINE a == acting[m]
           entry == <<m, a.action>>
<1> SUFFICES ASSUME NEW CONSTANT key, key = acting[m].key PROVE HealthInv'
  OBVIOUS
<1>1. /\ a # None
      /\ alerts' = [alerts EXCEPT ![key] = H!Saved(alerts[key], m, a)]
      /\ done' = [done EXCEPT ![key] = Append(done[key], entry)]
      /\ acting' = [acting EXCEPT ![m] = [a EXCEPT !.saved = TRUE]]
      /\ UNCHANGED <<evaluation, board>>
  BY DEF H!ActSave
<1>2. /\ a = [key |-> a.key, action |-> a.action, saved |-> a.saved, read |-> a.read]
      /\ key \in DOMAIN alerts /\ a.action \in {"NUDGE", "ESCALATE"}
      /\ a.read.status # "OPEN" => alerts[key].status # "OPEN"
  BY <1>1 DEF HealthInv, ActingInv
<1>3. key \in Keys /\ AlertInv(key) /\ done[key] \in Seq(Entries) /\ entry \in Entries
  BY <1>2 DEF HealthInv, Entries
<1> DEFINE status == IF a.read.status = H!StatusAfter(a.action) THEN alerts[key].status ELSE H!StatusAfter(a.action)
<1>4. H!StatusAfter(a.action) # "OPEN" /\ status # "OPEN"
  BY <1>2 DEF H!StatusAfter
<1>5. H!Saved(alerts[key], m, a) = [severity |-> alerts[key].severity, issue |-> alerts[key].issue,
                                   status |-> status, actions |-> Append(alerts[key].actions, entry)]
  <2>1. H!Saved(alerts[key], m, a) = [alerts[key] EXCEPT !.actions = Append(@, entry), !.status = status]
    BY DEF H!Saved
  <2>2. alerts[key] = [severity |-> alerts[key].severity, issue |-> alerts[key].issue,
                       status |-> alerts[key].status, actions |-> alerts[key].actions]
    BY <1>3 DEF AlertInv
  <2> DEFINE al == alerts[key]
             actions == Append(al.actions, entry)
  <2>3. H!Saved(alerts[key], m, a) = [al EXCEPT !.actions = actions, !.status = status]
    BY <2>1
  <2>4. al = [severity |-> al.severity, issue |-> al.issue, status |-> al.status, actions |-> al.actions]
    BY <2>2
  <2>. HIDE DEF al, entry, status, actions
  <2>5. H!Saved(alerts[key], m, a) = [severity |-> al.severity, issue |-> al.issue,
                                     status |-> status, actions |-> actions]
    BY <2>3, <2>4, SavedAlert, Zenon
  <2> QED
    BY <2>5 DEF al, actions
<1>6. [a EXCEPT !.saved = TRUE] = [key |-> a.key, action |-> a.action, saved |-> TRUE, read |-> a.read]
  <2>. HIDE DEF a
  <2> QED
    BY <1>2, SavedRequest
<1>7. Append(done[key], entry) \in Seq(Entries)
  BY <1>3
<1>. HIDE DEF a, entry, status
<1>8. DOMAIN alerts' = DOMAIN alerts /\ \A k \in DOMAIN alerts : k # key => alerts'[k] = alerts[k]
  BY <1>1, <1>2
<1>9. alerts'[key] = [severity |-> alerts[key].severity, issue |-> alerts[key].issue,
                      status |-> status, actions |-> Append(alerts[key].actions, entry)]
  BY <1>1, <1>2, <1>5
<1>10. done' \in [Keys -> Seq(Entries)] /\ done'[key] = Append(done[key], entry)
          /\ \A k \in Keys : k # key => done'[k] = done[k]
  BY <1>1, <1>3, <1>7 DEF HealthInv
<1>11. \A k \in DOMAIN alerts' : AlertInv(k)'
  <2>1. AlertInv(key)'
    <3>0. key \in Keys
      BY <1>3
    <3>1. /\ alerts'[key].severity = alerts[key].severity /\ alerts'[key].issue = alerts[key].issue
          /\ alerts'[key].status = status /\ alerts'[key].actions = Append(alerts[key].actions, entry)
      <4> DEFINE x == Append(alerts[key].actions, entry)
      <4>1. alerts'[key] = [severity |-> alerts[key].severity, issue |-> alerts[key].issue,
                            status |-> status, actions |-> x]
        BY <1>9
      <4>. HIDE DEF x
      <4>2. /\ alerts'[key].severity = alerts[key].severity /\ alerts'[key].issue = alerts[key].issue
            /\ alerts'[key].status = status /\ alerts'[key].actions = x
        BY <4>1, AlertFields
      <4> QED
        BY <4>2 DEF x
    <3>2. alerts[key].actions = done[key]
      BY <1>3 DEF AlertInv
    <3> QED
      BY <1>4, <1>9, <1>10, <3>1, <3>2 DEF AlertInv
  <2>2. ASSUME NEW k \in DOMAIN alerts, k # key PROVE AlertInv(k)'
    <3>1. AlertInv(k) /\ alerts'[k] = alerts[k] /\ done'[k] = done[k]
      BY <1>8, <1>10, <2>2 DEF HealthInv
    <3>2. alerts[k].actions = done[k] /\ (alerts[k].actions # <<>> => alerts[k].status # "OPEN")
      BY <3>1 DEF AlertInv
    <3>3. alerts[k] = [severity |-> alerts[k].severity, issue |-> alerts[k].issue,
                       status |-> alerts[k].status, actions |-> alerts[k].actions]
      BY <3>1 DEF AlertInv
    <3>4. alerts'[k] = [severity |-> alerts'[k].severity, issue |-> alerts'[k].issue,
                        status |-> alerts'[k].status, actions |-> alerts'[k].actions]
      BY <3>1, <3>3
    <3>5. alerts'[k].actions = done'[k] /\ (alerts'[k].actions # <<>> => alerts'[k].status # "OPEN")
      BY <3>1, <3>2
    <3> QED
      BY <3>4, <3>5 DEF AlertInv
  <2> QED
    BY <1>8, <2>1, <2>2
<1>12. \A k \in DOMAIN alerts : alerts[k].status # "OPEN" => alerts'[k].status # "OPEN"
  BY <1>4, <1>8, <1>9
<1>13. acting'[m] = [key |-> key, action |-> a.action, saved |-> TRUE, read |-> a.read]
       /\ DOMAIN acting' = Managers /\ \A x \in Managers : x # m => acting'[x] = acting[x]
  BY <1>1, <1>6 DEF HealthInv, a
<1>14. \A x \in Managers : ActingInv(x)'
  <2>1. ActingInv(m)'
    BY <1>2, <1>8, <1>12, <1>13 DEF ActingInv
  <2>2. \A x \in Managers : x # m => ActingInv(x)'
    BY <1>8, <1>12, <1>13 DEF ActingInv, HealthInv
  <2> QED
    BY <2>1, <2>2
<1> QED
  BY <1>1, <1>2, <1>8, <1>10, <1>11, <1>13, <1>14 DEF HealthInv

LEMMA HealthStays ==
    ASSUME HealthInv, [H!HealthNext]_health
    PROVE  HealthInv'
<1>1. CASE UNCHANGED <<alerts, evaluation, acting, board, done>>
  BY <1>1 DEF HealthInv, AlertInv, ActingInv
<1>2. ASSUME NEW x \in Deals, H!Activity(x) PROVE HealthInv'
  BY <1>1, <1>2 DEF H!Activity
<1>3. CASE H!DayPasses
  BY <1>1, <1>3 DEF H!DayPasses
<1>4. ASSUME NEW e \in Evaluators, H!EvaluateRead(e) \/ H!EvaluateEnds(e) PROVE HealthInv'
  <2>1. /\ UNCHANGED <<alerts, acting, board, done>>
        /\ \/ evaluation' = [evaluation EXCEPT ![e] = H!EvaluateDealHealth(deal, today)]
           \/ evaluation' = [evaluation EXCEPT ![e] = None]
    BY <1>4 DEF H!EvaluateRead, H!EvaluateEnds
  <2>2. /\ DOMAIN evaluation' = Evaluators
        /\ \A x \in Evaluators : evaluation'[x] # None => \A f \in evaluation'[x] : H!Key(f) \in Keys
    BY <2>1, FindingsHaveKeys DEF HealthInv
  <2> QED
    BY <2>1, <2>2 DEF HealthInv, AlertInv, ActingInv
<1>5. ASSUME NEW e \in Evaluators, H!EvaluateWrite(e) PROVE HealthInv'
  BY <1>5, WritingKeepsActions
<1>6. ASSUME NEW m \in Managers, H!Load(m) PROVE HealthInv'
  BY <1>6 DEF HealthInv, AlertInv, ActingInv, H!Load
<1>7. ASSUME NEW m \in Managers, NEW k \in Deals \X H!Types, NEW action \in {"NUDGE", "ESCALATE"}, H!Act(m, k, action)
      PROVE HealthInv'
  <2> DEFINE a == [key |-> k, action |-> action, saved |-> FALSE,
                   read |-> [status |-> alerts[k].status, actions |-> alerts[k].actions]]
  <2>1. /\ k \in DOMAIN alerts /\ acting' = [acting EXCEPT ![m] = a]
        /\ UNCHANGED <<alerts, evaluation, board, done>>
    BY <1>7 DEF H!Act, HealthInv
  <2>2. ActingInv(m)'
    BY <2>1 DEF ActingInv, HealthInv
  <2>. HIDE DEF a
  <2>3. DOMAIN acting' = Managers /\ \A x \in Managers : x # m => ActingInv(x)'
    BY <2>1 DEF ActingInv, HealthInv
  <2> QED
    BY <2>1, <2>2, <2>3 DEF HealthInv, AlertInv
<1>8. ASSUME NEW m \in Managers, H!ActSave(m) PROVE HealthInv'
  BY <1>8, SavingAddsAnEntry
<1>9. ASSUME NEW m \in Managers, H!ActTell(m) \/ H!ActDies(m) PROVE HealthInv'
  <2>1. acting' = [acting EXCEPT ![m] = None] /\ UNCHANGED <<alerts, evaluation, board, done>>
    BY <1>9 DEF H!ActTell, H!ActDies
  <2>2. DOMAIN acting' = Managers /\ \A x \in Managers : ActingInv(x)'
    BY <2>1 DEF ActingInv, HealthInv
  <2> QED
    BY <2>1, <2>2 DEF HealthInv, AlertInv
<1>10. CASE UNCHANGED health
  BY <1>1, <1>10 DEF health
<1> QED
  BY <1>2, <1>3, <1>4, <1>5, <1>6, <1>7, <1>8, <1>9, <1>10 DEF H!HealthNext

LEMMA HealthKeepsActions == ASSUME HealthInv PROVE H!ActionsAreKept
  BY DEF HealthInv, AlertInv, H!ActionsAreKept

---------------------------------------------------------------------------
(* The catalogue.                                                          *)

Busy(a, kind, p) == pending[a] # None /\ pending[a].kind = kind /\ pending[a].on = p

(* What the requests under way rely on.                                    *)
CreateInv(a) ==
    /\ pending[a] = [kind |-> "create", on |-> pending[a].on, body |-> pending[a].body,
                     sku |-> pending[a].sku, step |-> pending[a].step]
    /\ pending[a].on \in Goods /\ pending[a].body \in G!CreateBodies /\ pending[a].sku \in 1 .. MaxSku
    /\ pending[a].step \in {"read", "created"}
    /\ pending[a].step = "read" => product[pending[a].on] = None

EditInv(a) ==
    /\ pending[a].on \in Goods \cap touched /\ pending[a].step = "read"
    /\ pending[a].body \in G!EditBodies /\ pending[a].sku \in 1 .. MaxSku
    /\ pending[a].read \in G!ProductRecords
    /\ product[pending[a].on] \in G!ProductRecords
    /\ pending[a].on \notin overlapped => product[pending[a].on] = pending[a].read

Tiered(doc) == doc = [tier |-> doc.tier, priceList |-> doc.tier]

PatchInv(a) ==
    /\ pending[a].on \in Customers
    /\ Tiered(pending[a].read) /\ Tiered(customer[pending[a].on])

RequestInv(a) ==
    pending[a] # None =>
        /\ pending[a].kind \in {"create", "edit", "plan", "patch"}
        /\ pending[a].kind = "create" => CreateInv(a)
        /\ pending[a].kind = "edit" => EditInv(a)
        /\ pending[a].kind = "patch" => PatchInv(a)

(* Nobody else is at work on a product that is being created, and two who  *)
(* edit one are remembered.                                                *)
ApartInv(a, b) ==
    \A p \in Goods :
        /\ ~(Busy(a, "create", p) /\ Busy(b, "create", p))
        /\ Busy(a, "create", p) /\ Busy(b, "edit", p) => pending[a].step # "read"
        /\ Busy(a, "edit", p) /\ Busy(b, "edit", p) => p \in overlapped

(* The stock of a product that was only created: none before its rows are  *)
(* written, its opening stock after.                                       *)
NoRows(p) == \A w \in Warehouses : <<p, w>> \notin DOMAIN stock

StockInv(p) ==
    /\ product[p] = None => NoRows(p)
    /\ \A a \in Admins : (Busy(a, "create", p) /\ pending[a].step = "created") =>
          /\ NoRows(p)
          /\ product[p] \in G!ProductRecords
          /\ product[p].category = pending[a].body.category
          /\ product[p].onHand = G!QuantityOnHand(pending[a].body)
    /\ (product[p] # None /\ G!IsStockedCategory(product[p].category) /\ ~G!Creating(p)) =>
          product[p].onHand = G!InStock(p)

ProductInv(p) ==
    /\ product[p] \in G!ProductRecords \cup {None}
    /\ (p \notin overlapped /\ product[p] # None) => (product[p].sub <=> product[p].cycle # None)
    /\ p \notin touched \cup cut => StockInv(p)

CatalogueInv ==
    /\ DOMAIN product = Goods /\ DOMAIN customer = Customers /\ DOMAIN pending = Admins
    /\ \A c \in Customers : customer[c] # None => Tiered(customer[c])
    /\ \A a \in Admins : RequestInv(a)
    /\ \A a, b \in Admins : a # b => ApartInv(a, b)
    /\ \A p \in Goods : ProductInv(p)

LEMMA CatalogueHolds == ASSUME CatalogueInv PROVE G!CatalogueAgrees
<1>1. G!PriceListIsOfTheTier
  BY DEF CatalogueInv, Tiered, G!PriceListIsOfTheTier
<1>2. G!CycleFollowsSubscription
  BY DEF CatalogueInv, ProductInv, G!CycleFollowsSubscription, G!Exists
<1>3. G!OpeningStockIsCounted
  BY DEF CatalogueInv, ProductInv, StockInv, G!OpeningStockIsCounted, G!Exists
<1> QED
  BY <1>1, <1>2, <1>3 DEF G!CatalogueAgrees

LEMMA CatalogueInitially == ASSUME G!CatalogueInit PROVE CatalogueInv
<1>1. stock = <<>> /\ DOMAIN stock = {}
  BY DEF G!CatalogueInit
<1>2. \A p \in Goods : ProductInv(p)
  BY <1>1 DEF G!CatalogueInit, ProductInv, StockInv, NoRows, Busy
<1> QED
  BY <1>2 DEF G!CatalogueInit, CatalogueInv, RequestInv, ApartInv, Busy

---------------------------------------------------------------------------
(* Helpers.                                                                *)

LEMMA FirstFree ==
    ASSUME NEW S \in SUBSET Nat, S # {}
    PROVE  G!Min(S) \in S
<1>. DEFINE R == OpToRel(<, Nat)
<1>1. IsWellFoundedOn(R, Nat)
    BY NatLessThanWellFounded
<1>2. \A x, y \in Nat : x < y => <<x, y>> \in R
    BY DEF OpToRel
<1>. HIDE DEF R
<1>3. PICK x \in S : \A y \in S : ~(<<y, x>> \in R)
    BY <1>1, WFMin
<1>4. ASSUME NEW y \in S PROVE x <= y
  <2>1. x \in Nat /\ y \in Nat /\ ~(y < x)
      BY <1>2, <1>3
  <2>. QED
      BY <2>1
<1>. QED
    BY <1>4 DEF G!Min

(* A save writes the fields that differ.                                   *)
LEMMA WritesDiffering ==
    ASSUME NEW x \in G!ProductRecords, NEW y \in G!ProductRecords, NEW z \in G!ProductRecords
    PROVE  /\ G!Differing(x, y, z) \in G!ProductRecords
           /\ x = y => G!Differing(x, y, z) = z
<1> DEFINE F == {"sku", "category", "sub", "cycle", "onHand"}
<1>1. DOMAIN x = F /\ DOMAIN y = F /\ DOMAIN z = F
  BY DEF G!ProductRecords
<1> DEFINE r == [f \in F |-> IF z[f] # y[f] THEN z[f] ELSE x[f]]
<1>2. G!Differing(x, y, z) = r
  BY <1>1 DEF G!Differing
<1>3. r = [sku |-> r.sku, category |-> r.category, sub |-> r.sub, cycle |-> r.cycle, onHand |-> r.onHand]
  OBVIOUS
<1>4. /\ r.sku \in {x.sku, z.sku} /\ r.category \in {x.category, z.category} /\ r.sub \in {x.sub, z.sub}
      /\ r.cycle \in {x.cycle, z.cycle} /\ r.onHand \in {x.onHand, z.onHand}
  OBVIOUS
<1>5. r \in G!ProductRecords
  <2>. HIDE DEF r
  <2> QED
    BY <1>3, <1>4 DEF G!ProductRecords
<1>6. x = y => r = z
  <2>1. z = [f \in F |-> z[f]]
    BY <1>1 DEF G!ProductRecords
  <2>. HIDE DEF F
  <2> QED
    BY <2>1
<1> QED
  BY <1>2, <1>5, <1>6

LEMMA Retiers ==
    ASSUME NEW x, Tiered(x), NEW y, Tiered(y), NEW z, Tiered(z)
    PROVE  Tiered(G!Differing(x, y, z))
<1> DEFINE F == {"tier", "priceList"}
<1>1. DOMAIN x = F /\ DOMAIN y = F /\ DOMAIN z = F
  BY DEF Tiered
<1> DEFINE r == [f \in F |-> IF z[f] # y[f] THEN z[f] ELSE x[f]]
<1>2. G!Differing(x, y, z) = r
  BY <1>1 DEF G!Differing
<1>3. x.tier = x.priceList /\ y.tier = y.priceList /\ z.tier = z.priceList
  BY DEF Tiered
<1>4. r.tier = r.priceList /\ r = [tier |-> r.tier, priceList |-> r.priceList]
  BY <1>3
<1>. HIDE DEF r
<1>5. Tiered(r)
  BY <1>4 DEF Tiered
<1> QED
  BY <1>2, <1>5

LEMMA CreatedRecord ==
    ASSUME NEW body \in G!CreateBodies, NEW sku \in 1 .. MaxSku
    PROVE  /\ [sku |-> sku, category |-> body.category, sub |-> body.sub,
               cycle |-> body.cycle, onHand |-> G!QuantityOnHand(body)] \in G!ProductRecords
           /\ body.sub <=> body.cycle # None
           /\ body.opening \in [Warehouses -> {0, 1}]
<1>1. /\ body.category \in G!Categories /\ body.sub \in BOOLEAN /\ body.cycle \in G!Cycles \cup {None}
      /\ body.onHand \in {0, 2} /\ body.opening \in [Warehouses -> {0, 1}]
      /\ body.sub <=> body.cycle # None
  BY DEF G!CreateBodies
<1>2. G!QuantityOnHand(body) \in {0, 2} \cup {G!SumFunction(o) : o \in [Warehouses -> {0, 1}]}
  BY <1>1 DEF G!QuantityOnHand, G!OpeningStock
<1> QED
  BY <1>1, <1>2 DEF G!ProductRecords

LEMMA EditedRecord ==
    ASSUME NEW body \in G!EditBodies, NEW sku \in 1 .. MaxSku, NEW read \in G!ProductRecords
    PROVE  LET new == G!Edited(read, body, sku)
           IN  new \in G!ProductRecords /\ (new.sub <=> new.cycle # None)
<1>1. /\ body.category \in G!Categories /\ body.sub \in BOOLEAN /\ body.cycle \in G!Cycles \cup {None}
      /\ body.onHand \in {0, 2}
      /\ body.sub <=> body.cycle # None
  BY DEF G!EditBodies
<1> QED
  BY <1>1 DEF G!Edited, G!ProductRecords

(* What was only created and has a stock row in no warehouse, or its       *)
(* opening stock in each.                                                  *)
LEMMA OpeningIsInStock ==
    ASSUME NEW p, NEW body \in G!CreateBodies,
           \A w \in Warehouses : G!Units(p, w) = body.opening[w]
    PROVE  G!OpeningStock(body) = G!InStock(p)
<1>1. body.opening \in [Warehouses -> {0, 1}]
  BY DEF G!CreateBodies
<1>2. body.opening = [w \in Warehouses |-> G!Units(p, w)]
  BY <1>1
<1> QED
  BY <1>2 DEF G!OpeningStock, G!InStock

---------------------------------------------------------------------------
(* Steps.                                                                  *)

(* A request goes on as before beside a step that leaves its documents.    *)
LEMMA RequestGoesOn ==
    ASSUME NEW b \in Admins, RequestInv(b), pending'[b] = pending[b],
           touched \subseteq touched', overlapped \subseteq overlapped',
           pending[b].kind \in {"create", "edit"} => product'[pending[b].on] = product[pending[b].on],
           pending[b].kind = "patch" => customer'[pending[b].on] = customer[pending[b].on]
    PROVE  RequestInv(b)'
<1>. SUFFICES ASSUME pending'[b] # None
              PROVE  /\ pending'[b].kind \in {"create", "edit", "plan", "patch"}
                     /\ pending'[b].kind = "create" => CreateInv(b)'
                     /\ pending'[b].kind = "edit" => EditInv(b)'
                     /\ pending'[b].kind = "patch" => PatchInv(b)'
  BY DEF RequestInv
<1>1. /\ pending[b].kind \in {"create", "edit", "plan", "patch"}
      /\ pending[b].kind = "create" => CreateInv(b)
      /\ pending[b].kind = "edit" => EditInv(b)
      /\ pending[b].kind = "patch" => PatchInv(b)
  BY DEF RequestInv
<1>2. CASE pending[b].kind = "create"
  <2>1. CreateInv(b)'
    BY <1>1, <1>2 DEF CreateInv
  <2> QED
    BY <1>2, <2>1
<1>3. CASE pending[b].kind = "edit"
  <2>1. EditInv(b)'
    BY <1>1, <1>3 DEF EditInv
  <2> QED
    BY <1>3, <2>1
<1>4. CASE pending[b].kind = "patch"
  <2>1. PatchInv(b)'
    BY <1>1, <1>4 DEF PatchInv
  <2> QED
    BY <1>4, <2>1
<1>5. CASE pending[b].kind = "plan"
  BY <1>5
<1> QED
  BY <1>1, <1>2, <1>3, <1>4, <1>5

(* A request is taken in.                                                  *)
LEMMA AskedKeeps ==
    ASSUME CatalogueInv, NEW a \in Admins, NEW r, pending[a] = None,
           pending' = [pending EXCEPT ![a] = r], UNCHANGED <<product, stock, customer, cut>>,
           touched \subseteq touched', overlapped \subseteq overlapped', RequestInv(a)',
           \A b \in Admins \ {a} : ApartInv(a, b)' /\ ApartInv(b, a)',
           r.kind = "create" => r.step = "read"
    PROVE  CatalogueInv'
<1>1. DOMAIN pending' = Admins /\ pending'[a] = r /\ \A b \in Admins : b # a => pending'[b] = pending[b]
  BY DEF CatalogueInv
<1>2. \A b \in Admins : RequestInv(b)'
  BY <1>1, RequestGoesOn DEF CatalogueInv
<1>3. ASSUME NEW b \in Admins, NEW c \in Admins, b # c PROVE ApartInv(b, c)'
  <2>1. CASE b # a /\ c # a
    <3>1. ApartInv(b, c)
      BY <1>3 DEF CatalogueInv
    <3> QED
      BY <1>1, <2>1, <3>1 DEF ApartInv, Busy
  <2> QED
    BY <1>3, <2>1
<1>4. ASSUME NEW p \in Goods PROVE ProductInv(p)'
  <2>1. ProductInv(p)
    BY DEF CatalogueInv
  <2>2. \A b \in Admins : (Busy(b, "create", p) /\ pending[b].step = "created")'
                              <=> (Busy(b, "create", p) /\ pending[b].step = "created")
    BY <1>1 DEF Busy
  <2>3. \A b \in Admins : pending'[b].body = pending[b].body \/ ~(Busy(b, "create", p) /\ pending[b].step = "created")
    BY <1>1 DEF Busy
  <2>4. G!Creating(p)' = G!Creating(p)
    <3>1. G!Creating(p) <=> \E b \in Admins : Busy(b, "create", p) /\ pending[b].step = "created"
      BY DEF G!Creating, G!At, Busy
    <3>2. G!Creating(p)' <=> \E b \in Admins : (Busy(b, "create", p) /\ pending[b].step = "created")'
      BY DEF G!Creating, G!At, Busy
    <3> QED
      BY <2>2, <3>1, <3>2 DEF G!Creating
  <2>5. p \notin touched' \cup cut' => StockInv(p)'
    <3>1. G!InStock(p)' = G!InStock(p) /\ NoRows(p)' = NoRows(p)
      BY DEF G!InStock, G!Units, NoRows
    <3> QED
      BY <2>1, <2>2, <2>3, <2>4, <3>1 DEF ProductInv, StockInv
  <2> QED
    BY <2>1, <2>5 DEF ProductInv
<1> QED
  BY <1>1, <1>2, <1>3, <1>4 DEF CatalogueInv

LEMMA AskingKeeps ==
    ASSUME CatalogueInv, NEW a \in Admins,
           \/ \E p \in Goods : G!CreateRead(a, p) \/ G!EditRead(a, p)
           \/ \E p \in Goods, name \in PlanNames : G!PlanRead(a, name, p)
           \/ \E c \in Customers, t \in Tiers : G!PatchRead(a, c, t)
    PROVE  CatalogueInv'
<1>0. DOMAIN pending = Admins
  BY DEF CatalogueInv
<1>1. ASSUME NEW p \in Goods, G!CreateRead(a, p) PROVE CatalogueInv'
  <2>1. PICK body \in G!CreateBodies :
          G!Asked(a, [kind |-> "create", on |-> p, body |-> body, sku |-> G!GenerateSku, step |-> "read"])
    BY <1>1 DEF G!CreateRead
  <2> DEFINE r == [kind |-> "create", on |-> p, body |-> body, sku |-> G!GenerateSku, step |-> "read"]
  <2>2. /\ pending[a] = None /\ pending' = [pending EXCEPT ![a] = r] /\ product[p] = None
        /\ \A b \in Admins : pending[b] # None => pending[b].on # p
        /\ UNCHANGED <<product, stock, customer, cut, touched, overlapped>>
    BY <1>1, <2>1 DEF G!CreateRead, G!Asked, G!Exists
  <2>3. G!GenerateSku \in 1 .. MaxSku
    <3>1. G!FreeSkus \in SUBSET Nat /\ G!FreeSkus # {} /\ G!FreeSkus \subseteq 1 .. MaxSku
      BY <1>1, PartsAssumption DEF G!CreateRead, G!FreeSkus, PartsAssumption
    <3> QED
      BY <3>1, FirstFree DEF G!GenerateSku
  <2>4. pending'[a] = r /\ \A b \in Admins : b # a => pending'[b] = pending[b]
    BY <1>0, <2>2
  <2>5. RequestInv(a)'
    <3>1. CreateInv(a)'
      BY <2>2, <2>3, <2>4 DEF CreateInv
    <3> QED
      BY <2>4, <3>1 DEF RequestInv
  <2>6. \A b \in Admins \ {a} : ApartInv(a, b)' /\ ApartInv(b, a)'
    BY <2>2, <2>4 DEF ApartInv, Busy
  <2>7. r.kind = "create" => r.step = "read"
    OBVIOUS
  <2>. HIDE DEF r
  <2> QED
    BY <2>2, <2>5, <2>6, <2>7, AskedKeeps
<1>2. ASSUME NEW p \in Goods, G!EditRead(a, p) PROVE CatalogueInv'
  <2>1. PICK body \in G!EditBodies, sku \in 1 .. MaxSku :
          G!Asked(a, [kind |-> "edit", on |-> p, body |-> body, sku |-> sku, read |-> product[p], step |-> "read"])
    BY <1>2 DEF G!EditRead
  <2> DEFINE r == [kind |-> "edit", on |-> p, body |-> body, sku |-> sku, read |-> product[p], step |-> "read"]
  <2>2. /\ pending[a] = None /\ pending' = [pending EXCEPT ![a] = r] /\ product[p] # None
        /\ overlapped' = IF \E b \in Admins \ {a} : G!At(b, "edit", "read") /\ pending[b].on = p
                         THEN overlapped \cup {p} ELSE overlapped
        /\ touched' = touched \cup {p}
        /\ UNCHANGED <<product, stock, customer, cut>>
    BY <1>2, <2>1 DEF G!EditRead, G!Asked, G!Exists
  <2>3. pending'[a] = r /\ \A b \in Admins : b # a => pending'[b] = pending[b]
    BY <1>0, <2>2
  <2>4. product[p] \in G!ProductRecords
    BY <2>2 DEF CatalogueInv, ProductInv
  <2>5. RequestInv(a)'
    <3>1. EditInv(a)'
      BY <2>2, <2>3, <2>4 DEF EditInv
    <3> QED
      BY <2>3, <3>1 DEF RequestInv
  <2>6. ASSUME NEW b \in Admins \ {a} PROVE ApartInv(a, b)' /\ ApartInv(b, a)'
    <3>1. Busy(b, "edit", p) => p \in overlapped'
      <4>1. Busy(b, "edit", p) => G!At(b, "edit", pending[b].step)
        BY DEF Busy, G!At
      <4>2. Busy(b, "edit", p) => pending[b].step = "read"
        BY DEF CatalogueInv, RequestInv, EditInv, Busy
      <4> QED
        BY <2>2, <4>1, <4>2 DEF Busy
    <3>2. Busy(b, "create", p) => pending[b].step # "read"
      BY <2>2 DEF CatalogueInv, RequestInv, CreateInv, Busy
    <3> QED
      BY <2>3, <3>1, <3>2 DEF ApartInv, Busy
  <2>7. r.kind = "create" => r.step = "read"
    OBVIOUS
  <2>. HIDE DEF r
  <2> QED
    BY <2>2, <2>5, <2>6, <2>7, AskedKeeps
<1>3. ASSUME NEW p \in Goods, NEW name \in PlanNames, G!PlanRead(a, name, p) PROVE CatalogueInv'
  <2> DEFINE r == [kind |-> "plan", on |-> p, name |-> name, step |-> "read"]
  <2>1. /\ pending[a] = None /\ pending' = [pending EXCEPT ![a] = r]
        /\ UNCHANGED <<product, stock, customer, cut, touched, overlapped>>
    BY <1>3 DEF G!PlanRead, G!Asked
  <2>2. pending'[a] = r /\ \A b \in Admins : b # a => pending'[b] = pending[b]
    BY <1>0, <2>1
  <2>3. RequestInv(a)' /\ \A b \in Admins \ {a} : ApartInv(a, b)' /\ ApartInv(b, a)'
    BY <2>2 DEF RequestInv, ApartInv, Busy
  <2>7. r.kind = "create" => r.step = "read"
    OBVIOUS
  <2>. HIDE DEF r
  <2> QED
    BY <2>1, <2>3, <2>7, AskedKeeps
<1>4. ASSUME NEW c \in Customers, NEW t \in Tiers, G!PatchRead(a, c, t) PROVE CatalogueInv'
  <2> DEFINE r == [kind |-> "patch", on |-> c, tier |-> t, read |-> customer[c], step |-> "read"]
  <2>1. /\ pending[a] = None /\ pending' = [pending EXCEPT ![a] = r] /\ customer[c] # None
        /\ UNCHANGED <<product, stock, customer, cut, touched, overlapped>>
    BY <1>4 DEF G!PatchRead, G!Asked
  <2>2. pending'[a] = r /\ \A b \in Admins : b # a => pending'[b] = pending[b]
    BY <1>0, <2>1
  <2>3. RequestInv(a)'
    <3>1. Tiered(customer[c])
      BY <2>1 DEF CatalogueInv
    <3>2. PatchInv(a)'
      BY <2>1, <2>2, <3>1 DEF PatchInv, Tiered
    <3> QED
      BY <2>2, <3>2 DEF RequestInv
  <2>4. \A b \in Admins \ {a} : ApartInv(a, b)' /\ ApartInv(b, a)'
    BY <2>2 DEF ApartInv, Busy
  <2>7. r.kind = "create" => r.step = "read"
    OBVIOUS
  <2>. HIDE DEF r
  <2> QED
    BY <2>1, <2>3, <2>4, <2>7, AskedKeeps
<1> QED
  BY <1>1, <1>2, <1>3, <1>4

(* A request is over: nothing, or one product, or one customer changed.    *)
LEMMA OverKeeps ==
    ASSUME CatalogueInv, NEW a \in Admins, pending' = [pending EXCEPT ![a] = None]
    PROVE  /\ DOMAIN pending' = Admins /\ pending'[a] = None
           /\ \A b \in Admins : b # a => pending'[b] = pending[b]
           /\ overlapped \subseteq overlapped' => \A b, c \in Admins : b # c => ApartInv(b, c)'
<1>1. DOMAIN pending' = Admins /\ pending'[a] = None /\ \A b \in Admins : b # a => pending'[b] = pending[b]
  BY DEF CatalogueInv
<1>2. ASSUME overlapped \subseteq overlapped', NEW b \in Admins, NEW c \in Admins, b # c PROVE ApartInv(b, c)'
  <2>1. CASE b # a /\ c # a
    <3>1. ApartInv(b, c)
      BY <1>2 DEF CatalogueInv
    <3> QED
      BY <1>1, <1>2, <2>1, <3>1 DEF ApartInv, Busy
  <2>2. CASE b = a \/ c = a
    BY <1>1, <2>2 DEF ApartInv, Busy
  <2> QED
    BY <2>1, <2>2
<1> QED
  BY <1>1, <1>2

(* A product none of whose documents changed.                              *)
LEMMA ProductStays ==
    ASSUME CatalogueInv, NEW p \in Goods, product'[p] = product[p],
           touched \subseteq touched', overlapped \subseteq overlapped', cut \subseteq cut',
           p \notin touched' \cup cut' =>
              /\ \A w \in Warehouses : <<p, w>> \in DOMAIN stock' <=> <<p, w>> \in DOMAIN stock
              /\ \A w \in Warehouses : <<p, w>> \in DOMAIN stock => stock'[<<p, w>>] = stock[<<p, w>>]
              /\ \A b \in Admins : (Busy(b, "create", p) /\ pending[b].step = "created")'
                              <=> (Busy(b, "create", p) /\ pending[b].step = "created")
              /\ \A b \in Admins : Busy(b, "create", p) /\ pending[b].step = "created" => pending'[b] = pending[b]
    PROVE  ProductInv(p)'
<1>1. ProductInv(p)
  BY DEF CatalogueInv
<1>2. ASSUME p \notin touched' \cup cut' PROVE StockInv(p)'
  <2>1. StockInv(p)
    BY <1>1, <1>2 DEF ProductInv
  <2>2. NoRows(p) => NoRows(p)'
    BY <1>2 DEF NoRows
  <2>3. G!InStock(p)' = G!InStock(p)
    <3>1. \A w \in Warehouses : G!Units(p, w)' = G!Units(p, w)
      BY <1>2 DEF G!Units
    <3>2. [w \in Warehouses |-> G!Units(p, w)'] = [w \in Warehouses |-> G!Units(p, w)]
      BY <3>1
    <3>3. /\ G!InStock(p) = G!SumFunction([w \in Warehouses |-> G!Units(p, w)])
          /\ G!InStock(p)' = G!SumFunction([w \in Warehouses |-> G!Units(p, w)'])
      BY DEF G!InStock
    <3> QED
      BY <3>2, <3>3
  <2>4. G!Creating(p)' <=> G!Creating(p)
    <3>1. G!Creating(p) <=> \E b \in Admins : Busy(b, "create", p) /\ pending[b].step = "created"
      BY DEF G!Creating, G!At, Busy
    <3>2. G!Creating(p)' <=> \E b \in Admins : (Busy(b, "create", p) /\ pending[b].step = "created")'
      BY DEF G!Creating, G!At, Busy
    <3> QED
      BY <1>2, <3>1, <3>2
  <2> QED
    BY <1>2, <2>1, <2>2, <2>3, <2>4 DEF StockInv
<1> QED
  BY <1>1, <1>2 DEF ProductInv

LEMMA InsertKeeps ==
    ASSUME CatalogueInv, NEW a \in Admins, G!CreateInsert(a)
    PROVE  CatalogueInv'
<1> SUFFICES ASSUME NEW CONSTANT r, r = pending[a] PROVE CatalogueInv'
  OBVIOUS
<1> DEFINE p == r.on
           new == [sku |-> r.sku, category |-> r.body.category, sub |-> r.body.sub,
                   cycle |-> r.body.cycle, onHand |-> G!QuantityOnHand(r.body)]
<1>0. r # None /\ r.kind = "create" /\ r.step = "read"
  BY DEF G!CreateInsert, G!At
<1>1. CreateInv(a) /\ p \in Goods /\ product[p] = None /\ r.body \in G!CreateBodies /\ r.sku \in 1 .. MaxSku
  BY <1>0 DEF CatalogueInv, RequestInv, CreateInv
<1>2. UNCHANGED <<stock, customer, overlapped, touched, cut>>
  BY DEF G!CreateInsert
<1>3. CASE pending' = [pending EXCEPT ![a] = None] /\ UNCHANGED product
  <2>1. /\ DOMAIN pending' = Admins /\ pending'[a] = None
        /\ \A b \in Admins : b # a => pending'[b] = pending[b]
        /\ \A b, c \in Admins : b # c => ApartInv(b, c)'
    BY <1>2, <1>3, OverKeeps
  <2>2. \A b \in Admins : RequestInv(b)'
    <3>1. RequestInv(a)'
      BY <2>1 DEF RequestInv
    <3> QED
      BY <1>2, <1>3, <2>1, <3>1, RequestGoesOn DEF CatalogueInv
  <2>3. ASSUME NEW x \in Goods PROVE ProductInv(x)'
    <3>1. \A b \in Admins : (Busy(b, "create", x) /\ pending[b].step = "created")'
                             <=> (Busy(b, "create", x) /\ pending[b].step = "created")
      BY <1>0, <2>1 DEF Busy
    <3>2. \A b \in Admins : Busy(b, "create", x) /\ pending[b].step = "created" => pending'[b] = pending[b]
      BY <1>0, <2>1 DEF Busy
    <3> QED
      BY <1>2, <1>3, <3>1, <3>2, ProductStays
  <2> QED
    BY <1>2, <1>3, <2>1, <2>2, <2>3 DEF CatalogueInv
<1>4. ASSUME product' = [product EXCEPT ![p] = new],
             \/ pending' = [pending EXCEPT ![a] = None] /\ G!Allocations(r.body) = {}
             \/ pending' = [pending EXCEPT ![a] = [r EXCEPT !.step = "created"]]
      PROVE  CatalogueInv'
  <2> DEFINE next == [kind |-> "create", on |-> p, body |-> r.body, sku |-> r.sku, step |-> "created"]
  <2>1. /\ new \in G!ProductRecords /\ (r.body.sub <=> r.body.cycle # None)
        /\ r.body.opening \in [Warehouses -> {0, 1}]
    BY <1>1, CreatedRecord
  <2>2. [r EXCEPT !.step = "created"] = next
    BY <1>0, <1>1 DEF CreateInv
  <2>3. product'[p] = new /\ DOMAIN product' = Goods /\ \A x \in Goods : x # p => product'[x] = product[x]
    BY <1>1, <1>4 DEF CatalogueInv
  <2>4. /\ DOMAIN pending' = Admins /\ pending'[a] \in {None, next}
        /\ \A b \in Admins : b # a => pending'[b] = pending[b]
        /\ pending'[a] = next \/ (pending'[a] = None /\ G!Allocations(r.body) = {})
    BY <1>4, <2>2 DEF CatalogueInv
  <2>0. next # None
    BY <1>1, NoneIsNoDocument DEF G!CreateRequests
  <2>5. \A b \in Admins : b # a /\ pending[b] # None /\ pending[b].kind \in {"create", "edit"} => pending[b].on # p
    BY <1>0, <1>1 DEF CatalogueInv, ApartInv, Busy
  <2>6. ASSUME NEW b \in Admins PROVE RequestInv(b)'
    <3>1. CASE b = a
      <4>1. pending'[a] = next => CreateInv(a)'
        BY <1>1 DEF CreateInv
      <4> QED
        BY <2>4, <3>1, <4>1 DEF RequestInv
    <3>2. CASE b # a
      <4>1. pending[b] # None /\ pending[b].kind \in {"create", "edit"} => product'[pending[b].on] = product[pending[b].on]
        BY <2>3, <2>5, <3>2 DEF CatalogueInv, RequestInv, CreateInv, EditInv
      <4>2. pending'[b] = None => RequestInv(b)'
        BY DEF RequestInv
      <4> QED
        BY <1>2, <2>4, <3>2, <4>1, <4>2, RequestGoesOn DEF CatalogueInv
    <3> QED
      BY <3>1, <3>2
  <2>7. ASSUME NEW b \in Admins, NEW c \in Admins, b # c PROVE ApartInv(b, c)'
    <3>1. ApartInv(b, c)
      BY <2>7 DEF CatalogueInv
    <3> QED
      BY <1>0, <1>2, <2>4, <3>1 DEF ApartInv, Busy
  <2>8. ASSUME NEW x \in Goods PROVE ProductInv(x)'
    <3>1. CASE x # p
      <4>1. \A b \in Admins : (Busy(b, "create", x) /\ pending[b].step = "created")'
                               <=> (Busy(b, "create", x) /\ pending[b].step = "created")
        BY <1>0, <2>4, <3>1 DEF Busy
      <4>2. \A b \in Admins : Busy(b, "create", x) /\ pending[b].step = "created" => pending'[b] = pending[b]
        BY <1>0, <2>4, <3>1 DEF Busy
      <4> QED
        BY <1>2, <2>3, <3>1, <4>1, <4>2, ProductStays
    <3>2. CASE x = p
      <4>. HIDE DEF new, next
      <4>1. ASSUME p \notin touched \cup cut PROVE NoRows(p)
        BY <1>1, <4>1 DEF CatalogueInv, ProductInv, StockInv
      <4>2. new # None /\ new.category = r.body.category /\ new.onHand = G!QuantityOnHand(r.body)
              /\ new.sub = r.body.sub /\ new.cycle = r.body.cycle
        BY <2>1, NoneIsNoDocument DEF new
      <4>3. G!Creating(p)' <=> pending'[a] # None
        <5>1. G!Creating(p)' <=> \E b \in Admins : (Busy(b, "create", p) /\ pending[b].step = "created")'
          BY DEF G!Creating, G!At, Busy
        <5> QED
          BY <2>4, <2>5, <5>1 DEF Busy, next
      <4>4. ASSUME p \notin touched \cup cut PROVE StockInv(p)'
        <5>1. NoRows(p)'
          BY <1>2, <4>1, <4>4 DEF NoRows
        <5>2. ASSUME G!IsStockedCategory(new.category), pending'[a] = None, G!Allocations(r.body) = {}
              PROVE  new.onHand = G!InStock(p)'
          <6>1. \A w \in Warehouses : ~(r.body.opening[w] > 0)
            BY <5>2 DEF G!Allocations
          <6>2. \A w \in Warehouses : r.body.opening[w] = 0
            BY <2>1, <6>1
          <6>3. \A w \in Warehouses : G!Units(p, w) = 0 /\ G!Units(p, w)' = 0
            BY <1>2, <4>1, <4>4 DEF G!Units, NoRows
          <6>4. G!OpeningStock(r.body) = G!InStock(p)
            BY <1>1, <6>2, <6>3, OpeningIsInStock
          <6>5. G!InStock(p)' = G!InStock(p)
            BY <1>2 DEF G!InStock, G!Units
          <6>6. G!QuantityOnHand(r.body) = G!OpeningStock(r.body)
            BY <4>2, <5>2 DEF G!QuantityOnHand
          <6> QED
            BY <4>2, <6>4, <6>5, <6>6
        <5>3. \A b \in Admins : (Busy(b, "create", p) /\ pending[b].step = "created")' => b = a /\ pending'[a] = next
          BY <2>4, <2>5 DEF Busy
        <5> QED
          BY <2>0, <2>1, <2>3, <2>4, <4>2, <4>3, <5>1, <5>2, <5>3 DEF StockInv, next
      <4> QED
        BY <1>2, <2>1, <2>3, <3>2, <4>2, <4>4 DEF ProductInv
    <3> QED
      BY <3>1, <3>2
  <2> QED
    BY <1>2, <2>3, <2>4, <2>6, <2>7, <2>8 DEF CatalogueInv
<1> QED
  BY <1>3, <1>4 DEF G!CreateInsert, G!Over

LEMMA StockingKeeps ==
    ASSUME CatalogueInv, NEW a \in Admins, G!CreateStock(a)
    PROVE  CatalogueInv'
<1> SUFFICES ASSUME NEW CONSTANT r, r = pending[a] PROVE CatalogueInv'
  OBVIOUS
<1> DEFINE p == r.on
           rows == {<<p, w>> : w \in G!Allocations(r.body)}
<1>0. r # None /\ r.kind = "create" /\ r.step = "created"
  BY DEF G!CreateStock, G!At
<1>1. p \in Goods /\ r.body \in G!CreateBodies /\ Busy(a, "create", p)
  BY <1>0 DEF CatalogueInv, RequestInv, CreateInv, Busy
<1>2. /\ stock' = [k \in DOMAIN stock \cup rows |-> IF k \in rows THEN r.body.opening[k[2]] ELSE stock[k]]
      /\ pending' = [pending EXCEPT ![a] = None]
      /\ UNCHANGED <<product, customer, overlapped, touched, cut>>
  BY DEF G!CreateStock, G!Over
<1>3. /\ DOMAIN pending' = Admins /\ pending'[a] = None
      /\ \A b \in Admins : b # a => pending'[b] = pending[b]
      /\ \A b, c \in Admins : b # c => ApartInv(b, c)'
  BY <1>2, OverKeeps
<1>4. \A b \in Admins : RequestInv(b)'
  <2>1. RequestInv(a)'
    BY <1>3 DEF RequestInv
  <2> QED
    BY <1>2, <1>3, <2>1, RequestGoesOn DEF CatalogueInv
<1>5. \A b \in Admins : b # a => ~Busy(b, "create", p)
  BY <1>1 DEF CatalogueInv, ApartInv
<1>6. ASSUME NEW x \in Goods PROVE ProductInv(x)'
  <2>1. CASE x # p
    <3>1. \A w \in Warehouses : <<x, w>> \notin rows
      BY <2>1
    <3>2. \A b \in Admins : (Busy(b, "create", x) /\ pending[b].step = "created")'
                             <=> (Busy(b, "create", x) /\ pending[b].step = "created")
      BY <1>0, <1>3, <2>1 DEF Busy
    <3>3. \A b \in Admins : Busy(b, "create", x) /\ pending[b].step = "created" => pending'[b] = pending[b]
      BY <1>3, <2>1 DEF Busy
    <3>. HIDE DEF rows
    <3>4. /\ \A w \in Warehouses : <<x, w>> \in DOMAIN stock' <=> <<x, w>> \in DOMAIN stock
          /\ \A w \in Warehouses : <<x, w>> \in DOMAIN stock => stock'[<<x, w>>] = stock[<<x, w>>]
      BY <1>2, <3>1
    <3> QED
      BY <1>2, <3>2, <3>3, <3>4, ProductStays
  <2>2. CASE x = p
    <3>1. ProductInv(p)
      BY <1>1 DEF CatalogueInv
    <3>2. ~G!Creating(p)' /\ \A b \in Admins : ~(Busy(b, "create", p) /\ pending[b].step = "created")'
      <4>1. \A b \in Admins : ~Busy(b, "create", p)'
        BY <1>3, <1>5 DEF Busy
      <4>2. G!Creating(p)' <=> \E b \in Admins : (Busy(b, "create", p) /\ pending[b].step = "created")'
        BY DEF G!Creating, G!At, Busy
      <4> QED
        BY <4>1, <4>2 DEF Busy
    <3>3. ASSUME p \notin touched \cup cut PROVE StockInv(p)'
      <4>1. /\ NoRows(p) /\ product[p] \in G!ProductRecords
            /\ product[p].category = r.body.category /\ product[p].onHand = G!QuantityOnHand(r.body)
        BY <1>0, <1>1, <3>1, <3>3 DEF ProductInv, StockInv, Busy
      <4>2. \A w \in Warehouses : G!Units(p, w)' = r.body.opening[w]
        <5>1. r.body.opening \in [Warehouses -> {0, 1}]
          BY <1>1 DEF G!CreateBodies
        <5>. TAKE w \in Warehouses
        <5>2. CASE r.body.opening[w] > 0
          <6>1. w \in G!Allocations(r.body)
            BY <5>2 DEF G!Allocations
          <6>2. <<p, w>> \in rows
            BY <6>1
          <6>. HIDE DEF rows, p
          <6>3. <<p, w>> \in DOMAIN stock' /\ stock'[<<p, w>>] = r.body.opening[w]
            BY <1>2, <6>2
          <6> QED
            BY <6>3 DEF G!Units
        <5>3. CASE ~(r.body.opening[w] > 0)
          <6>1. <<p, w>> \notin rows
            BY <5>3 DEF G!Allocations
          <6>2. <<p, w>> \notin DOMAIN stock
            BY <4>1 DEF NoRows
          <6>. HIDE DEF rows, p
          <6>3. <<p, w>> \notin DOMAIN stock'
            BY <1>2, <6>1, <6>2
          <6>4. r.body.opening[w] = 0
            BY <5>1, <5>3
          <6> QED
            BY <6>3, <6>4 DEF G!Units
        <5> QED
          BY <5>2, <5>3
      <4>3. G!OpeningStock(r.body) = G!InStock(p)'
        <5>1. r.body.opening = [w \in Warehouses |-> G!Units(p, w)']
          <6>1. r.body.opening \in [Warehouses -> {0, 1}]
            BY <1>1 DEF G!CreateBodies
          <6> QED
            BY <4>2, <6>1
        <5> QED
          BY <5>1 DEF G!OpeningStock, G!InStock
      <4>4. G!IsStockedCategory(product[p].category) => product[p].onHand = G!OpeningStock(r.body)
        BY <4>1 DEF G!QuantityOnHand
      <4>5. product[p] # None
        BY <4>1, NoneIsNoDocument
      <4> QED
        BY <1>2, <3>2, <4>3, <4>4, <4>5 DEF StockInv
    <3> QED
      BY <1>2, <2>2, <3>1, <3>3 DEF ProductInv
  <2> QED
    BY <2>1, <2>2
<1> QED
  BY <1>2, <1>3, <1>4, <1>6 DEF CatalogueInv

(* An edit saves what differs.                                             *)
LEMMA SavingKeeps ==
    ASSUME CatalogueInv, NEW a \in Admins, G!EditSave(a)
    PROVE  CatalogueInv'
<1> SUFFICES ASSUME NEW CONSTANT r, r = pending[a] PROVE CatalogueInv'
  OBVIOUS
<1> DEFINE p == r.on
           new == G!Edited(r.read, r.body, r.sku)
           saved == G!Differing(product[p], r.read, new)
<1>0. r # None /\ r.kind = "edit" /\ Busy(a, "edit", p)
  BY DEF G!EditSave, G!At, Busy
<1>1. /\ p \in Goods /\ p \in touched /\ r.body \in G!EditBodies /\ r.sku \in 1 .. MaxSku
      /\ r.read \in G!ProductRecords /\ product[p] \in G!ProductRecords
      /\ p \notin overlapped => product[p] = r.read
  BY <1>0 DEF CatalogueInv, RequestInv, EditInv
<1>2. /\ product' = product \/ product' = [product EXCEPT ![p] = saved]
      /\ pending' = [pending EXCEPT ![a] = None]
      /\ UNCHANGED <<stock, customer, overlapped, touched, cut>>
  BY DEF G!EditSave, G!Over
<1>3. /\ DOMAIN pending' = Admins /\ pending'[a] = None
      /\ \A b \in Admins : b # a => pending'[b] = pending[b]
      /\ \A b, c \in Admins : b # c => ApartInv(b, c)'
  BY <1>2, OverKeeps
<1>4. new \in G!ProductRecords /\ (new.sub <=> new.cycle # None)
  BY <1>1, EditedRecord
<1>5. saved \in G!ProductRecords /\ (product[p] = r.read => saved = new)
  <2>. HIDE DEF new
  <2> QED
    BY <1>1, <1>4, WritesDiffering
<1>. HIDE DEF new, saved
<1>6. /\ DOMAIN product' = Goods /\ \A x \in Goods : x # p => product'[x] = product[x]
      /\ product'[p] = product[p] \/ product'[p] = saved
      /\ product'[p] \in G!ProductRecords
  BY <1>1, <1>2, <1>5 DEF CatalogueInv
<1>7. ASSUME NEW b \in Admins PROVE RequestInv(b)'
  <2>1. CASE b = a \/ pending[b] = None
    BY <1>3, <2>1 DEF RequestInv
  <2>2. CASE b # a /\ pending[b] # None /\ pending[b].kind = "create"
    <3>1. pending[b].on \in Goods /\ CreateInv(b) /\ pending'[b] = pending[b]
      BY <1>3, <2>2 DEF CatalogueInv, RequestInv, CreateInv
    <3>2. CASE pending[b].on = p
      <4>1. Busy(b, "create", p) /\ pending[b].step # "read"
        BY <1>0, <1>1, <2>2, <3>2 DEF CatalogueInv, ApartInv, Busy
      <4>2. CreateInv(b)'
        BY <3>1, <4>1 DEF CreateInv
      <4> QED
        BY <2>2, <3>1, <4>2 DEF RequestInv
    <3>3. CASE pending[b].on # p
      <4>1. product'[pending[b].on] = product[pending[b].on]
        BY <1>6, <3>1, <3>3
      <4> QED
        BY <1>2, <2>2, <3>1, <4>1, RequestGoesOn DEF CatalogueInv
    <3> QED
      BY <3>2, <3>3
  <2>3. CASE b # a /\ pending[b] # None /\ pending[b].kind = "edit"
    <3>1. pending[b].on \in Goods /\ EditInv(b) /\ pending'[b] = pending[b]
      BY <1>3, <2>3 DEF CatalogueInv, RequestInv, EditInv
    <3>2. CASE pending[b].on = p
      <4>1. p \in overlapped
        BY <1>0, <1>1, <2>3, <3>2 DEF CatalogueInv, ApartInv, Busy
      <4>2. EditInv(b)'
        BY <1>2, <1>6, <3>1, <3>2, <4>1 DEF EditInv
      <4> QED
        BY <2>3, <3>1, <4>2 DEF RequestInv
    <3>3. CASE pending[b].on # p
      <4>1. product'[pending[b].on] = product[pending[b].on]
        BY <1>6, <3>1, <3>3
      <4> QED
        BY <1>2, <2>3, <3>1, <4>1, RequestGoesOn DEF CatalogueInv
    <3> QED
      BY <3>2, <3>3
  <2>4. CASE b # a /\ pending[b].kind \notin {"create", "edit"}
    BY <1>2, <1>3, <2>4, RequestGoesOn DEF CatalogueInv
  <2> QED
    BY <2>1, <2>2, <2>3, <2>4
<1>8. ASSUME NEW x \in Goods PROVE ProductInv(x)'
  <2>1. CASE x # p
    <3>1. \A b \in Admins : (Busy(b, "create", x) /\ pending[b].step = "created")'
                             <=> (Busy(b, "create", x) /\ pending[b].step = "created")
      BY <1>0, <1>3, <2>1 DEF Busy
    <3>2. \A b \in Admins : Busy(b, "create", x) /\ pending[b].step = "created" => pending'[b] = pending[b]
      BY <1>0, <1>3, <2>1 DEF Busy
    <3> QED
      BY <1>2, <1>6, <2>1, <3>1, <3>2, ProductStays
  <2>2. CASE x = p
    <3>1. ProductInv(p)
      BY <1>1 DEF CatalogueInv
    <3>2. product[p] # None
      BY <1>1, NoneIsNoDocument
    <3> QED
      BY <1>1, <1>2, <1>4, <1>5, <1>6, <2>2, <3>1, <3>2 DEF ProductInv
  <2> QED
    BY <2>1, <2>2
<1> QED
  BY <1>2, <1>3, <1>6, <1>7, <1>8 DEF CatalogueInv

(* A tier brings its price list, whatever two patches write.               *)
LEMMA PatchingKeeps ==
    ASSUME CatalogueInv, NEW a \in Admins, G!PatchSave(a)
    PROVE  CatalogueInv'
<1> SUFFICES ASSUME NEW CONSTANT r, r = pending[a] PROVE CatalogueInv'
  OBVIOUS
<1> DEFINE c == r.on
           new == G!Retiered(r.read, r.tier)
           saved == G!Differing(customer[c], r.read, new)
<1>0. r # None /\ r.kind = "patch"
  BY DEF G!PatchSave, G!At
<1>1. c \in Customers /\ Tiered(r.read) /\ Tiered(customer[c])
  BY <1>0 DEF CatalogueInv, RequestInv, PatchInv
<1>2. /\ customer' = [customer EXCEPT ![c] = saved]
      /\ pending' = [pending EXCEPT ![a] = None]
      /\ UNCHANGED <<product, stock, overlapped, touched, cut>>
  BY DEF G!PatchSave, G!Over
<1>3. /\ DOMAIN pending' = Admins /\ pending'[a] = None
      /\ \A b \in Admins : b # a => pending'[b] = pending[b]
      /\ \A b, x \in Admins : b # x => ApartInv(b, x)'
  BY <1>2, OverKeeps
<1>4. Tiered(new)
  BY <1>1 DEF G!Retiered, Tiered
<1>5. Tiered(saved)
  <2>. HIDE DEF new
  <2> QED
    BY <1>1, <1>4, Retiers
<1>. HIDE DEF new, saved
<1>6. DOMAIN customer' = Customers /\ customer'[c] = saved /\ \A x \in Customers : x # c => customer'[x] = customer[x]
  BY <1>1, <1>2 DEF CatalogueInv
<1>7. ASSUME NEW b \in Admins PROVE RequestInv(b)'
  <2>1. CASE b = a \/ pending[b] = None
    BY <1>3, <2>1 DEF RequestInv
  <2>2. CASE b # a /\ pending[b] # None /\ pending[b].kind = "patch"
    <3>1. PatchInv(b) /\ pending'[b] = pending[b]
      BY <1>3, <2>2 DEF CatalogueInv, RequestInv
    <3>2. Tiered(customer'[pending[b].on])
      BY <1>5, <1>6, <3>1 DEF PatchInv
    <3>3. PatchInv(b)'
      BY <3>1, <3>2 DEF PatchInv, Tiered
    <3> QED
      BY <2>2, <3>1, <3>3 DEF RequestInv
  <2>3. CASE b # a /\ pending[b].kind # "patch"
    BY <1>2, <1>3, <2>3, RequestGoesOn DEF CatalogueInv
  <2> QED
    BY <2>1, <2>2, <2>3
<1>8. ASSUME NEW x \in Goods PROVE ProductInv(x)'
  <2>1. \A b \in Admins : (Busy(b, "create", x) /\ pending[b].step = "created")'
                           <=> (Busy(b, "create", x) /\ pending[b].step = "created")
    BY <1>0, <1>3 DEF Busy
  <2>2. \A b \in Admins : Busy(b, "create", x) /\ pending[b].step = "created" => pending'[b] = pending[b]
    BY <1>0, <1>3 DEF Busy
  <2> QED
    BY <1>2, <2>1, <2>2, ProductStays
<1>9. \A x \in Customers : customer'[x] # None => Tiered(customer'[x])
  BY <1>5, <1>6 DEF CatalogueInv
<1>10. \A x \in Customers : customer'[x] # None => Tiered(customer[x])'
  BY <1>9 DEF Tiered
<1> QED
  BY <1>2, <1>3, <1>6, <1>7, <1>8, <1>10 DEF CatalogueInv

(* A plan is written, or a process dies.                                   *)
LEMMA EndingKeeps ==
    ASSUME CatalogueInv, NEW a \in Admins, G!PlanInsert(a) \/ G!Dies(a)
    PROVE  CatalogueInv'
<1>1. /\ pending' = [pending EXCEPT ![a] = None]
      /\ pending[a] # None
      /\ UNCHANGED <<product, customer, stock, overlapped, touched>>
      /\ cut \subseteq cut'
      /\ pending[a].kind = "create" /\ pending[a].step = "created" => pending[a].on \in cut'
  BY DEF G!PlanInsert, G!Dies, G!Over, G!At
<1>2. /\ DOMAIN pending' = Admins /\ pending'[a] = None
      /\ \A b \in Admins : b # a => pending'[b] = pending[b]
      /\ \A b, x \in Admins : b # x => ApartInv(b, x)'
  BY <1>1, OverKeeps
<1>3. \A b \in Admins : RequestInv(b)'
  <2>1. RequestInv(a)'
    BY <1>2 DEF RequestInv
  <2> QED
    BY <1>1, <1>2, <2>1, RequestGoesOn DEF CatalogueInv
<1>4. ASSUME NEW x \in Goods PROVE ProductInv(x)'
  <2>1. x \notin cut' => \A b \in Admins : (Busy(b, "create", x) /\ pending[b].step = "created")'
                           <=> (Busy(b, "create", x) /\ pending[b].step = "created")
    BY <1>1, <1>2 DEF Busy
  <2>2. x \notin cut' => \A b \in Admins : Busy(b, "create", x) /\ pending[b].step = "created" => pending'[b] = pending[b]
    BY <1>1, <1>2 DEF Busy
  <2> QED
    BY <1>1, <2>1, <2>2, ProductStays
<1> QED
  BY <1>1, <1>2, <1>3, <1>4 DEF CatalogueInv

(* Steps that no request takes part in.                                    *)
LEMMA RestockingKeeps ==
    ASSUME CatalogueInv, NEW p \in Goods, NEW w \in Warehouses, G!Adjust(p, w)
    PROVE  CatalogueInv'
<1> DEFINE keys == DOMAIN stock \cup {<<p, w>>}
<1>1. /\ stock' = [k \in keys |-> IF k = <<p, w>> THEN G!Units(p, w) + 1 ELSE stock[k]]
      /\ touched' = touched \cup {p}
      /\ UNCHANGED <<product, customer, pending, overlapped, cut>>
  BY DEF G!Adjust
<1>2. ASSUME NEW b \in Admins PROVE RequestInv(b)'
  BY <1>1, RequestGoesOn DEF CatalogueInv
<1>3. \A b, c \in Admins : b # c => ApartInv(b, c)'
  BY <1>1 DEF CatalogueInv, ApartInv, Busy
<1>4. ASSUME NEW x \in Goods PROVE ProductInv(x)'
  <2>1. CASE x = p
    <3>1. x \in touched'
      BY <1>1, <2>1
    <3>2. ProductInv(x)
      BY DEF CatalogueInv
    <3> QED
      BY <1>1, <3>1, <3>2 DEF ProductInv
  <2>2. CASE x # p
    <3>. HIDE DEF keys
    <3>1. \A v \in Warehouses : <<x, v>> \in keys <=> <<x, v>> \in DOMAIN stock
      BY <2>2 DEF keys
    <3>2. \A v \in Warehouses : <<x, v>> # <<p, w>>
      BY <2>2
    <3>3. /\ \A v \in Warehouses : <<x, v>> \in DOMAIN stock' <=> <<x, v>> \in DOMAIN stock
          /\ \A v \in Warehouses : <<x, v>> \in DOMAIN stock => stock'[<<x, v>>] = stock[<<x, v>>]
      BY <1>1, <3>1, <3>2
    <3> QED
      BY <1>1, <3>3, ProductStays DEF Busy
  <2> QED
    BY <2>1, <2>2
<1> QED
  BY <1>1, <1>2, <1>3, <1>4 DEF CatalogueInv

LEMMA JoiningKeeps ==
    ASSUME CatalogueInv, NEW c \in Customers, NEW t \in Tiers, G!CreateCustomer(c, t)
    PROVE  CatalogueInv'
<1>1. /\ customer[c] = None /\ customer' = [customer EXCEPT ![c] = [tier |-> t, priceList |-> t]]
      /\ UNCHANGED <<product, stock, pending, overlapped, touched, cut>>
  BY DEF G!CreateCustomer
<1>2. /\ DOMAIN customer' = Customers /\ customer'[c] = [tier |-> t, priceList |-> t]
      /\ \A x \in Customers : x # c => customer'[x] = customer[x]
  BY <1>1 DEF CatalogueInv
<1>3. \A x \in Customers : customer[x]' # None => Tiered(customer[x])'
  BY <1>2 DEF CatalogueInv, Tiered
<1>4. ASSUME NEW b \in Admins PROVE RequestInv(b)'
  <2>1. CASE pending[b] # None /\ pending[b].kind = "patch"
    <3>1. PatchInv(b)
      BY <2>1 DEF CatalogueInv, RequestInv
    <3>2. PatchInv(b)'
      BY <1>1, <1>2, <3>1 DEF PatchInv, Tiered
    <3> QED
      BY <1>1, <2>1, <3>2 DEF RequestInv
  <2>2. CASE pending[b] = None
    BY <1>1, <2>2 DEF RequestInv
  <2>3. CASE pending[b].kind # "patch"
    BY <1>1, <2>3, RequestGoesOn DEF CatalogueInv
  <2> QED
    BY <2>1, <2>2, <2>3
<1>5. \A b, x \in Admins : b # x => ApartInv(b, x)'
  BY <1>1 DEF CatalogueInv, ApartInv, Busy
<1>6. ASSUME NEW x \in Goods PROVE ProductInv(x)'
  BY <1>1, ProductStays DEF Busy
<1> QED
  BY <1>1, <1>2, <1>3, <1>4, <1>5, <1>6 DEF CatalogueInv

LEMMA CatalogueStays ==
    ASSUME CatalogueInv, [G!CatalogueNext]_catalogue
    PROVE  CatalogueInv'
<1>1. ASSUME UNCHANGED <<product, stock, customer, pending, overlapped, touched, cut>> PROVE CatalogueInv'
  <2>1. \A b \in Admins : RequestInv(b)'
    BY <1>1, RequestGoesOn DEF CatalogueInv
  <2>2. \A b, x \in Admins : b # x => ApartInv(b, x)'
    BY <1>1 DEF CatalogueInv, ApartInv, Busy
  <2>3. \A x \in Goods : ProductInv(x)'
    BY <1>1, ProductStays DEF Busy
  <2>4. \A x \in Customers : customer[x]' # None => Tiered(customer[x])'
    BY <1>1 DEF CatalogueInv, Tiered
  <2> QED
    BY <1>1, <2>1, <2>2, <2>3, <2>4 DEF CatalogueInv
<1>2. CASE \E w \in Warehouses : G!SetActive(w)
  BY <1>1, <1>2 DEF G!SetActive
<1>3. CASE UNCHANGED catalogue
  BY <1>1, <1>3 DEF catalogue
<1> QED
  BY <1>2, <1>3, AskingKeeps, InsertKeeps, StockingKeeps, SavingKeeps, PatchingKeeps, EndingKeeps,
     RestockingKeeps, JoiningKeeps DEF G!CatalogueNext

---------------------------------------------------------------------------
(* The parts together.                                                     *)

everything == <<bell, picker, list, portal, health, catalogue, pricingVars, part>>

(* A step of one part leaves the others as they are.                       *)
LEMMA PartSteps ==
    ASSUME [Next]_everything
    PROVE  /\ [B!Next]_bell /\ [P!PickerNext]_picker /\ [L!ListNext]_list /\ [N!NegotiationNext]_portal
           /\ [H!HealthNext]_health /\ [G!CatalogueNext]_catalogue /\ [PricingNext]_pricingVars
<1>. HIDE DEF bell, picker, list, portal, health, catalogue, pricingVars
<1> QED
  BY DEF Next, everything

(* What is known of each part, in every state.                             *)
PartsInv ==
    /\ BellInv /\ PickerInv /\ ListInv /\ PortalInv /\ HealthInv /\ CatalogueInv
    /\ PricingInv

(* The parts keep what is known of them: the frames and answers that are   *)
(* under way for each tab of the bell, the pages asked for, what has been  *)
(* said on a quotation and where, the actions on an alert, the requests of *)
(* the administrators, and the copies and calls of a quotation's prices.   *)
THEOREM PartsInvariant == Spec => []PartsInv
<1>1. Init => PartsInv
  <2>. SUFFICES ASSUME Init PROVE PartsInv
    OBVIOUS
  <2>1. /\ B!Init /\ P!PickerInit /\ L!ListInit /\ N!NegotiationInit /\ H!HealthInit /\ G!CatalogueInit
        /\ PricingInit
    BY DEF Init
  <2> QED
    BY <2>1, PartsAssumption, BellInitially, PickerInitially, ListInitially, PortalInitially, HealthInitially,
       CatalogueInitially, InitHolds DEF PartsInv
<1>2. PartsInv /\ [Next]_everything => PartsInv'
  <2>. SUFFICES ASSUME PartsInv, [Next]_everything PROVE PartsInv'
    OBVIOUS
  <2>1. /\ [B!Next]_bell /\ [P!PickerNext]_picker /\ [L!ListNext]_list /\ [N!NegotiationNext]_portal
        /\ [H!HealthNext]_health /\ [G!CatalogueNext]_catalogue /\ [PricingNext]_pricingVars
    BY PartSteps
  <2>2. BellInv' /\ PickerInv' /\ ListInv'
    BY <2>1, BellStays, PickerStays, ListStays DEF PartsInv
  <2>3. PortalInv'
    BY <2>1, PartsAssumption, NoneIsNoDocument, PortalStays DEF PartsInv
  <2>4. HealthInv' /\ CatalogueInv'
    BY <2>1, HealthStays, CatalogueStays DEF PartsInv
  <2>5. PricingInv'
    BY <2>1, PricingStays DEF PartsInv
  <2> QED
    BY <2>2, <2>3, <2>4, <2>5 DEF PartsInv
<1> QED
  BY <1>1, <1>2, PTL DEF Spec, everything

(* However frames, answers and clicks overtake one another, the bell shows *)
(* each row once and a count that rows can have, a screen is on a page its *)
(* list has, and the search box lists what its latest term finds.          *)
THEOREM NothingStrayIsShown == Spec => []NothingStrayShown
<1>1. PartsInv => NothingStrayShown
  <2>1. ListInv => L!PageInRange
    BY DEF ListInv, L!PageInRange
  <2> QED
    BY <2>1, BellShowsRowsOnce, BoxShowsItsTerm DEF PartsInv, NothingStrayShown
<1> QED
  BY <1>1, PartsInvariant, PTL

(* What a customer types beside a line is said about one line and once,    *)
(* whatever is edited, reloaded, switched, refused or sent by colleagues,  *)
(* unless the answer to a request is lost.                                 *)
THEOREM RequestsAreSaidOnce == Spec => []RequestsSayItOnce
<1>1. PartsInv => RequestsSayItOnce
  BY PortalSaysItOnce DEF PartsInv, RequestsSayItOnce
<1> QED
  BY <1>1, PartsInvariant, PTL

(* No evaluation, however late its findings are written, and no other      *)
(* manager's click loses what was done about an alert.                     *)
THEOREM ActionsStay == Spec => []ActionsAreKept
<1>1. PartsInv => ActionsAreKept
  BY HealthKeepsActions DEF PartsInv, ActionsAreKept
<1> QED
  BY <1>1, PartsInvariant, PTL

(* Whatever administrators do at the same time and wherever a request      *)
(* dies, price lists, billing cycles and opening stock agree with what     *)
(* they stand for, as far as nothing was cut short or overlapped.          *)
THEOREM CatalogueStaysInAgreement == Spec => []CatalogueAgrees
<1>1. PartsInv => CatalogueAgrees
  BY CatalogueHolds DEF PartsInv, CatalogueAgrees
<1> QED
  BY <1>1, PartsInvariant, PTL

(* The same of the prices when the other parts are there.                  *)
THEOREM PricesStayTheServers == Spec => []PricesAreTheServers
<1>1. PartsInv => PricesAreTheServers
  BY InvMeansServers DEF PartsInv
<1> QED
  BY <1>1, PartsInvariant, PTL
=============================================================================
