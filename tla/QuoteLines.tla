----------------------------- MODULE QuoteLines -----------------------------
(***************************************************************************)
(* The lines of one quotation under the rep's builder and the customer's   *)
(* counter-offers, next to the ceilings of the saved configuration: every  *)
(* edit is answered with the blended risk of the lines it leaves.          *)
(***************************************************************************)
EXTENDS RiskEngine

CONSTANTS
    Products,    \* catalogue: records of category and unitPrice
    Discounts,   \* discounts a rep or a customer may ask for
    Quantities,  \* quantities they may ask for
    Tier,        \* the customer's tier
    Ceilings,    \* ceilings an administrator may save
    MaxLines     \* bound on the lines of the quotation

VARIABLES lines, cfg

vars == <<lines, cfg>>

Assessment == CalculateBlendedRisk(lines, Tier, cfg)

Init == lines = <<>> /\ cfg \in Ceilings

AddProduct(p) ==
    /\ Len(lines) < MaxLines
    /\ lines' = Append(lines, [category |-> p.category, unitPrice |-> p.unitPrice,
                               qty |-> 1, discountPct |-> 0])
    /\ UNCHANGED cfg

SetQty(i, qty) ==
    /\ i \in DOMAIN lines
    /\ lines' = [lines EXCEPT ![i].qty = Max({1, qty})]
    /\ UNCHANGED cfg

SetDiscount(i, pct) ==
    /\ i \in DOMAIN lines
    /\ lines' = [lines EXCEPT ![i].discountPct = Clamp(pct, 0, Points(100))]
    /\ UNCHANGED cfg

RemoveLine(i) ==
    /\ i \in DOMAIN lines
    /\ lines' = [j \in 1..(Len(lines) - 1) |-> IF j < i THEN lines[j] ELSE lines[j + 1]]
    /\ UNCHANGED cfg

(* A counter-offer may also take the quantity of a line down to nothing.   *)
CounterLine(i, pct, qty) ==
    /\ i \in DOMAIN lines
    /\ lines' = [lines EXCEPT ![i].discountPct = pct, ![i].qty = Max({0, qty})]
    /\ UNCHANGED cfg

SaveCeilings(c) ==
    /\ cfg' = c
    /\ UNCHANGED lines

Next ==
    \/ \E p \in Products : AddProduct(p)
    \/ \E i \in 1..MaxLines :
          \/ RemoveLine(i)
          \/ \E qty \in Quantities : SetQty(i, qty)
          \/ \E pct \in Discounts : SetDiscount(i, pct)
          \/ \E pct \in Discounts, qty \in Quantities : CounterLine(i, pct, qty)
    \/ \E c \in Ceilings : SaveCeilings(c)

Spec == Init /\ [][Next]_vars

---------------------------------------------------------------------------
Severity == [NONE |-> 0, LOW |-> 0, MEDIUM |-> 1, HIGH |-> 2]

NoLessReview(before, after) ==
    /\ before.score <= after.score
    /\ Severity[before.level] <= Severity[after.level]

SameButDiscounts(a, b) ==
    /\ DOMAIN a = DOMAIN b
    /\ \A i \in DOMAIN a : [a[i] EXCEPT !.discountPct = 0] = [b[i] EXCEPT !.discountPct = 0]

(* Giving more away never needs less review: nobody lowers the score, or   *)
(* drops an approver, by a deeper discount on a line or, with the lines as *)
(* they are, by a lower ceiling.                                           *)
MoreDiscount ==
    /\ cfg' = cfg
    /\ SameButDiscounts(lines, lines')
    /\ \A i \in DOMAIN lines : lines[i].discountPct <= lines'[i].discountPct

TighterCeilings ==
    /\ lines' = lines
    /\ \A t \in DOMAIN cfg.tierCeilings : cfg'.tierCeilings[t] <= cfg.tierCeilings[t]
    /\ \A g \in DOMAIN cfg.categoryCeilings :
          cfg'.categoryCeilings[g] <= cfg.categoryCeilings[g]

ReviewStep == MoreDiscount \/ TighterCeilings => NoLessReview(Assessment, Assessment')
MoreOverNeverLessReview == [][ReviewStep]_vars

(* How an order is written down does not matter.  BUSINESS_RULES.md:127:   *)
(* scaling every unit price by one factor changes neither the score nor    *)
(* the chain; and an order is not reviewed less, or more, for having a     *)
(* line split into its single units.                                       *)
Repriced(factor) == [i \in DOMAIN lines |-> [lines[i] EXCEPT !.unitPrice = factor * @]]
UnitsOf(i) == [n \in 1..lines[i].qty |-> [lines[i] EXCEPT !.qty = 1]]
SplitUp(i) ==
    [j \in 1..(i - 1) |-> lines[j]] \o UnitsOf(i) \o [j \in 1..(Len(lines) - i) |-> lines[i + j]]

WritingDoesNotMatter ==
    /\ CalculateBlendedRisk(Repriced(3), Tier, cfg) = Assessment
    /\ \A i \in DOMAIN lines :
          lines[i].qty > 1 => CalculateBlendedRisk(SplitUp(i), Tier, cfg) = Assessment

(* BUSINESS_RULES.md:60: a line eight points over its limit makes the      *)
(* order HIGH however large the clean lines around it are, even when the   *)
(* quantity of that line is nothing.  An order that nobody reviews has no  *)
(* line a sixth of a point or more over its limit - what the whole-number  *)
(* score can round away - and an order whose lines are all within their    *)
(* limits is reviewed by nobody.                                           *)
EightPointsOverIsHigh ==
    (\E i \in DOMAIN lines : OverBy(lines[i], Tier, cfg) >= Points(8)) => Assessment.level = "HIGH"

UnreviewedIsRoundedAway ==
    Assessment.chain = <<>> => \A i \in DOMAIN lines : 6 * OverBy(lines[i], Tier, cfg) < Points(1)

CleanIsUnreviewed ==
    (\A i \in DOMAIN lines : OverBy(lines[i], Tier, cfg) = 0)
        => Assessment = [score |-> 0, level |-> "NONE", chain |-> <<>>]

OverageIsSeen == EightPointsOverIsHigh /\ UnreviewedIsRoundedAway /\ CleanIsUnreviewed
=============================================================================
