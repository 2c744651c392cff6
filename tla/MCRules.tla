------------------------------- MODULE MCRules -------------------------------
(* The pure rules for TLC: the split planner over orders and stock, and the *)
(* risk engine over the quotations that the builder and counter-offers      *)
(* reach.  They share no state; one of them is at work in a behaviour.      *)
EXTENDS OrderSplits

CONSTANTS Offers, Discounts, Quantities, Tier, Ceilings, MaxQuoteLines   \* of QuoteLines
VARIABLES lines, cfg   \* of QuoteLines
VARIABLE rule          \* which of the two is at work

(* Three warehouses, the first two of one weight, the last one the         *)
(* cheapest for small orders and the least preferred.                      *)
MCWarehouses ==
    <<[weight |-> 10, base |-> 24, perUnit |-> 2],
      [weight |-> 10, base |-> 20, perUnit |-> 3],
      [weight |-> 14, base |-> 10, perUnit |-> 1]>>

(* None free (more reserved than there is), one free, two free.            *)
MCCounts ==
    {[inStock |-> 0, reserved |-> 1],
     [inStock |-> 1, reserved |-> 0],
     [inStock |-> 3, reserved |-> 1]}

(* A laptop and a cheap service, discounts around the limits, around a     *)
(* sixth of a point over and around eight points over.                     *)
MCOffers ==
    {[category |-> "HARDWARE", unitPrice |-> 600], [category |-> "SERVICES", unitPrice |-> 5]}
MCDiscounts == {0, 1016, 1017, 1799, 1800, 4000}
MCQuantities == {0, 3}

Engine == INSTANCE RiskEngine
MCCeilings ==
    {Engine!WithDefaults([GOLD |-> Engine!Points(c[1])],
                         [HARDWARE |-> Engine!Points(15), SERVICES |-> Engine!Points(c[2])]) :
        c \in {<<15, 10>>, <<20, 20>>, <<10, 10>>, <<15, 5>>}}

Quote ==
    INSTANCE QuoteLines WITH Products <- Offers, MaxLines <- MaxQuoteLines

RulesInit ==
    \/ rule = "split" /\ Init /\ lines = <<>> /\ cfg = CHOOSE c \in Ceilings : TRUE
    \/ rule = "risk" /\ Quote!Init
         /\ demand = <<>> /\ stock = [w \in Sites |-> [p \in Products |-> [inStock |-> 0, reserved |-> 0]]]

RulesNext ==
    \/ rule = "split" /\ Next /\ UNCHANGED <<lines, cfg, rule>>
    \/ rule = "risk" /\ Quote!Next /\ UNCHANGED <<stock, demand, rule>>

RulesSpec == RulesInit /\ [][RulesNext]_<<stock, demand, lines, cfg, rule>>

(* The promises of the planner, on every order and stock.                  *)
PlanIsSound == rule = "split" => PlanGivesWhatIsFree /\ NothingIsSplitNeedlessly

(* What the review of a quotation depends on, and what it always sees; and *)
(* giving more away never needs less review.                               *)
ReviewFollowsOverage ==
    /\ [](rule = "risk" => Quote!WritingDoesNotMatter /\ Quote!OverageIsSeen)
    /\ [][rule = "risk" => Quote!ReviewStep]_<<lines, cfg>>
=============================================================================
