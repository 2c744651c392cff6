---------------------------- MODULE GoldCustomer ----------------------------
(***************************************************************************)
(* The quotations and configurations the model-checking modules use: a     *)
(* Gold customer's laptops and onsite setup, the worked example of         *)
(* BUSINESS_RULES.md, scored by the risk engine.                           *)
(*                                                                         *)
(*            loose (20%/20%)   usual (15%/10%)   tight (15%/5%)           *)
(*   clean         NONE              NONE              NONE                *)
(*   slim          NONE              NONE              MEDIUM              *)
(*   mid           NONE              MEDIUM            HIGH                *)
(*   deep          NONE              HIGH              HIGH                *)
(***************************************************************************)
EXTENDS RiskEngine

Discounted(laptop, setup) ==
    <<[category |-> "HARDWARE", qty |-> 2, unitPrice |-> 1200, discountPct |-> Points(laptop)],
      [category |-> "SERVICES", qty |-> 1, unitPrice |-> 450, discountPct |-> Points(setup)]>>

LinesOf ==
    [nolines |-> <<>>, clean |-> Discounted(0, 0), slim |-> Discounted(12, 10),
     mid |-> Discounted(12, 14), deep |-> Discounted(12, 18)]

Ceilings(gold, services) ==
    WithDefaults([GOLD |-> Points(gold)], [HARDWARE |-> Points(20), SERVICES |-> Points(services)])

ConfigOf == [loose |-> Ceilings(20, 20), usual |-> Ceilings(15, 10), tight |-> Ceilings(15, 5)]

AssessOver(configs, terms) ==
    [c \in configs |->
        [t \in terms \cup {"nolines"} |-> CalculateBlendedRisk(LinesOf[t], "GOLD", ConfigOf[c])]]
=============================================================================
