----------------------------- MODULE RiskEngine -----------------------------
(***************************************************************************)
(* The blended discount risk of a quotation: a pure function of its lines, *)
(* the customer's tier and the saved configuration.                        *)
(*                                                                         *)
(* Percentages are whole hundredths of a point, the precision roundToTwo   *)
(* keeps; prices are whole numbers.  The score is computed exactly: the    *)
(* code's floating-point product is only compared with whole numbers after *)
(* Math.round, which rounds a half up.                                     *)
(***************************************************************************)
EXTENDS Integers, Sequences, FiniteSetsExt

Points(n) == 100 * n
Clamp(n, low, high) == Max({low, Min({n, high})})

(* The stricter of the customer tier's and the category's ceiling.         *)
AllowedDiscount(tier, category, cfg) ==
    Min({cfg.tierCeilings[tier], cfg.categoryCeilings[category]})

OverBy(line, tier, cfg) ==
    Max({0, Clamp(line.discountPct, 0, Points(100)) - AllowedDiscount(tier, line.category, cfg)})

Gross(line) == line.unitPrice * Max({0, line.qty})

GrossTotal(lines) == MapThenSumSet(LAMBDA i : Gross(lines[i]), DOMAIN lines)

WeightedOver(lines, tier, cfg) ==
    MapThenSumSet(LAMBDA i : Gross(lines[i]) * OverBy(lines[i], tier, cfg), DOMAIN lines)

(* Fault: the overages are added up.                                       *)
MaxSingleOver_Sum(lines, tier, cfg) ==
    MapThenSumSet(LAMBDA i : OverBy(lines[i], tier, cfg), DOMAIN lines)
MaxSingleOver(lines, tier, cfg) ==
    Max({0} \cup {OverBy(lines[i], tier, cfg) : i \in DOMAIN lines})

(* n/d rounded to the nearest whole number, a half up (n >= 0, d > 0).     *)
RoundQuotient(n, d) == (2 * n + d) \div (2 * d)

(* blendedOverPct * blendedWeight + maxSingleOver * maxSingleWeight, with  *)
(* blendedOverPct = WeightedOver / GrossTotal and 0 for a free order.      *)
ScoreWithin(gross, lines, tier, cfg) ==
    LET most == MaxSingleOver(lines, tier, cfg) * cfg.maxSingleWeight
        raw == IF gross = 0
               THEN RoundQuotient(most, Points(1))
               ELSE RoundQuotient(
                      WeightedOver(lines, tier, cfg) * cfg.blendedWeight + most * gross,
                      Points(1) * gross)
    IN  Min({100, raw})

(* Fault: the average is taken over the lines that are over their limit.   *)
RiskScore_OverLines(lines, tier, cfg) ==
    LET over == {i \in DOMAIN lines : OverBy(lines[i], tier, cfg) > 0}
    IN  ScoreWithin(MapThenSumSet(LAMBDA i : Gross(lines[i]), over), lines, tier, cfg)

RiskScore(lines, tier, cfg) == ScoreWithin(GrossTotal(lines), lines, tier, cfg)

(* Fault: no hard escalation.                                              *)
ResolveRiskLevel_ScoreOnly(score, maxSingleOver, cfg) ==
    IF score >= cfg.highMinScore THEN "HIGH"
    ELSE IF score >= cfg.mediumMinScore THEN "MEDIUM" ELSE "NONE"
ResolveRiskLevel(score, maxSingleOver, cfg) ==
    IF maxSingleOver >= Points(cfg.hardEscalation) \/ score >= cfg.highMinScore
    THEN "HIGH"
    ELSE IF score >= cfg.mediumMinScore THEN "MEDIUM" ELSE "NONE"

CalculateBlendedRisk(lines, tier, cfg) ==
    LET score == RiskScore(lines, tier, cfg)
        level == ResolveRiskLevel(score, MaxSingleOver(lines, tier, cfg), cfg)
    IN  [score |-> score, level |-> level, chain |-> cfg.chains[level]]

---------------------------------------------------------------------------
(* The thresholds and chains the shared package ships with.                *)
DefaultChains ==
    [NONE |-> <<>>, LOW |-> <<>>, MEDIUM |-> <<"SALES_MANAGER">>,
     HIGH |-> <<"SALES_MANAGER", "FINANCE">>]

WithDefaults(tierCeilings, categoryCeilings) ==
    [tierCeilings |-> tierCeilings, categoryCeilings |-> categoryCeilings,
     mediumMinScore |-> 1, highMinScore |-> 30, hardEscalation |-> 8,
     blendedWeight |-> 7, maxSingleWeight |-> 3, chains |-> DefaultChains]
=============================================================================
