------------------------------- MODULE MCDeal -------------------------------
(* Deal and its screens for TLC, over the quotations of GoldCustomer.      *)
EXTENDS DealScreens, GoldCustomer, TLC

CONSTANTS q1, q2, a1, a2, o1, o2

MCQuotations == {q1, q2}
MCOneQuotation == {q1}
MCApprovals == {a1, a2}
MCOrders == {o1, o2}
MCRoles == {"SALES_MANAGER", "FINANCE"}
MCConfigs == {"loose", "usual", "tight"}
MCTwoConfigs == {"usual", "tight"}
MCTerms == {"slim", "mid"}

MCAssess == AssessOver(MCConfigs, MCTerms)
MCTwoConfigsAssess == AssessOver(MCTwoConfigs, MCTerms)

Symmetry == Permutations(MCQuotations) \cup Permutations(MCApprovals) \cup Permutations(MCOrders)
=============================================================================
