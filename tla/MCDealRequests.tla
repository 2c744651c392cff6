--------------------------- MODULE MCDealRequests ---------------------------
(* DealRequests for TLC, over the quotations of GoldCustomer.              *)
EXTENDS DealRequests, GoldCustomer, TLC

CONSTANTS q1, a1, a2, o1, o2, r1, r2

MCQuotations == {q1}
MCApprovals == {a1, a2}
MCOrders == {o1, o2}
MCRequests == {r1, r2}
MCRoles == {"SALES_MANAGER", "FINANCE"}
MCTerms == {"slim", "mid"}
MCConfigs == {"usual", "tight"}
MCOneConfig == {"usual"}
MCTwoTerms == {"clean", "deep"}
MCThreeTerms == {"clean", "mid", "deep"}
MCOneTerm == {"mid"}
MCFarConfigs == {"loose", "tight"}

MCAssess == AssessOver(MCConfigs, MCTerms)
MCTwoTermsAssess == AssessOver(MCOneConfig, MCTwoTerms)
MCThreeTermsAssess == AssessOver(MCOneConfig, MCThreeTerms)
MCOneAssess == AssessOver(MCOneConfig, MCOneTerm)
MCFarAssess == AssessOver(MCFarConfigs, MCOneTerm)

Symmetry == Permutations(MCApprovals) \cup Permutations(MCOrders) \cup Permutations(MCRequests)
=============================================================================
