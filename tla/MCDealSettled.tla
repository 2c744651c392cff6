--------------------------- MODULE MCDealSettled ----------------------------
(* DealSettled for TLC, with the constants of MCDealRequests.              *)
EXTENDS DealSettled, MCDealRequests
=============================================================================
