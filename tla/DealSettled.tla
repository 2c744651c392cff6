---------------------------- MODULE DealSettled ----------------------------
(***************************************************************************)
(* What a user sees of DealRequests when handlers do not overlap: the      *)
(* collections as they were when no handler was under way.  Seen that way, *)
(* every handler is one step of Deal.                                      *)
(***************************************************************************)
EXTENDS DealRequests

VARIABLES
    settled,   \* the collections when last no handler was under way
    steady     \* no configuration but the first was ever saved

Collections ==
    [quotation |-> quotation, approval |-> approval, order |-> order, config |-> config]

SettledInit == Init /\ settled = Collections /\ steady = TRUE

SettledNext ==
    /\ Next
    /\ settled' = IF Busy' = {} THEN Collections' ELSE settled
    /\ steady' = (steady /\ config' = config)

SettledSpec == SettledInit /\ [][SettledNext]_<<vars, settled, steady>>

(* Node always runs the continuation of an access that was answered.       *)
FairSettledSpec == SettledSpec /\ \A r \in Requests : WF_vars(Continue(r))

Serial == INSTANCE Deal WITH
    quotation <- settled.quotation, approval <- settled.approval,
    order <- settled.order, config <- settled.config

(* One handler at a time, reading, writing the approval and then the       *)
(* quotation, does to the collections exactly what one action of Deal      *)
(* does: nothing of a handler is lost or repeated between its accesses.    *)
ImplementsDeal == Serial!Spec

(* USER_FLOWS.md:1104, an approval that is Approved means "Everyone who had *)
(* to sign off has": as long as nobody changed the configuration, what a   *)
(* customer may confirm needs nobody or has an approved step for each role *)
(* that its terms need.                                                    *)
ApprovedMeansSignedOff ==
    (Busy = {} /\ steady) =>
        \A q \in Quotations :
            (Exists(q) /\ quotation[q].stage \in ConvertibleStages) =>
                LET quote == quotation[q]
                    steps == approval[quote.approval].steps
                IN  \/ IsAutoApproved(quote.risk)
                    \/ \A i \in DOMAIN quote.risk.chain :
                          \E j \in DOMAIN steps :
                              steps[j] = [role |-> quote.risk.chain[i], status |-> "APPROVED"]

(* A review can always be finished, and a finished one was one.            *)
ReviewIsReal == AdminMayActOnPending /\ ApprovedMeansSignedOff
=============================================================================
