---------------------------- MODULE DealRecords ----------------------------
(***************************************************************************)
(* The documents of a deal - the quotation, its approval, its order - and  *)
(* what each HTTP handler does to a document it holds in memory.  Nothing  *)
(* here is a state: Deal runs the handlers one at a time, DealRequests     *)
(* runs them with a step per database access.                              *)
(*                                                                         *)
(* A definition marked "Fault" belongs to no specification: it is the      *)
(* definition after it with a mistake in it, kept to show that a property  *)
(* would notice.                                                           *)
(*                                                                         *)
(* Line contents, prices and ceilings are abstracted to the members of     *)
(* Terms and Configs; Assess is the risk engine applied to them.           *)
(***************************************************************************)
EXTENDS Naturals, Sequences, FiniteSets

CONSTANTS
    Quotations,   \* quotation ids
    Approvals,    \* approval ids that may be allocated
    Orders,       \* order ids that may be allocated
    Terms,        \* what the lines of a quotation may say: quantities, discounts
    NoLines,      \* a quotation without a line
    Configs,      \* saved discount governance configurations
    Assess,       \* [Configs -> [Terms \cup {NoLines} -> Risk]]
    Roles,        \* roles a configured chain may name
    None          \* an absent reference

Stage == {"DRAFT", "PENDING_APPROVAL", "APPROVED", "NEGOTIATION", "CONFIRMED", "REJECTED"}
ApprovalStatus == {"NOT_REQUIRED", "PENDING", "APPROVED", "RETURNED", "REJECTED"}
StepStatus == {"PENDING", "ACTIVE", "APPROVED", "RETURNED", "REJECTED", "SKIPPED"}
RiskLevel == {"NONE", "LOW", "MEDIUM", "HIGH"}

AllTerms == Terms \cup {NoLines}
Risk == [score: Nat, level: RiskLevel, chain: Seq(Roles)]

ASSUME AssessType == Assess \in [Configs -> [AllTerms -> Risk]]
ASSUME NoneIsNoId == None \notin Quotations \cup Approvals \cup Orders \cup Configs
ASSUME NoneIsNoRole == None \notin Roles
ASSUME NoLinesIsNoTerms == NoLines \notin Terms

(* OPEN quotations are the ones a configuration change scores again.       *)
OpenStages == {"DRAFT", "PENDING_APPROVAL", "NEGOTIATION", "APPROVED"}
ConvertibleStages == {"APPROVED", "NEGOTIATION"}
ClosedToCustomer == {"DRAFT", "CONFIRMED", "REJECTED"}
DecisionRoles == {"ADMIN", "SALES_MANAGER", "FINANCE"}

Quote ==
    [stage: Stage, terms: AllTerms, risk: Risk, version: Nat,
     approval: Approvals \cup {None}, order: Orders \cup {None}]

(* `active` is the code's currentStepIndex plus one, so 0 is its -1.       *)
Step == [role: Roles, status: StepStatus]
Approval ==
    [quotation: Quotations, status: ApprovalStatus, steps: Seq(Step),
     active: Nat, reEntered: BOOLEAN, risk: Risk]

Order == [quotation: Quotations, terms: AllTerms]

ASSUME NoneIsNoDocument == None \notin Quote \cup Approval \cup Order

---------------------------------------------------------------------------
(* The quotation handlers.                                                 *)

NewQuote(c) ==
    [stage |-> "DRAFT", terms |-> NoLines, risk |-> Assess[c][NoLines],
     version |-> 1, approval |-> None, order |-> None]

Bumped(quote) == [quote EXCEPT !.version = @ + 1]

(* Re-pricing the lines t under configuration c and storing their score.   *)
Edited(quote, t, c) ==
    [quote EXCEPT !.terms = t, !.risk = Assess[c][t], !.version = @ + 1]

IsAutoApproved(risk) == risk.chain = <<>>

(* A configuration change leaves a quotation alone when neither its score  *)
(* nor its level moved - whatever else about its chain did.                *)
ScoreMoved(quote, c) ==
    LET risk == Assess[c][quote.terms]
    IN  \/ risk.score # quote.risk.score
        \/ risk.level # quote.risk.level

Waived(quote, risk) == quote.stage = "PENDING_APPROVAL" /\ IsAutoApproved(risk)

(* What a configuration change makes of an open quotation whose score      *)
(* moved: one that needs nobody any more stops waiting.                    *)
Reconfigured(quote, c) ==
    LET risk == Assess[c][quote.terms]
    IN  [quote EXCEPT !.risk = risk, !.version = @ + 1,
                      !.stage = IF Waived(quote, risk) THEN "APPROVED" ELSE @]

Submitted(quote, a, c) ==
    LET risk == Assess[c][quote.terms]
    IN  [quote EXCEPT !.risk = risk, !.approval = a, !.version = @ + 1,
                      !.stage = IF IsAutoApproved(risk) THEN "APPROVED"
                                                        ELSE "PENDING_APPROVAL"]

(* A counter-offer within the limits leaves the approval reference alone.  *)
Countered(quote, t, a, c) ==
    LET risk == Assess[c][t]
    IN  IF IsAutoApproved(risk)
        THEN [quote EXCEPT !.terms = t, !.risk = risk, !.version = @ + 1,
                           !.stage = "NEGOTIATION"]
        ELSE [quote EXCEPT !.terms = t, !.risk = risk, !.version = @ + 1,
                           !.stage = "PENDING_APPROVAL", !.approval = a]

(* Fault: the order is not recorded in its quotation.                      *)
Confirmed_NoReference(quote, o) ==
    [quote EXCEPT !.stage = "CONFIRMED", !.version = @ + 1]
Confirmed(quote, o) ==
    [quote EXCEPT !.order = o, !.stage = "CONFIRMED", !.version = @ + 1]

---------------------------------------------------------------------------
(* The approval handlers.                                                  *)

OpenSteps(chain) ==
    [i \in 1..Len(chain) |->
        [role |-> chain[i], status |-> IF i = 1 THEN "ACTIVE" ELSE "PENDING"]]

NewApproval(q, risk) ==
    [quotation |-> q, status |-> "PENDING", steps |-> <<>>, active |-> 1,
     reEntered |-> FALSE, risk |-> risk]

SubmittedApproval(a, risk) ==
    IF IsAutoApproved(risk)
    THEN [a EXCEPT !.risk = risk, !.status = "NOT_REQUIRED", !.steps = <<>>, !.active = 0]
    ELSE [a EXCEPT !.risk = risk, !.status = "PENDING", !.steps = OpenSteps(risk.chain),
                   !.active = 1, !.reEntered = FALSE]

ReopenedApproval(a, risk) ==
    [a EXCEPT !.risk = risk, !.status = "PENDING", !.steps = OpenSteps(risk.chain),
              !.active = 1, !.reEntered = TRUE]

(* assertActiveStepRole: only the role holding the active step, or an      *)
(* administrator, may decide.                                              *)
MayDecide(a, role) ==
    /\ a.status = "PENDING"
    /\ a.active \in DOMAIN a.steps
    /\ a.steps[a.active].status = "ACTIVE"
    /\ role \in {a.steps[a.active].role, "ADMIN"}

(* Fault: the first approval finishes the chain.                           *)
IsLastStep_AfterOne(a) == TRUE
IsLastStep(a) == a.active + 1 \notin DOMAIN a.steps

WithStatus(steps, i, status) == [steps EXCEPT ![i].status = status]

(* Fault: the index moves on, the next step stays waiting.                 *)
ApprovedStep_NextWaits(a) ==
    LET steps == WithStatus(a.steps, a.active, "APPROVED")
    IN  IF IsLastStep(a)
        THEN [a EXCEPT !.steps = steps, !.status = "APPROVED", !.active = 0]
        ELSE [a EXCEPT !.steps = steps, !.active = @ + 1]

ApprovedStep(a) ==
    LET steps == WithStatus(a.steps, a.active, "APPROVED")
    IN  IF IsLastStep(a)
        THEN [a EXCEPT !.steps = steps, !.status = "APPROVED", !.active = 0]
        ELSE [a EXCEPT !.steps = WithStatus(steps, a.active + 1, "ACTIVE"), !.active = @ + 1]

ReturnedStep(a) ==
    [a EXCEPT !.steps = WithStatus(@, a.active, "RETURNED"), !.status = "RETURNED", !.active = 0]

(* The steps that were still to come are skipped.                          *)
StatusAfterReject(a, i) ==
    IF i = a.active THEN "REJECTED"
    ELSE IF a.steps[i].status = "PENDING" THEN "SKIPPED" ELSE a.steps[i].status

RejectedStep(a) ==
    [a EXCEPT !.steps = [i \in DOMAIN @ |-> [@[i] EXCEPT !.status = StatusAfterReject(a, i)]],
              !.status = "REJECTED", !.active = 0]

(* What a configuration change writes to the pending approval: it closes   *)
(* it, or shows it the new score.  The steps stay as they were.            *)
WaivedApproval(a, risk) == [a EXCEPT !.status = "NOT_REQUIRED", !.active = 0, !.risk = risk]
RescoredApproval(a, risk) == [a EXCEPT !.risk = risk]

(* Fault: the update stores the approval's status as the stage.            *)
Decided_ApprovalStatus(quote, stage) ==
    [quote EXCEPT !.stage = IF stage = "DRAFT" THEN "RETURNED" ELSE stage,
                  !.version = @ + 1]

(* The quotation a decided approval writes.                                *)
Decided(quote, stage) == [quote EXCEPT !.stage = stage, !.version = @ + 1]
============================================================================
