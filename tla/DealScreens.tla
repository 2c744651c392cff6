---------------------------- MODULE DealScreens ----------------------------
(***************************************************************************)
(* The screens a deal goes through: which buttons the quotation page, the  *)
(* approval page and the customer's page offer in the states of Deal, and  *)
(* which of them the API accepts from that role.  A page is taken to show  *)
(* the deal as it is and to hold no unsaved changes; LiveTab has the pages *)
(* that do not.                                                            *)
(***************************************************************************)
EXTENDS Deal

InternalRoles == {"ADMIN", "SALES_REP", "SALES_MANAGER", "FINANCE"}

(* QUOTATION_WRITE_ROLES *)
WriteRoles == {"ADMIN", "SALES_REP", "SALES_MANAGER"}

(* FINANCE_QUOTATION_STAGES *)
FinanceStages == {"APPROVED", "NEGOTIATION", "CONFIRMED"}

KanbanStages == {"DRAFT", "PENDING_APPROVAL", "APPROVED", "NEGOTIATION", "CONFIRMED"}

---------------------------------------------------------------------------
(* What the lists show, by role.                                           *)

(* quotationScopeFor: finance sees what cleared approval.                  *)
QuotationListed(quote, role) == role # "FINANCE" \/ quote.stage \in FinanceStages

(* applyStageFilter: the rows of GET /quotations?stage=, an unseen stage   *)
(* asked for gives none.                                                   *)
ListedInStage(stage, role) ==
    {q \in Quotations : /\ Exists(q)
                        /\ QuotationListed(quotation[q], role)
                        /\ quotation[q].stage = stage}

(* visibleStagesFor: the columns of the board.                             *)
BoardColumns(role) ==
    {stage \in KanbanStages : role # "FINANCE" \/ stage \in FinanceStages}

(* GET /quotations/board: the cards of each column.                        *)
Board(role) == [stage \in BoardColumns(role) |-> ListedInStage(stage, role)]

(* approvalScopeFor: finance sees the approvals whose finance step was     *)
(* reached.                                                                *)
Activated == {"ACTIVE", "APPROVED", "RETURNED", "REJECTED"}
ApprovalListed(doc, role) ==
    role # "FINANCE" \/ \E step \in {doc.steps[i] : i \in DOMAIN doc.steps} :
                            step.role = "FINANCE" /\ step.status \in Activated

(* GET /approvals, and with ?assignedToMe=true                             *)
ApprovalQueue(role) ==
    {a \in Approvals : approval[a] # None /\ ApprovalListed(approval[a], role)}
OnMyDesk(role) ==
    {a \in ApprovalQueue(role) :
        /\ approval[a].status = "PENDING"
        /\ approval[a].active \in DOMAIN approval[a].steps
        /\ approval[a].steps[approval[a].active].role = role}

---------------------------------------------------------------------------
(* What the pages offer.                                                   *)

(* QuotationListPage.canCreate *)
CanCreate(role) == role \in WriteRoles

Editable(quote) == quote.stage = "DRAFT"
CanReissue(quote) == quote.stage \notin {"DRAFT", "REJECTED"}

HeaderOffers(quote) ==
    IF Editable(quote)
    THEN {"save"} \cup {op \in {"submit"} : quote.terms # NoLines}
    ELSE {op \in {"reissue"} : CanReissue(quote)}

LineTableOffers(quote) ==
    {op \in {"set quantity", "set discount", "remove"} : Editable(quote) /\ quote.terms # NoLines}

AddOffers(quote) == {op \in {"add product"} : Editable(quote)}

SuggestionOffers(quote) ==
    {op \in {"add suggestion", "dismiss"} : Editable(quote) /\ quote.terms # NoLines}

(* The quotation page offers every internal role the same.                 *)
QuotationPage(quote) ==
    HeaderOffers(quote) \cup LineTableOffers(quote) \cup AddOffers(quote) \cup SuggestionOffers(quote)

(* ApprovalDetailPage.canAct.  Fault: it does not look at the role, as it  *)
(* once did not.                                                           *)
CanAct_AnyRole(doc, role) ==
    /\ doc.status = "PENDING"
    /\ doc.active \in DOMAIN doc.steps
    /\ doc.steps[doc.active].status = "ACTIVE"
CanAct(doc, role) ==
    /\ doc.status = "PENDING"
    /\ doc.active \in DOMAIN doc.steps
    /\ doc.steps[doc.active].status = "ACTIVE"
    /\ role = "ADMIN" \/ role = doc.steps[doc.active].role

WaitingOnSomeoneElse(doc, role) == doc.status = "PENDING" /\ ~CanAct(doc, role)

DecisionOffers(doc, role) == {op \in {"approve", "reject"} : CanAct(doc, role)}

ApprovalHeaderOffers(doc) == {op \in {"reissue"} : doc.status = "APPROVED"}

(* The route admits the roles that decide.                                 *)
ApprovalPage(doc, role) ==
    IF role \in DecisionRoles
    THEN ApprovalHeaderOffers(doc) \cup DecisionOffers(doc, role)
    ELSE {}

(* The dialog tells an approver that this approval is the last one.        *)
SaysFullyApproved(doc) == \A i \in DOMAIN doc.steps : doc.steps[i].status # "PENDING"

(* The stepper under the header: submitted, the chain, confirmed.          *)
StepShown(status) ==
    CASE status = "APPROVED" -> "done"
      [] status = "ACTIVE" -> "active"
      [] status \in {"REJECTED", "RETURNED"} -> "failed"
      [] OTHER -> "pending"
Stepper(doc) ==
    <<"done">> \o [i \in DOMAIN doc.steps |-> StepShown(doc.steps[i].status)]
               \o <<IF doc.status = "APPROVED" THEN "done" ELSE "pending">>

(* The customer's page of a quotation that left DRAFT, with a draft of a   *)
(* request typed.                                                          *)
PortalPage(quote) ==
    IF quote.stage = "DRAFT" THEN {}
    ELSE {"send"} \cup {op \in {"confirm"} : quote.stage \in ConvertibleStages}

---------------------------------------------------------------------------
(* What the handlers behind the buttons accept.                            *)

EditsOfTheBuilder ==
    {"save", "set quantity", "set discount", "remove", "add product", "add suggestion"}

AcceptsEdit(quote, role) == role \in WriteRoles /\ quote.stage = "DRAFT"

AcceptsSubmit(quote, role) ==
    role \in WriteRoles /\ quote.stage = "DRAFT" /\ quote.terms # NoLines

(* The company is taken to have an active portal contact.                  *)
AcceptsReissue(quote, role) == role \in WriteRoles /\ quote.stage \notin {"DRAFT", "REJECTED"}

AcceptsDecision(doc, role) == role \in DecisionRoles /\ MayDecide(doc, role)

AcceptsCounter(quote) == quote.stage \notin ClosedToCustomer

AcceptsConfirm(quote) == quote.stage \in ConvertibleStages

Accepted(op, quote, role) ==
    \/ op \in EditsOfTheBuilder /\ AcceptsEdit(quote, role)
    \/ op = "submit" /\ AcceptsSubmit(quote, role)
    \/ op = "reissue" /\ AcceptsReissue(quote, role)
    \/ op = "dismiss"

---------------------------------------------------------------------------
(* A deal that is not finished can always go on: someone finds it in their *)
(* list and its page offers them a step that the API accepts.              *)
GoesOn(quote) ==
    \/ \E role \in InternalRoles :
          /\ QuotationListed(quote, role)
          /\ \E op \in QuotationPage(quote) \ {"reissue", "dismiss"} : Accepted(op, quote, role)
    \/ /\ quote.approval # None
       /\ \E role \in DecisionRoles :
             LET doc == approval[quote.approval]
             IN  /\ quote.approval \in ApprovalQueue(role)
                 /\ DecisionOffers(doc, role) # {}
                 /\ AcceptsDecision(doc, role)
    \/ "confirm" \in PortalPage(quote) /\ AcceptsConfirm(quote)

(* An approver is offered exactly the decisions the API takes from them    *)
(* and finds them in their queue, and the dialog does not promise that the *)
(* quotation is through while a step is left.                              *)
QueueIsTrue(a) ==
    LET doc == approval[a]
    IN  \A role \in DecisionRoles :
        /\ CanAct(doc, role) <=> AcceptsDecision(doc, role)
        /\ (a \in OnMyDesk(role) \/ (role = "ADMIN" /\ doc.status = "PENDING")) <=> CanAct(doc, role)
        /\ CanAct(doc, role) =>
              /\ a \in ApprovalQueue(role)
              /\ SaysFullyApproved(doc) <=> IsLastStep(doc)
              /\ Stepper(doc)[doc.active + 1] = "active"

(* The screens serve every deal: no open one is left without a button that *)
(* works, no approver is misled, and the board shows a role exactly the    *)
(* unrejected quotations that its list does.                               *)
ScreensServeTheDeal ==
    /\ \A q \in Quotations :
          (Exists(q) /\ quotation[q].stage \in OpenStages) => GoesOn(quotation[q])
    /\ \A a \in Approvals : approval[a] # None => QueueIsTrue(a)
    /\ \A q \in Quotations, role \in InternalRoles :
          (Exists(q) /\ quotation[q].stage # "REJECTED") =>
              (QuotationListed(quotation[q], role)
                  <=> \E stage \in DOMAIN Board(role) : q \in Board(role)[stage])

(* enums/index.ts:20-22: the write roles exclude finance, "so the UI hides *)
(* the actions rather than offering a button that always 403s".  The       *)
(* quotation page asks for the stage only.                                 *)
OffersAreAccepted ==
    \A q \in Quotations, role \in InternalRoles :
        Exists(q) =>
            \A op \in QuotationPage(quotation[q]) : Accepted(op, quotation[q], role)

(* The customer's page lets a request be typed and sent whatever the       *)
(* stage, and the API refuses it once the quotation is closed.             *)
RequestsAreAccepted ==
    \A q \in Quotations :
        (Exists(q) /\ "send" \in PortalPage(quotation[q])) => AcceptsCounter(quotation[q])
=============================================================================
