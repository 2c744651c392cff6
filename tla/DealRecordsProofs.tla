-------------------------- MODULE DealRecordsProofs --------------------------
(***************************************************************************)
(* What every handler of DealRecords makes of a document it is given: its  *)
(* type and its fields.  Both the proofs about Deal and those about        *)
(* DealRequests build on these.                                            *)
(***************************************************************************)
EXTENDS DealRecords, TLAPS

---------------------------------------------------------------------------
(* The types of what the handlers return.                                  *)

(* An assessment is a risk, and so is that of a quotation without lines.   *)
LEMMA AssessIsRisk ==
    \A c \in Configs, t \in AllTerms : Assess[c][t] \in Risk
BY AssessType

(* The quotation a handler leaves: a Quote with these fields.              *)
QuoteFields(quote, stage, terms, risk, version, a, o) ==
    /\ quote \in Quote
    /\ quote.stage = stage /\ quote.terms = terms /\ quote.risk = risk
    /\ quote.version = version /\ quote.approval = a /\ quote.order = o

(* An edit of the notes.                                                   *)
LEMMA BumpedFields ==
    ASSUME NEW quote \in Quote
    PROVE  QuoteFields(Bumped(quote), quote.stage, quote.terms, quote.risk,
                       quote.version + 1, quote.approval, quote.order)
<1>1. \A v \in Nat : [quote EXCEPT !.version = v] \in Quote
    BY DEF Quote
<1>2. Bumped(quote) \in Quote
    BY <1>1 DEF Bumped, Quote
<1>. QED
    BY <1>2 DEF Bumped, QuoteFields, Quote

(* An edit of the lines.                                                   *)
LEMMA EditedFields ==
    ASSUME NEW quote \in Quote, NEW t \in AllTerms, NEW c \in Configs
    PROVE  QuoteFields(Edited(quote, t, c), quote.stage, t, Assess[c][t],
                       quote.version + 1, quote.approval, quote.order)
<1>1. \A v \in Nat, r \in Risk :
         [quote EXCEPT !.terms = t, !.risk = r, !.version = v] \in Quote
    BY DEF Quote
<1>2. quote.version + 1 \in Nat /\ Assess[c][t] \in Risk
    BY AssessIsRisk DEF Quote
<1>3. Edited(quote, t, c) \in Quote
    BY <1>1, <1>2 DEF Edited
<1>. QED
    BY <1>3 DEF Edited, QuoteFields, Quote

(* A change of the configuration.                                          *)
LEMMA ReconfiguredFields ==
    ASSUME NEW quote \in Quote, NEW c \in Configs
    PROVE  QuoteFields(Reconfigured(quote, c),
                       IF Waived(quote, Assess[c][quote.terms]) THEN "APPROVED" ELSE quote.stage,
                       quote.terms, Assess[c][quote.terms],
                       quote.version + 1, quote.approval, quote.order)
<1>1. \A v \in Nat, r \in Risk, s \in Stage :
         [quote EXCEPT !.risk = r, !.version = v, !.stage = s] \in Quote
    BY DEF Quote
<1>2. /\ quote.version + 1 \in Nat /\ Assess[c][quote.terms] \in Risk
      /\ quote.stage \in Stage /\ "APPROVED" \in Stage
    BY AssessIsRisk DEF Quote, Stage
<1>3. Reconfigured(quote, c) \in Quote
    BY <1>1, <1>2 DEF Reconfigured
<1>. QED
    BY <1>3 DEF Reconfigured, QuoteFields, Quote

(* A submission.                                                           *)
LEMMA SubmittedFields ==
    ASSUME NEW quote \in Quote, NEW a \in Approvals, NEW c \in Configs
    PROVE  QuoteFields(Submitted(quote, a, c),
                       IF IsAutoApproved(Assess[c][quote.terms])
                       THEN "APPROVED" ELSE "PENDING_APPROVAL",
                       quote.terms, Assess[c][quote.terms], quote.version + 1, a, quote.order)
<1>1. \A v \in Nat, r \in Risk, s \in Stage :
         [quote EXCEPT !.risk = r, !.approval = a, !.version = v, !.stage = s] \in Quote
    BY DEF Quote
<1>2. /\ quote.version + 1 \in Nat /\ Assess[c][quote.terms] \in Risk
      /\ "APPROVED" \in Stage /\ "PENDING_APPROVAL" \in Stage
    BY AssessIsRisk DEF Quote, Stage
<1>3. Submitted(quote, a, c) \in Quote
    BY <1>1, <1>2 DEF Submitted
<1>. QED
    BY <1>3 DEF Submitted, QuoteFields, Quote

(* A counter-offer within the limits, whatever approval it is given.       *)
LEMMA CounteredWithinFields ==
    ASSUME NEW quote \in Quote, NEW t \in AllTerms, NEW a, NEW c \in Configs,
           IsAutoApproved(Assess[c][t])
    PROVE  QuoteFields(Countered(quote, t, a, c), "NEGOTIATION", t, Assess[c][t],
                       quote.version + 1, quote.approval, quote.order)
<1>1. \A v \in Nat, r \in Risk, s \in Stage :
         [quote EXCEPT !.terms = t, !.risk = r, !.version = v, !.stage = s] \in Quote
    BY DEF Quote
<1>2. quote.version + 1 \in Nat /\ Assess[c][t] \in Risk /\ "NEGOTIATION" \in Stage
    BY AssessIsRisk DEF Quote, Stage
<1>3. Countered(quote, t, a, c) \in Quote
    BY <1>1, <1>2 DEF Countered
<1>. QED
    BY <1>3 DEF Countered, QuoteFields, Quote

(* A counter-offer over the limits.                                        *)
LEMMA CounteredOverFields ==
    ASSUME NEW quote \in Quote, NEW t \in AllTerms, NEW a \in Approvals, NEW c \in Configs,
           ~IsAutoApproved(Assess[c][t])
    PROVE  QuoteFields(Countered(quote, t, a, c), "PENDING_APPROVAL", t, Assess[c][t],
                       quote.version + 1, a, quote.order)
<1>1. \A v \in Nat, r \in Risk, s \in Stage :
         [quote EXCEPT !.terms = t, !.risk = r, !.version = v, !.stage = s,
                       !.approval = a] \in Quote
    BY DEF Quote
<1>2. quote.version + 1 \in Nat /\ Assess[c][t] \in Risk /\ "PENDING_APPROVAL" \in Stage
    BY AssessIsRisk DEF Quote, Stage
<1>3. Countered(quote, t, a, c) \in Quote
    BY <1>1, <1>2 DEF Countered
<1>. QED
    BY <1>3 DEF Countered, QuoteFields, Quote

(* A conversion to an order.                                               *)
LEMMA ConfirmedFields ==
    ASSUME NEW quote \in Quote, NEW o \in Orders
    PROVE  QuoteFields(Confirmed(quote, o), "CONFIRMED", quote.terms, quote.risk,
                       quote.version + 1, quote.approval, o)
<1>1. \A v \in Nat, s \in Stage : [quote EXCEPT !.order = o, !.stage = s, !.version = v] \in Quote
    BY DEF Quote
<1>2. quote.version + 1 \in Nat /\ "CONFIRMED" \in Stage
    BY DEF Quote, Stage
<1>3. Confirmed(quote, o) \in Quote
    BY <1>1, <1>2 DEF Confirmed
<1>. QED
    BY <1>3 DEF Confirmed, QuoteFields, Quote

(* A decision.                                                             *)
LEMMA DecidedFields ==
    ASSUME NEW quote \in Quote, NEW s \in Stage
    PROVE  QuoteFields(Decided(quote, s), s, quote.terms, quote.risk,
                       quote.version + 1, quote.approval, quote.order)
<1>1. \A v \in Nat : [quote EXCEPT !.stage = s, !.version = v] \in Quote
    BY DEF Quote
<1>2. quote.version + 1 \in Nat
    BY DEF Quote
<1>3. Decided(quote, s) \in Quote
    BY <1>1, <1>2 DEF Decided
<1>. QED
    BY <1>3 DEF Decided, QuoteFields, Quote

(* A new quotation is a quotation.                                         *)
LEMMA NewQuoteType ==
    ASSUME NEW c \in Configs
    PROVE  NewQuote(c) \in Quote
<1>1. NoLines \in AllTerms
    BY DEF AllTerms
<1>. QED
    BY <1>1, AssessIsRisk DEF NewQuote, Quote, Stage

(* A function on 1..n is a sequence.                                       *)
LEMMA FunctionIsSequence ==
    ASSUME NEW S, NEW n \in Nat, NEW f \in [1..n -> S]
    PROVE  f \in Seq(S) /\ Len(f) = n /\ DOMAIN f = 1..n
OBVIOUS

(* An approval whose steps are taken from S.  The steps of an Approval are *)
(* Steps; handlers that overlap may leave others, to which the same        *)
(* lemmas apply: S only has to have the Steps and be closed under a change *)
(* of the status.                                                          *)
ApprovalOver(S) ==
    [quotation: Quotations, status: ApprovalStatus, steps: Seq(S),
     active: Nat, reEntered: BOOLEAN, risk: Risk]

StepsLike(S) ==
    /\ Step \subseteq S
    /\ \A e \in S : \A st \in StepStatus \cup {e.status} : [e EXCEPT !.status = st] \in S

LEMMA ApprovalsHaveSteps ==
    Approval = ApprovalOver(Step) /\ StepsLike(Step)
<1>1. \A e \in Step : \A st \in StepStatus \cup {e.status} : [e EXCEPT !.status = st] \in Step
    BY DEF Step
<1>. QED
    BY <1>1 DEF Approval, ApprovalOver, StepsLike

(* A chain opens as one step per role.                                     *)
LEMMA OpenStepsType ==
    ASSUME NEW chain \in Seq(Roles)
    PROVE  /\ OpenSteps(chain) \in Seq(Step)
           /\ DOMAIN OpenSteps(chain) = DOMAIN chain
<1>1. OpenSteps(chain) \in [1..Len(chain) -> Step] /\ Len(chain) \in Nat
    BY DEF OpenSteps, Step, StepStatus
<1>. QED
    BY <1>1, FunctionIsSequence

(* Steps of a subset are steps.                                            *)
LEMMA MoreSteps ==
    ASSUME NEW S, NEW T, S \subseteq T, NEW steps \in Seq(S)
    PROVE  steps \in Seq(T)
<1>1. steps \in [1..Len(steps) -> T] /\ Len(steps) \in Nat
    OBVIOUS
<1>. QED
    BY <1>1, FunctionIsSequence

(* A status is written to one step, and to nothing else.                   *)
LEMMA WithStatusType ==
    ASSUME NEW S, StepsLike(S), NEW steps \in Seq(S), NEW i \in DOMAIN steps, NEW st \in StepStatus
    PROVE  /\ WithStatus(steps, i, st) \in Seq(S)
           /\ DOMAIN WithStatus(steps, i, st) = DOMAIN steps
<1>. DEFINE e == [steps[i] EXCEPT !.status = st]
<1>1. steps \in [1..Len(steps) -> S] /\ i \in 1..Len(steps) /\ Len(steps) \in Nat
    OBVIOUS
<1>2. e \in S
    BY <1>1 DEF StepsLike
<1>3. WithStatus(steps, i, st) = [steps EXCEPT ![i] = e]
    BY DEF WithStatus
<1>. HIDE DEF e
<1>4. [steps EXCEPT ![i] = e] \in [1..Len(steps) -> S]
    BY <1>1, <1>2
<1>. QED
    BY <1>1, <1>2, <1>3, <1>4, FunctionIsSequence

(* An approval whose steps, status and active step are replaced.           *)
Closed(doc, steps, status, active) ==
    [doc EXCEPT !.steps = steps, !.status = status, !.active = active]

LEMMA ClosedApproval ==
    ASSUME NEW S, NEW doc \in ApprovalOver(S), NEW steps \in Seq(S),
           NEW status \in ApprovalStatus, NEW active \in Nat, NEW after,
           after = Closed(doc, steps, status, active)
    PROVE  /\ after \in ApprovalOver(S) /\ after.steps = steps
           /\ after.quotation = doc.quotation /\ after.risk = doc.risk
           /\ after.reEntered = doc.reEntered
BY DEF ApprovalOver, Closed

(* An approval that moves to another step.                                 *)
Advanced(doc, steps, active) == [doc EXCEPT !.steps = steps, !.active = active]

LEMMA AdvancedApproval ==
    ASSUME NEW S, NEW doc \in ApprovalOver(S), NEW steps \in Seq(S), NEW active \in Nat,
           NEW after, after = Advanced(doc, steps, active)
    PROVE  /\ after \in ApprovalOver(S) /\ after.steps = steps
           /\ after.quotation = doc.quotation /\ after.risk = doc.risk
           /\ after.reEntered = doc.reEntered
BY DEF ApprovalOver, Advanced

(* A rejection writes the steps it finds, and adds or drops none.          *)
LEMMA RejectedStepsType ==
    ASSUME NEW S, StepsLike(S), NEW doc \in ApprovalOver(S),
           NEW steps, steps = [i \in DOMAIN doc.steps |->
                                  [doc.steps[i] EXCEPT !.status = StatusAfterReject(doc, i)]]
    PROVE  steps \in Seq(S) /\ DOMAIN steps = DOMAIN doc.steps
<1>1. /\ doc.steps \in [1..Len(doc.steps) -> S] /\ Len(doc.steps) \in Nat
      /\ DOMAIN doc.steps = 1..Len(doc.steps)
    BY DEF ApprovalOver
<1>2. \A i \in 1..Len(doc.steps) :
         StatusAfterReject(doc, i) \in StepStatus \cup {doc.steps[i].status}
    BY DEF StepStatus, StatusAfterReject
<1>3. \A i \in 1..Len(doc.steps) :
         [doc.steps[i] EXCEPT !.status = StatusAfterReject(doc, i)] \in S
    BY <1>1, <1>2 DEF StepsLike
<1>4. steps \in [1..Len(doc.steps) -> S]
    BY <1>1, <1>3
<1>. QED
    BY <1>1, <1>4, FunctionIsSequence

(* What a decision makes of an approval is an approval with as many steps, *)
(* of the same quotation and risk.                                         *)
LEMMA DecisionsOver ==
    ASSUME NEW S, StepsLike(S), NEW doc \in ApprovalOver(S), doc.active \in DOMAIN doc.steps,
           NEW after \in {ApprovedStep(doc), ReturnedStep(doc), RejectedStep(doc)}
    PROVE  /\ after \in ApprovalOver(S)
           /\ DOMAIN after.steps = DOMAIN doc.steps
           /\ after.quotation = doc.quotation
           /\ after.risk = doc.risk
           /\ after.reEntered = doc.reEntered
<1>. DEFINE s == WithStatus(doc.steps, doc.active, "APPROVED")
            u == WithStatus(s, doc.active + 1, "ACTIVE")
            r == WithStatus(doc.steps, doc.active, "RETURNED")
            x == [i \in DOMAIN doc.steps |->
                     [doc.steps[i] EXCEPT !.status = StatusAfterReject(doc, i)]]
<1>1. doc.steps \in Seq(S) /\ doc.active \in Nat /\ doc.active + 1 \in Nat
    BY DEF ApprovalOver
<1>2. /\ s \in Seq(S) /\ DOMAIN s = DOMAIN doc.steps
      /\ r \in Seq(S) /\ DOMAIN r = DOMAIN doc.steps
    BY WithStatusType, <1>1 DEF StepStatus
<1>3. ~IsLastStep(doc) => u \in Seq(S) /\ DOMAIN u = DOMAIN doc.steps
    BY WithStatusType, <1>1, <1>2 DEF StepStatus, IsLastStep
<1>4. x \in Seq(S) /\ DOMAIN x = DOMAIN doc.steps
    BY RejectedStepsType
<1>. HIDE DEF s, u, r, x
<1>6. CASE after = ApprovedStep(doc) /\ IsLastStep(doc)
    <2>1. after = Closed(doc, s, "APPROVED", 0) /\ "APPROVED" \in ApprovalStatus /\ 0 \in Nat
        BY <1>6 DEF ApprovedStep, Closed, ApprovalStatus, s
    <2>. QED
        BY ONLY <2>1, <1>2, ClosedApproval, doc \in ApprovalOver(S)
<1>7. CASE after = ApprovedStep(doc) /\ ~IsLastStep(doc)
    <2>1. after = Advanced(doc, u, doc.active + 1)
        BY <1>7 DEF ApprovedStep, Advanced, s, u
    <2>2. u \in Seq(S) /\ DOMAIN u = DOMAIN doc.steps /\ doc.active + 1 \in Nat
        BY ONLY <1>1, <1>3, <1>7
    <2>. HIDE DEF u
    <2>. QED
        BY ONLY <2>1, <2>2, AdvancedApproval, doc \in ApprovalOver(S)
<1>8. CASE after = ReturnedStep(doc)
    <2>1. after = Closed(doc, r, "RETURNED", 0) /\ "RETURNED" \in ApprovalStatus /\ 0 \in Nat
        BY <1>8 DEF ReturnedStep, Closed, ApprovalStatus, r
    <2>. QED
        BY ONLY <2>1, <1>2, ClosedApproval, doc \in ApprovalOver(S)
<1>9. CASE after = RejectedStep(doc)
    <2>1. after = Closed(doc, x, "REJECTED", 0) /\ "REJECTED" \in ApprovalStatus /\ 0 \in Nat
        BY <1>9 DEF RejectedStep, Closed, ApprovalStatus, x
    <2>. QED
        BY ONLY <2>1, <1>4, ClosedApproval, doc \in ApprovalOver(S)
<1>. QED
    BY <1>6, <1>7, <1>8, <1>9

LEMMA DecisionHandlers ==
    ASSUME NEW doc \in Approval, doc.active \in DOMAIN doc.steps
    PROVE  /\ ApprovedStep(doc) \in Approval
           /\ ReturnedStep(doc) \in Approval
           /\ RejectedStep(doc) \in Approval
BY DecisionsOver, ApprovalsHaveSteps

(* What the other handlers make of an approval is an approval, of the same *)
(* quotation.                                                              *)
LEMMA HandlersOver ==
    ASSUME NEW S, StepsLike(S), NEW doc \in ApprovalOver(S), NEW risk \in Risk,
           NEW after \in {SubmittedApproval(doc, risk), ReopenedApproval(doc, risk),
                          WaivedApproval(doc, risk), RescoredApproval(doc, risk)}
    PROVE  /\ after \in ApprovalOver(S)
           /\ after.quotation = doc.quotation
<1>. DEFINE s == OpenSteps(risk.chain)
<1>1. s \in Seq(S) /\ <<>> \in Seq(S)
    BY OpenStepsType, MoreSteps DEF Risk, StepsLike
<1>. HIDE DEF s
<1>2. \A steps \in Seq(S), status \in ApprovalStatus, active \in Nat, re \in BOOLEAN :
         LET opened == [doc EXCEPT !.risk = risk, !.status = status, !.steps = steps,
                                   !.active = active, !.reEntered = re]
             waived == [doc EXCEPT !.risk = risk, !.status = status, !.steps = steps,
                                   !.active = active]
         IN  /\ opened \in ApprovalOver(S) /\ opened.quotation = doc.quotation
             /\ waived \in ApprovalOver(S) /\ waived.quotation = doc.quotation
    BY ZenonT(40) DEF ApprovalOver
<1>3. CASE after = SubmittedApproval(doc, risk)
    BY <1>1, <1>2, <1>3, ZenonT(40) DEF SubmittedApproval, ApprovalStatus, s
<1>4. CASE after = ReopenedApproval(doc, risk)
    BY <1>1, <1>2, <1>4 DEF ReopenedApproval, ApprovalStatus, s
<1>5. CASE after = WaivedApproval(doc, risk)
    BY <1>5 DEF WaivedApproval, ApprovalOver, ApprovalStatus
<1>6. CASE after = RescoredApproval(doc, risk)
    BY <1>6 DEF RescoredApproval, ApprovalOver
<1>. QED
    BY <1>3, <1>4, <1>5, <1>6

LEMMA ApprovalHandlers ==
    ASSUME NEW doc \in Approval, NEW risk \in Risk
    PROVE  /\ SubmittedApproval(doc, risk) \in Approval
           /\ ReopenedApproval(doc, risk) \in Approval
           /\ WaivedApproval(doc, risk) \in Approval
           /\ RescoredApproval(doc, risk) \in Approval
BY HandlersOver, ApprovalsHaveSteps

(* A new approval is an approval.                                          *)
LEMMA NewApprovalType ==
    ASSUME NEW q \in Quotations, NEW risk \in Risk
    PROVE  NewApproval(q, risk) \in Approval
BY DEF NewApproval, Approval, ApprovalStatus
=============================================================================
