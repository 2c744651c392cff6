----------------------------- MODULE DealProofs -----------------------------
(***************************************************************************)
(* Proofs about Deal, for every set of quotations, approvals and orders,   *)
(* every risk assessment and every bound on the writes.                    *)
(*                                                                         *)
(* First type correctness, with the invariant it needs, then the other     *)
(* safety theorems and the action properties, and last what the screens    *)
(* of a deal owe its users.                                                *)
(***************************************************************************)
EXTENDS DealScreens, DealRecordsProofs

---------------------------------------------------------------------------
(* The inductive invariant.  Type correctness needs the rest of it: a      *)
(* quotation is submitted again, or countered, with the approval it refers *)
(* to, which has to exist.                                                 *)
DealInv == TypeOK /\ OneApprovalPerQuotation /\ StageAgreesWithApproval

(* A quotation that exists is a Quote, an approval that exists an Approval. *)
LEMMA Existing ==
    ASSUME TypeOK
    PROVE  /\ \A q \in Quotations : Exists(q) => quotation[q] \in Quote
           /\ \A a \in Approvals : approval[a] # None => approval[a] \in Approval
           /\ config \in Configs
BY DEF TypeOK, Exists

(* A step that writes one quotation and leaves the approvals alone keeps   *)
(* the invariant if the new quotation agrees with the same approval.       *)
LEMMA QuotationStep ==
    ASSUME DealInv, NEW q \in Quotations, NEW quote \in Quote,
           quotation' = [quotation EXCEPT ![q] = quote],
           approval' = approval,
           order' \in [Orders -> Order \cup {None}], config' \in Configs,
           Exists(q), quote.approval = quotation[q].approval,
           IF quote.approval = None THEN quote.stage = "DRAFT"
                                    ELSE Agrees(quote, approval[quote.approval])
    PROVE  DealInv'
<1>1. quote # None
    BY NoneIsNoDocument
<1>2. TypeOK'
    BY DEF DealInv, TypeOK
<1>3. \A p \in Quotations : quotation'[p] = IF p = q THEN quote ELSE quotation[p]
    BY DEF DealInv, TypeOK
<1>4. OneApprovalPerQuotation'
    BY <1>1, <1>3 DEF DealInv, OneApprovalPerQuotation, Exists
<1>5. StageAgreesWithApproval'
    BY <1>1, <1>3 DEF DealInv, StageAgreesWithApproval, Exists
<1>. QED
    BY <1>2, <1>4, <1>5 DEF DealInv

(* A step that writes one quotation and its approval keeps the invariant   *)
(* if the two agree afterwards.                                            *)
LEMMA ApprovalStep ==
    ASSUME DealInv, NEW q \in Quotations, NEW a \in Approvals,
           NEW quote \in Quote, NEW doc \in Approval,
           quotation' = [quotation EXCEPT ![q] = quote],
           approval' = [approval EXCEPT ![a] = doc],
           UNCHANGED <<order, config>>,
           Exists(q), quotation[q].approval \in {None, a},
           approval[a] # None => approval[a].quotation = q,
           quote.approval = a, doc.quotation = q, Agrees(quote, doc)
    PROVE  DealInv'
<1>1. quote # None /\ doc # None /\ a # None
    BY NoneIsNoDocument, NoneIsNoId
<1>2. TypeOK'
    BY DEF DealInv, TypeOK
<1>3. /\ \A p \in Quotations : quotation'[p] = IF p = q THEN quote ELSE quotation[p]
      /\ \A b \in Approvals : approval'[b] = IF b = a THEN doc ELSE approval[b]
    BY DEF DealInv, TypeOK
<1>4. OneApprovalPerQuotation'
    <2>. SUFFICES ASSUME NEW b \in Approvals, approval'[b] # None
                  PROVE  /\ quotation'[approval'[b].quotation] # None
                         /\ quotation'[approval'[b].quotation].approval = b
        BY DEF OneApprovalPerQuotation, Exists
    <2>1. CASE b = a
        BY <1>1, <1>3, <2>1
    <2>2. CASE b # a
        <3>1. /\ approval[b] \in Approval
              /\ approval[b].quotation \in Quotations
              /\ quotation[approval[b].quotation].approval = b
              /\ quotation[approval[b].quotation] # None
              /\ b # None
            BY <1>3, <2>2, Existing, NoneIsNoId
               DEF DealInv, OneApprovalPerQuotation, Exists, Approval
        <3>2. approval[b].quotation # q
            BY <2>2, <3>1
        <3>. QED
            BY <1>3, <2>2, <3>1, <3>2
    <2>. QED
        BY <2>1, <2>2
<1>5. StageAgreesWithApproval'
    <2>. SUFFICES ASSUME NEW p \in Quotations, quotation'[p] # None
                  PROVE  IF quotation'[p].approval = None
                         THEN quotation'[p].stage = "DRAFT"
                         ELSE /\ approval'[quotation'[p].approval] # None
                              /\ approval'[quotation'[p].approval].quotation = p
                              /\ Agrees(quotation'[p], approval'[quotation'[p].approval])
        BY DEF StageAgreesWithApproval, Exists
    <2>1. CASE p = q
        BY <1>1, <1>3, <2>1
    <2>2. CASE p # q
        <3>1. quotation'[p] = quotation[p] /\ quotation[p] \in Quote
            BY <1>3, <2>2, Existing DEF DealInv, Exists
        <3>2. CASE quotation[p].approval = None
            BY <3>1, <3>2 DEF DealInv, StageAgreesWithApproval, Exists
        <3>3. CASE quotation[p].approval # None
            <4>1. /\ quotation[p].approval \in Approvals
                  /\ approval[quotation[p].approval] # None
                  /\ approval[quotation[p].approval].quotation = p
                  /\ Agrees(quotation[p], approval[quotation[p].approval])
                BY <3>1, <3>3 DEF DealInv, StageAgreesWithApproval, Exists, Quote
            <4>2. quotation[p].approval # a
                BY <2>2, <4>1
            <4>. QED
                BY <1>3, <3>1, <3>3, <4>1, <4>2
        <3>. QED
            BY <3>2, <3>3
    <2>. QED
        BY <2>1, <2>2
<1>. QED
    BY <1>2, <1>4, <1>5 DEF DealInv

---------------------------------------------------------------------------
(* What a decision writes to an approval, apart from its steps.            *)
LEMMA ApprovalFields ==
    ASSUME NEW doc \in Approval, doc.active \in DOMAIN doc.steps
    PROVE  /\ LET new == ApprovedStep(doc)
              IN  /\ new.quotation = doc.quotation /\ new.risk = doc.risk
                  /\ new.status = IF IsLastStep(doc) THEN "APPROVED" ELSE doc.status
           /\ LET new == ReturnedStep(doc)
              IN  /\ new.quotation = doc.quotation /\ new.risk = doc.risk
                  /\ new.status = "RETURNED"
           /\ LET new == RejectedStep(doc)
              IN  /\ new.quotation = doc.quotation /\ new.risk = doc.risk
                  /\ new.status = "REJECTED"
BY DEF ApprovedStep, ReturnedStep, RejectedStep, Approval

(* What the other handlers write to an approval, apart from its steps.     *)
LEMMA ReopenedFields ==
    ASSUME NEW doc \in Approval, NEW risk \in Risk
    PROVE  /\ LET new == SubmittedApproval(doc, risk)
              IN  /\ new.quotation = doc.quotation /\ new.risk = risk
                  /\ new.status = IF IsAutoApproved(risk) THEN "NOT_REQUIRED" ELSE "PENDING"
           /\ LET new == ReopenedApproval(doc, risk)
              IN  /\ new.quotation = doc.quotation /\ new.risk = risk
                  /\ new.status = "PENDING"
           /\ LET new == WaivedApproval(doc, risk)
              IN  /\ new.quotation = doc.quotation /\ new.risk = risk
                  /\ new.status = "NOT_REQUIRED"
           /\ LET new == RescoredApproval(doc, risk)
              IN  /\ new.quotation = doc.quotation /\ new.risk = risk
                  /\ new.status = doc.status
BY DEF SubmittedApproval, ReopenedApproval, WaivedApproval, RescoredApproval, Approval

---------------------------------------------------------------------------
(* The invariant holds initially and every action keeps it.                *)

(* There is no document at first.                                          *)
LEMMA InitInv ==
    ASSUME Init
    PROVE  DealInv
BY DEF Init, DealInv, TypeOK, OneApprovalPerQuotation, StageAgreesWithApproval, Exists

(* What the invariant says of one quotation and of one approval.           *)
LEMMA InvOf ==
    ASSUME DealInv
    PROVE  /\ config \in Configs
           /\ order \in [Orders -> Order \cup {None}]
           /\ \A q \in Quotations :
                 Exists(q) =>
                     /\ quotation[q] \in Quote
                     /\ quotation[q].approval = None => quotation[q].stage = "DRAFT"
                     /\ quotation[q].approval # None =>
                           LET a == quotation[q].approval
                           IN  /\ a \in Approvals /\ approval[a] \in Approval
                               /\ approval[a] # None /\ approval[a].quotation = q
                               /\ Agrees(quotation[q], approval[a])
           /\ \A a \in Approvals :
                 approval[a] # None =>
                     /\ approval[a] \in Approval
                     /\ approval[a].quotation \in Quotations
                     /\ Exists(approval[a].quotation)
                     /\ quotation[approval[a].quotation].approval = a
                     /\ Agrees(quotation[approval[a].quotation], approval[a])
<1>1. TypeOK /\ OneApprovalPerQuotation /\ StageAgreesWithApproval
    BY DEF DealInv
<1>2. ASSUME NEW q \in Quotations, Exists(q)
      PROVE  /\ quotation[q] \in Quote
             /\ quotation[q].approval = None => quotation[q].stage = "DRAFT"
             /\ quotation[q].approval # None =>
                   LET a == quotation[q].approval
                   IN  /\ a \in Approvals /\ approval[a] \in Approval
                       /\ approval[a] # None /\ approval[a].quotation = q
                       /\ Agrees(quotation[q], approval[a])
    <2>1. quotation[q] \in Quote
        BY <1>1, <1>2, Existing
    <2>2. quotation[q].approval \in Approvals \cup {None}
        BY <2>1 DEF Quote
    <2>. QED
        BY <1>1, <1>2, <2>1, <2>2, Existing DEF StageAgreesWithApproval
<1>3. ASSUME NEW a \in Approvals, approval[a] # None
      PROVE  /\ approval[a] \in Approval
             /\ approval[a].quotation \in Quotations
             /\ Exists(approval[a].quotation)
             /\ quotation[approval[a].quotation].approval = a
             /\ Agrees(quotation[approval[a].quotation], approval[a])
    <2>1. approval[a] \in Approval /\ approval[a].quotation \in Quotations
        BY <1>1, <1>3, Existing DEF Approval
    <2>2. /\ Exists(approval[a].quotation)
          /\ quotation[approval[a].quotation].approval = a
        BY <1>1, <1>3 DEF OneApprovalPerQuotation
    <2>. QED
        BY <1>2, <2>1, <2>2, NoneIsNoId
<1>4. config \in Configs /\ order \in [Orders -> Order \cup {None}]
    BY <1>1 DEF TypeOK
<1>. QED
    BY <1>2, <1>3, <1>4

(* POST /quotations: a draft without an approval.                          *)
LEMMA CreateKeepsInv ==
    ASSUME DealInv, NEW q \in Quotations, Create(q)
    PROVE  DealInv'
<1>. DEFINE new == NewQuote(config)
<1>1. new \in Quote /\ new.approval = None /\ new.stage = "DRAFT" /\ new # None
    BY InvOf, NewQuoteType, NoneIsNoDocument DEF NewQuote
<1>2. quotation' = [quotation EXCEPT ![q] = new] /\ UNCHANGED <<approval, order, config>>
    BY DEF Create
<1>. HIDE DEF new
<1>3. TypeOK'
    BY <1>1, <1>2 DEF DealInv, TypeOK
<1>4. \A p \in Quotations : quotation'[p] = IF p = q THEN new ELSE quotation[p]
    BY <1>2 DEF DealInv, TypeOK
<1>5. OneApprovalPerQuotation'
    BY <1>1, <1>2, <1>4, InvOf DEF OneApprovalPerQuotation, Exists, Create
<1>6. StageAgreesWithApproval'
    BY <1>1, <1>2, <1>4 DEF DealInv, StageAgreesWithApproval, Exists
<1>. QED
    BY <1>3, <1>5, <1>6 DEF DealInv

(* PATCH /quotations/:id: a draft stays a draft.                           *)
LEMMA PatchKeepsInv ==
    ASSUME DealInv, NEW q \in Quotations, NEW quote,
           \/ PatchNotes(q) /\ quote = Bumped(quotation[q])
           \/ \E t \in AllTerms : PatchLines(q, t) /\ quote = Edited(quotation[q], t, config)
    PROVE  DealInv'
<1>1. Exists(q) /\ quotation[q] \in Quote /\ quotation[q].stage = "DRAFT"
    BY InvOf DEF PatchNotes, PatchLines, MayWrite
<1>2. /\ quote \in Quote /\ quote.stage = quotation[q].stage
      /\ quote.approval = quotation[q].approval
    BY <1>1, InvOf, BumpedFields, EditedFields DEF QuoteFields
<1>3. quotation' = [quotation EXCEPT ![q] = quote] /\ UNCHANGED <<approval, order, config>>
    BY DEF PatchNotes, PatchLines
<1>4. quote.approval # None => Agrees(quote, approval[quote.approval])
    BY <1>1, <1>2, InvOf DEF Agrees
<1>. QED
    BY <1>1, <1>2, <1>3, <1>4, InvOf, QuotationStep

(* POST /quotations/:id/submit: the approval is the returned one or new.   *)
LEMMA SubmitKeepsInv ==
    ASSUME DealInv, NEW q \in Quotations, NEW a \in Approvals, Submit(q, a)
    PROVE  DealInv'
<1>. DEFINE risk == Assess[config][quotation[q].terms]
            doc == IF IsResubmit(quotation[q]) THEN approval[a] ELSE NewApproval(q, risk)
            quote == Submitted(quotation[q], a, config)
            new == SubmittedApproval(doc, risk)
<1>1. /\ Exists(q) /\ quotation[q] \in Quote /\ quotation[q].stage = "DRAFT"
      /\ config \in Configs
    BY InvOf DEF Submit, MayWrite
<1>2. risk \in Risk
    BY <1>1, AssessIsRisk DEF Quote
<1>3. /\ quotation' = [quotation EXCEPT ![q] = quote]
      /\ approval' = [approval EXCEPT ![a] = new]
      /\ UNCHANGED <<order, config>>
    BY DEF Submit
<1>4. quotation[q].approval \in {None, a} /\ (approval[a] # None => approval[a].quotation = q)
    BY <1>1, InvOf DEF Submit, IsResubmit, Agrees
<1>5. doc \in Approval /\ doc.quotation = q
    BY <1>1, <1>2, InvOf, NewApprovalType DEF Submit, IsResubmit, NewApproval
<1>6. new \in Approval /\ new.quotation = q /\ new.risk = risk
      /\ new.status = IF IsAutoApproved(risk) THEN "NOT_REQUIRED" ELSE "PENDING"
    BY <1>2, <1>5, ApprovalHandlers, ReopenedFields, ZenonT(40)
<1>7. quote \in Quote /\ quote.approval = a /\ quote.risk = risk
      /\ quote.stage = IF IsAutoApproved(risk) THEN "APPROVED" ELSE "PENDING_APPROVAL"
    BY <1>1, SubmittedFields DEF QuoteFields
<1>. HIDE DEF quote, new, doc, risk
<1>8. Agrees(quote, new)
    BY <1>6, <1>7 DEF Agrees
<1>. QED
    BY <1>1, <1>3, <1>4, <1>6, <1>7, <1>8, ApprovalStep

(* A counter-offer within the limits.                                      *)
LEMMA CounterWithinKeepsInv ==
    ASSUME DealInv, NEW q \in Quotations, NEW t \in AllTerms, CounterWithin(q, t)
    PROVE  DealInv'
<1>. DEFINE quote == Countered(quotation[q], t, None, config)
<1>1. Exists(q) /\ quotation[q] \in Quote /\ quotation[q].stage # "DRAFT"
    BY InvOf DEF CounterWithin, CounterAllowed, MayWrite, ClosedToCustomer
<1>2. quote \in Quote /\ quote.stage = "NEGOTIATION" /\ quote.approval = quotation[q].approval
    BY <1>1, InvOf, CounteredWithinFields DEF QuoteFields, CounterWithin
<1>3. quotation' = [quotation EXCEPT ![q] = quote] /\ UNCHANGED <<approval, order, config>>
    BY DEF CounterWithin
<1>. HIDE DEF quote
<1>4. quote.approval # None /\ Agrees(quote, approval[quote.approval])
    BY <1>1, <1>2, InvOf DEF Agrees
<1>. QED
    BY <1>1, <1>2, <1>3, <1>4, InvOf, QuotationStep

(* A counter-offer over the limits reopens the quotation's approval.       *)
LEMMA CounterOverKeepsInv ==
    ASSUME DealInv, NEW q \in Quotations, NEW t \in AllTerms, NEW a \in Approvals,
           CounterOver(q, t, a)
    PROVE  DealInv'
<1>. DEFINE risk == Assess[config][t]
            quote == Countered(quotation[q], t, a, config)
            new == ReopenedApproval(approval[a], risk)
<1>1. Exists(q) /\ quotation[q] \in Quote /\ quotation[q].stage # "DRAFT"
    BY InvOf DEF CounterOver, CounterAllowed, MayWrite, ClosedToCustomer
<1>2. /\ quotation[q].approval = a /\ a # None
      /\ approval[a] \in Approval /\ approval[a].quotation = q
    BY <1>1, InvOf, NoneIsNoId DEF CounterOver
<1>3. /\ quotation' = [quotation EXCEPT ![q] = quote]
      /\ approval' = [approval EXCEPT ![a] = new]
      /\ UNCHANGED <<order, config>>
    BY <1>2 DEF CounterOver
<1>4. risk \in Risk
    BY InvOf, AssessIsRisk
<1>5. /\ quote \in Quote /\ quote.stage = "PENDING_APPROVAL"
      /\ quote.approval = a /\ quote.risk = risk
    BY <1>1, InvOf, CounteredOverFields DEF QuoteFields, CounterOver
<1>6. new \in Approval /\ new.quotation = q /\ new.risk = risk /\ new.status = "PENDING"
    BY <1>2, <1>4, ApprovalHandlers, ReopenedFields, ZenonT(40)
<1>. HIDE DEF quote, new, risk
<1>7. Agrees(quote, new)
    BY <1>5, <1>6 DEF Agrees
<1>. QED
    BY <1>1, <1>2, <1>3, <1>5, <1>6, <1>7, ApprovalStep

(* A decision moves the approval and its quotation together.               *)
LEMMA DecisionKeepsInv ==
    ASSUME DealInv, NEW a \in Approvals, NEW role,
           Approve(a, role) \/ Return(a, role) \/ Reject(a, role)
    PROVE  DealInv'
<1>. DEFINE doc == approval[a]
            q == approval[a].quotation
<1>1. /\ doc # None /\ doc \in Approval /\ doc.active \in DOMAIN doc.steps
      /\ doc.status = "PENDING"
      /\ q \in Quotations /\ Exists(q) /\ quotation[q] \in Quote
      /\ quotation[q].approval = a /\ Agrees(quotation[q], doc)
    BY InvOf DEF Approve, Return, Reject, Decidable, MayDecide
<1>2. /\ ApprovedStep(doc) \in Approval /\ ReturnedStep(doc) \in Approval
      /\ RejectedStep(doc) \in Approval
    BY <1>1, DecisionHandlers
<1>3. /\ ApprovedStep(doc).quotation = q /\ ApprovedStep(doc).risk = doc.risk
      /\ ApprovedStep(doc).status = IF IsLastStep(doc) THEN "APPROVED" ELSE doc.status
      /\ ReturnedStep(doc).quotation = q /\ ReturnedStep(doc).status = "RETURNED"
      /\ RejectedStep(doc).quotation = q /\ RejectedStep(doc).status = "REJECTED"
    BY <1>1, ApprovalFields
<1>4. \A s \in {"APPROVED", "DRAFT", "REJECTED"} :
         /\ Decided(quotation[q], s) \in Quote
         /\ Decided(quotation[q], s).stage = s
         /\ Decided(quotation[q], s).approval = a
    BY <1>1, DecidedFields DEF QuoteFields, Stage
<1>5. CASE Approve(a, role) /\ IsLastStep(doc)
    <2>. DEFINE quote == Decided(quotation[q], "APPROVED")
                new == ApprovedStep(doc)
    <2>1. /\ quotation' = [quotation EXCEPT ![q] = quote]
          /\ approval' = [approval EXCEPT ![a] = new]
          /\ UNCHANGED <<order, config>>
        BY <1>5 DEF Approve
    <2>2. /\ quote \in Quote /\ quote.approval = a /\ new \in Approval /\ new.quotation = q
          /\ Agrees(quote, new)
        BY <1>2, <1>3, <1>4, <1>5 DEF Agrees
    <2>. HIDE DEF quote, new
    <2>. QED
        BY <1>1, <2>1, <2>2, ApprovalStep
<1>6. CASE Approve(a, role) /\ ~IsLastStep(doc)
    <2>. DEFINE new == ApprovedStep(doc)
    <2>1. /\ quotation' = [quotation EXCEPT ![q] = quotation[q]]
          /\ approval' = [approval EXCEPT ![a] = new]
          /\ UNCHANGED <<order, config>>
        BY <1>6 DEF Approve, DealInv, TypeOK
    <2>2. new \in Approval /\ new.quotation = q /\ Agrees(quotation[q], new)
        BY <1>1, <1>2, <1>3, <1>6 DEF Agrees
    <2>. HIDE DEF new
    <2>. QED
        BY <1>1, <2>1, <2>2, ApprovalStep
<1>7. CASE Return(a, role)
    <2>. DEFINE quote == Decided(quotation[q], "DRAFT")
                new == ReturnedStep(doc)
    <2>1. /\ quotation' = [quotation EXCEPT ![q] = quote]
          /\ approval' = [approval EXCEPT ![a] = new]
          /\ UNCHANGED <<order, config>>
        BY <1>7 DEF Return
    <2>2. /\ quote \in Quote /\ quote.approval = a /\ new \in Approval /\ new.quotation = q
          /\ Agrees(quote, new)
        BY <1>2, <1>3, <1>4 DEF Agrees
    <2>. HIDE DEF quote, new
    <2>. QED
        BY <1>1, <2>1, <2>2, ApprovalStep
<1>8. CASE Reject(a, role)
    <2>. DEFINE quote == Decided(quotation[q], "REJECTED")
                new == RejectedStep(doc)
    <2>1. /\ quotation' = [quotation EXCEPT ![q] = quote]
          /\ approval' = [approval EXCEPT ![a] = new]
          /\ UNCHANGED <<order, config>>
        BY <1>8 DEF Reject
    <2>2. /\ quote \in Quote /\ quote.approval = a /\ new \in Approval /\ new.quotation = q
          /\ Agrees(quote, new)
        BY <1>2, <1>3, <1>4 DEF Agrees
    <2>. HIDE DEF quote, new
    <2>. QED
        BY <1>1, <2>1, <2>2, ApprovalStep
<1>. QED
    BY <1>5, <1>6, <1>7, <1>8

(* A conversion leaves the approval alone.                                 *)
LEMMA ConvertKeepsInv ==
    ASSUME DealInv, NEW q \in Quotations, NEW o \in Orders, Convert(q, o)
    PROVE  DealInv'
<1>. DEFINE quote == Confirmed(quotation[q], o)
<1>1. Exists(q) /\ quotation[q] \in Quote /\ quotation[q].stage # "DRAFT"
    BY InvOf DEF Convert, MayWrite, ConvertibleStages
<1>2. /\ quote \in Quote /\ quote.stage = "CONFIRMED"
      /\ quote.approval = quotation[q].approval
    BY <1>1, ConfirmedFields DEF QuoteFields
<1>3. quotation' = [quotation EXCEPT ![q] = quote] /\ UNCHANGED <<approval, config>>
    BY DEF Convert
<1>4. order' \in [Orders -> Order \cup {None}]
    BY <1>1, InvOf DEF Convert, Order, Quote
<1>. HIDE DEF quote
<1>5. quote.approval # None /\ Agrees(quote, approval[quote.approval])
    BY <1>1, <1>2, InvOf DEF Agrees
<1>. QED
    BY <1>1, <1>2, <1>3, <1>4, <1>5, InvOf, QuotationStep

(* A configuration change writes the moved quotations and, since a         *)
(* quotation's pending approval is the one it refers to, each of their     *)
(* pending approvals.                                                      *)
LEMMA SaveConfigWrites ==
    ASSUME DealInv, NEW c \in Configs, SaveConfig(c)
    PROVE  /\ config' = c /\ order' = order
           /\ \A q \in Quotations :
                 quotation'[q] = IF q \in Moved(c) THEN Reconfigured(quotation[q], c)
                                                   ELSE quotation[q]
           /\ \A a \in Approvals :
                 approval'[a] =
                     LET q == approval[a].quotation
                         risk == Assess[c][quotation[q].terms]
                     IN  IF approval[a] # None /\ approval[a].status = "PENDING" /\ q \in Moved(c)
                         THEN IF Waived(quotation[q], risk)
                              THEN WaivedApproval(approval[a], risk)
                              ELSE RescoredApproval(approval[a], risk)
                         ELSE approval[a]
           /\ quotation' = [q \in Quotations |-> quotation'[q]]
           /\ approval' = [a \in Approvals |-> approval'[a]]
<1>1. PICK pick \in Matches(Moved(c)) :
         approval' = [a \in Approvals |->
            IF \E q \in Moved(c) : pick[q] = a
            THEN LET q == approval[a].quotation
                     risk == Assess[c][quotation[q].terms]
                 IN  IF Waived(quotation[q], risk)
                     THEN WaivedApproval(approval[a], risk)
                     ELSE RescoredApproval(approval[a], risk)
            ELSE approval[a]]
    BY DEF SaveConfig
<1>2. Moved(c) \subseteq Quotations
    BY DEF Moved
<1>3. ASSUME NEW a \in Approvals
      PROVE  (\E q \in Moved(c) : pick[q] = a) <=>
                 /\ approval[a] # None /\ approval[a].status = "PENDING"
                 /\ approval[a].quotation \in Moved(c)
    <2>1. ASSUME NEW q \in Moved(c), pick[q] = a
          PROVE  /\ approval[a] # None /\ approval[a].status = "PENDING"
                 /\ approval[a].quotation = q
        BY <2>1, NoneIsNoId DEF Matches, PendingOf
    <2>2. ASSUME approval[a] # None, approval[a].status = "PENDING",
                 approval[a].quotation \in Moved(c)
          PROVE  pick[approval[a].quotation] = a
        <3>. DEFINE q == approval[a].quotation
        <3>1. a \in PendingOf(q)
            BY <2>2 DEF PendingOf
        <3>2. pick[q] \in PendingOf(q)
            BY <2>2, <3>1 DEF Matches
        <3>3. \A b \in PendingOf(q) : b = quotation[q].approval
            BY InvOf DEF PendingOf
        <3>. QED
            BY <3>1, <3>2, <3>3
    <2>. QED
        BY <2>1, <2>2
<1>4. \A q \in Quotations :
         quotation'[q] = IF q \in Moved(c) THEN Reconfigured(quotation[q], c) ELSE quotation[q]
    BY DEF SaveConfig
<1>5. quotation' = [q \in Quotations |-> quotation'[q]]
    BY DEF SaveConfig
<1>6. approval' = [a \in Approvals |-> approval'[a]]
    BY <1>1
<1>7. config' = c /\ order' = order
    BY DEF SaveConfig
<1>8. ASSUME NEW a \in Approvals
      PROVE  approval'[a] =
                 LET q == approval[a].quotation
                     risk == Assess[c][quotation[q].terms]
                 IN  IF approval[a] # None /\ approval[a].status = "PENDING" /\ q \in Moved(c)
                     THEN IF Waived(quotation[q], risk)
                          THEN WaivedApproval(approval[a], risk)
                          ELSE RescoredApproval(approval[a], risk)
                     ELSE approval[a]
    BY <1>1, <1>3
<1>. QED
    BY <1>4, <1>5, <1>6, <1>7, <1>8

(* PUT /config writes quotations and their pending approvals together.     *)
LEMMA SaveConfigKeepsInv ==
    ASSUME DealInv, NEW c \in Configs, SaveConfig(c)
    PROVE  DealInv'
<1>1. ASSUME NEW q \in Quotations
      PROVE  /\ quotation'[q] = None <=> quotation[q] = None
             /\ Exists(q) =>
                   /\ quotation'[q] \in Quote
                   /\ quotation'[q].approval = quotation[q].approval
    <2>1. CASE q \in Moved(c)
        <3>1. Exists(q) /\ quotation[q] \in Quote
            BY <2>1, InvOf DEF Moved
        <3>2. quotation'[q] = Reconfigured(quotation[q], c)
            BY <2>1, SaveConfigWrites
        <3>. QED
            BY <3>1, <3>2, ReconfiguredFields, NoneIsNoDocument DEF QuoteFields, Exists
    <2>2. CASE q \notin Moved(c)
        <3>1. quotation'[q] = quotation[q]
            BY <2>2, SaveConfigWrites
        <3>. QED
            BY <3>1, InvOf
    <2>. QED
        BY <2>1, <2>2
<1>2. ASSUME NEW a \in Approvals, approval[a] # None
      PROVE  /\ approval'[a] \in Approval /\ approval'[a] # None
             /\ approval'[a].quotation = approval[a].quotation
             /\ Agrees(quotation'[approval[a].quotation], approval'[a])
    <2>. DEFINE q == approval[a].quotation
                risk == Assess[c][quotation[q].terms]
    <2>1. /\ approval[a] \in Approval /\ q \in Quotations /\ Exists(q)
          /\ quotation[q] \in Quote /\ Agrees(quotation[q], approval[a])
        BY <1>2, InvOf
    <2>2. risk \in Risk
        BY <2>1, AssessIsRisk DEF Quote
    <2>3. CASE q \in Moved(c)
        <3>1. /\ quotation'[q].stage = IF Waived(quotation[q], risk) THEN "APPROVED"
                                                                     ELSE quotation[q].stage
              /\ quotation'[q].risk = risk
            BY <2>1, <2>3, SaveConfigWrites, ReconfiguredFields DEF QuoteFields
        <3>2. CASE approval[a].status = "PENDING" /\ Waived(quotation[q], risk)
            <4>1. approval'[a] = WaivedApproval(approval[a], risk)
                BY <1>2, <2>3, <3>2, SaveConfigWrites
            <4>2. LET new == WaivedApproval(approval[a], risk)
                  IN  /\ new \in Approval /\ new # None /\ new.risk = risk
                      /\ new.quotation = q /\ new.status = "NOT_REQUIRED"
                <5>. HIDE DEF risk
                <5>1. WaivedApproval(approval[a], risk) \in Approval
                    BY <2>1, <2>2, ApprovalHandlers
                <5>. QED
                    BY <5>1, <2>1, <2>2, <3>2, ReopenedFields, NoneIsNoDocument
            <4>. QED
                BY <2>1, <3>1, <3>2, <4>1, <4>2 DEF Agrees, Waived
        <3>3. CASE approval[a].status = "PENDING" /\ ~Waived(quotation[q], risk)
            <4>1. approval'[a] = RescoredApproval(approval[a], risk)
                BY <1>2, <2>3, <3>3, SaveConfigWrites
            <4>2. LET new == RescoredApproval(approval[a], risk)
                  IN  /\ new \in Approval /\ new # None /\ new.risk = risk
                      /\ new.quotation = q /\ new.status = "PENDING"
                <5>. HIDE DEF risk
                <5>. QED
                    BY <2>1, <2>2, <3>3, ApprovalHandlers, ReopenedFields, NoneIsNoDocument, ZenonT(40)
            <4>. QED
                BY <2>1, <3>1, <3>3, <4>1, <4>2 DEF Agrees, Waived
        <3>4. CASE approval[a].status # "PENDING"
            <4>1. approval'[a] = approval[a]
                BY <3>4, SaveConfigWrites
            <4>. QED
                BY <1>2, <2>1, <3>1, <3>4, <4>1 DEF Agrees, Waived
        <3>. QED
            BY <3>2, <3>3, <3>4
    <2>4. CASE q \notin Moved(c)
        <3>1. approval'[a] = approval[a] /\ quotation'[q] = quotation[q]
            BY <2>1, <2>4, SaveConfigWrites
        <3>. QED
            BY <1>2, <2>1, <3>1
    <2>. QED
        BY <2>3, <2>4
<1>3. ASSUME NEW a \in Approvals, approval[a] = None
      PROVE  approval'[a] = None
    BY <1>3, SaveConfigWrites
<1>4. TypeOK'
    <2>1. quotation' \in [Quotations -> Quote \cup {None}]
        <3>1. \A q \in Quotations : quotation'[q] \in Quote \cup {None}
            BY <1>1 DEF Exists
        <3>. QED
            BY <3>1, SaveConfigWrites
    <2>2. approval' \in [Approvals -> Approval \cup {None}]
        <3>1. \A a \in Approvals : approval'[a] \in Approval \cup {None}
            BY <1>2, <1>3
        <3>. QED
            BY <3>1, SaveConfigWrites
    <2>3. order' \in [Orders -> Order \cup {None}] /\ config' \in Configs
        BY InvOf, SaveConfigWrites
    <2>. QED
        BY <2>1, <2>2, <2>3 DEF TypeOK
<1>5. OneApprovalPerQuotation'
    BY <1>1, <1>2, <1>3, InvOf DEF OneApprovalPerQuotation, Exists
<1>6. StageAgreesWithApproval'
    <2>. SUFFICES ASSUME NEW q \in Quotations, quotation'[q] # None
                  PROVE  IF quotation'[q].approval = None
                         THEN quotation'[q].stage = "DRAFT"
                         ELSE /\ approval'[quotation'[q].approval] # None
                              /\ approval'[quotation'[q].approval].quotation = q
                              /\ Agrees(quotation'[q], approval'[quotation'[q].approval])
        BY DEF StageAgreesWithApproval, Exists
    <2>1. Exists(q) /\ quotation'[q].approval = quotation[q].approval /\ quotation[q] \in Quote
        BY <1>1, InvOf DEF Exists
    <2>2. CASE quotation[q].approval = None
        <3>1. quotation[q].stage = "DRAFT"
            BY <2>1, <2>2, InvOf
        <3>2. quotation'[q].stage = "DRAFT"
            BY <2>1, <3>1, SaveConfigWrites, ReconfiguredFields DEF QuoteFields, Waived
        <3>. QED
            BY <2>1, <2>2, <3>2
    <2>3. CASE quotation[q].approval # None
        BY <1>2, <2>1, <2>3, InvOf
    <2>. QED
        BY <2>2, <2>3
<1>. QED
    BY <1>4, <1>5, <1>6 DEF DealInv

(* Every step keeps the invariant.                                         *)
LEMMA StepKeepsInv ==
    ASSUME DealInv, [Next]_vars
    PROVE  DealInv'
<1>1. ASSUME NEW q \in Quotations, Create(q)
      PROVE  DealInv'
    BY <1>1, CreateKeepsInv
<1>2. ASSUME NEW q \in Quotations, NEW t \in AllTerms, PatchLines(q, t)
      PROVE  DealInv'
    BY <1>2, PatchKeepsInv
<1>3. ASSUME NEW q \in Quotations, PatchNotes(q)
      PROVE  DealInv'
    BY <1>3, PatchKeepsInv
<1>4. ASSUME NEW q \in Quotations, NEW a \in Approvals, Submit(q, a)
      PROVE  DealInv'
    BY <1>4, SubmitKeepsInv
<1>5. ASSUME NEW q \in Quotations, NEW t \in AllTerms, CounterWithin(q, t)
      PROVE  DealInv'
    BY <1>5, CounterWithinKeepsInv
<1>6. ASSUME NEW q \in Quotations, NEW t \in AllTerms, NEW a \in Approvals, CounterOver(q, t, a)
      PROVE  DealInv'
    BY <1>6, CounterOverKeepsInv
<1>7. ASSUME NEW q \in Quotations, NEW o \in Orders, Convert(q, o)
      PROVE  DealInv'
    BY <1>7, ConvertKeepsInv
<1>8. ASSUME NEW a \in Approvals, NEW role \in DecisionRoles,
             Approve(a, role) \/ Return(a, role) \/ Reject(a, role)
      PROVE  DealInv'
    BY <1>8, DecisionKeepsInv
<1>9. ASSUME NEW c \in Configs, SaveConfig(c)
      PROVE  DealInv'
    BY <1>9, SaveConfigKeepsInv
<1>10. CASE UNCHANGED vars
    BY <1>10 DEF vars, DealInv, TypeOK, OneApprovalPerQuotation, StageAgreesWithApproval, Exists
<1>. QED
    BY <1>1, <1>2, <1>3, <1>4, <1>5, <1>6, <1>7, <1>8, <1>9, <1>10 DEF Next

---------------------------------------------------------------------------
(* The theorems.                                                           *)

(* DealInv holds in every reachable state.                                 *)
THEOREM DealInvariant == Spec => []DealInv
<1>1. Init => DealInv
    BY InitInv
<1>2. DealInv /\ [Next]_vars => DealInv'
    BY StepKeepsInv
<1>. QED
    BY <1>1, <1>2, PTL DEF Spec

(* Every document has the fields and the values its schema names.          *)
THEOREM TypeCorrect == Spec => []TypeOK
<1>1. DealInv => TypeOK
    BY DEF DealInv
<1>. QED
    BY <1>1, DealInvariant, PTL

(* No second approval of a quotation can be decided behind its back.       *)
THEOREM ApprovalIsUnique == Spec => []OneApprovalPerQuotation
<1>1. DealInv => OneApprovalPerQuotation
    BY DEF DealInv
<1>. QED
    BY <1>1, DealInvariant, PTL

(* The stage of a quotation and the status of its approval never disagree. *)
THEOREM StageAndApprovalAgree == Spec => []StageAgreesWithApproval
<1>1. DealInv => StageAgreesWithApproval
    BY DEF DealInv
<1>. QED
    BY <1>1, DealInvariant, PTL

---------------------------------------------------------------------------
(* The order of the steps.                                                 *)

(* What one step can make of an approval.                                  *)
LEMMA ApprovalEvolves ==
    ASSUME DealInv, [Next]_vars, NEW a \in Approvals, approval'[a] # approval[a]
    PROVE  \/ \E doc \in Approval, risk \in Risk :
                 \/ approval'[a] = SubmittedApproval(doc, risk)
                 \/ ~IsAutoApproved(risk) /\ approval'[a] = ReopenedApproval(doc, risk)
           \/ /\ approval[a] \in Approval /\ MayDecide(approval[a], "ADMIN")
              /\ approval'[a] \in {ApprovedStep(approval[a]), ReturnedStep(approval[a]),
                                   RejectedStep(approval[a])}
           \/ /\ approval[a] \in Approval /\ approval[a].status = "PENDING"
              /\ \E risk \in Risk :
                    approval'[a] \in {WaivedApproval(approval[a], risk),
                                      RescoredApproval(approval[a], risk)}
<1>. DEFINE Goal ==
           \/ \E doc \in Approval, risk \in Risk :
                 \/ approval'[a] = SubmittedApproval(doc, risk)
                 \/ ~IsAutoApproved(risk) /\ approval'[a] = ReopenedApproval(doc, risk)
           \/ /\ approval[a] \in Approval /\ MayDecide(approval[a], "ADMIN")
              /\ approval'[a] \in {ApprovedStep(approval[a]), ReturnedStep(approval[a]),
                                   RejectedStep(approval[a])}
           \/ /\ approval[a] \in Approval /\ approval[a].status = "PENDING"
              /\ \E risk \in Risk :
                    approval'[a] \in {WaivedApproval(approval[a], risk),
                                      RescoredApproval(approval[a], risk)}
<1>1. approval \in [Approvals -> Approval \cup {None}]
    BY DEF DealInv, TypeOK
<1>2. ASSUME NEW q \in Quotations, NEW b \in Approvals, Submit(q, b)
      PROVE  Goal
    <2>. DEFINE risk == Assess[config][quotation[q].terms]
                doc == IF IsResubmit(quotation[q]) THEN approval[b] ELSE NewApproval(q, risk)
    <2>1. Exists(q) /\ quotation[q] \in Quote
        BY <1>2, InvOf DEF Submit, MayWrite
    <2>2. risk \in Risk
        BY <2>1, InvOf, AssessIsRisk DEF Quote
    <2>3. doc \in Approval
        BY <1>2, <2>1, <2>2, InvOf, NewApprovalType DEF Submit, IsResubmit
    <2>4. approval' = [approval EXCEPT ![b] = SubmittedApproval(doc, risk)]
        BY <1>2 DEF Submit
    <2>. HIDE DEF risk, doc
    <2>5. approval'[a] = SubmittedApproval(doc, risk)
        BY <1>1, <2>4
    <2>. QED
        BY <2>2, <2>3, <2>5
<1>3. ASSUME NEW q \in Quotations, NEW t \in AllTerms, NEW b \in Approvals, CounterOver(q, t, b)
      PROVE  Goal
    <2>. DEFINE risk == Assess[config][t]
                doc == IF quotation[q].approval # None THEN approval[b] ELSE NewApproval(q, risk)
    <2>1. Exists(q) /\ quotation[q] \in Quote /\ risk \in Risk
        BY <1>3, InvOf, AssessIsRisk DEF CounterOver, CounterAllowed, MayWrite
    <2>2. doc \in Approval
        BY <1>3, <2>1, InvOf, NewApprovalType DEF CounterOver
    <2>3. approval' = [approval EXCEPT ![b] = ReopenedApproval(doc, risk)]
          /\ ~IsAutoApproved(risk)
        BY <1>3 DEF CounterOver
    <2>. HIDE DEF risk, doc
    <2>4. approval'[a] = ReopenedApproval(doc, risk)
        BY <1>1, <2>3
    <2>. QED
        BY <2>1, <2>2, <2>3, <2>4
<1>4. ASSUME NEW b \in Approvals, NEW role \in DecisionRoles,
             Approve(b, role) \/ Return(b, role) \/ Reject(b, role)
      PROVE  Goal
    <2>1. approval[b] \in Approval /\ MayDecide(approval[b], "ADMIN")
        BY <1>4, InvOf DEF Approve, Return, Reject, Decidable, MayDecide
    <2>2. \E doc \in {ApprovedStep(approval[b]), ReturnedStep(approval[b]),
                      RejectedStep(approval[b])} :
             approval' = [approval EXCEPT ![b] = doc]
        BY <1>4 DEF Approve, Return, Reject
    <2>3. a = b
        BY <1>1, <2>2
    <2>. QED
        BY <1>1, <2>1, <2>2, <2>3
<1>5. ASSUME NEW c \in Configs, SaveConfig(c)
      PROVE  Goal
    <2>. DEFINE q == approval[a].quotation
                risk == Assess[c][quotation[q].terms]
    <2>1. /\ approval[a] # None /\ approval[a].status = "PENDING" /\ q \in Moved(c)
          /\ approval'[a] \in {WaivedApproval(approval[a], risk), RescoredApproval(approval[a], risk)}
        BY <1>5, SaveConfigWrites
    <2>2. approval[a] \in Approval /\ risk \in Risk
        BY <2>1, InvOf, AssessIsRisk DEF Quote
    <2>. HIDE DEF risk
    <2>. QED
        BY <2>1, <2>2
<1>. QED
    BY <1>2, <1>3, <1>4, <1>5
       DEF Next, vars, Create, PatchLines, PatchNotes, CounterWithin, Convert

(* A chain opens in order.                                                 *)
LEMMA OpenedInOrder ==
    ASSUME NEW doc \in Approval, NEW risk \in Risk, ~IsAutoApproved(risk)
    PROVE  /\ StepsInOrder(SubmittedApproval(doc, risk))
           /\ StepsInOrder(ReopenedApproval(doc, risk))
<1>1. risk.chain \in Seq(Roles) /\ risk.chain # <<>>
    BY DEF Risk, IsAutoApproved
<1>. DEFINE s == OpenSteps(risk.chain)
<1>2. /\ DOMAIN s = 1..Len(risk.chain) /\ Len(risk.chain) \in Nat \ {0}
      /\ \A i \in 1..Len(risk.chain) : s[i].status = IF i = 1 THEN "ACTIVE" ELSE "PENDING"
    BY <1>1 DEF OpenSteps
<1>. HIDE DEF s
<1>3. ASSUME NEW new, new.steps = s, new.active = 1
      PROVE  StepsInOrder(new)
    BY <1>2, <1>3 DEF StepsInOrder
<1>4. /\ SubmittedApproval(doc, risk).steps = s /\ SubmittedApproval(doc, risk).active = 1
      /\ ReopenedApproval(doc, risk).steps = s /\ ReopenedApproval(doc, risk).active = 1
    BY DEF SubmittedApproval, ReopenedApproval, Approval, s
<1>. QED
    BY <1>3, <1>4

(* One step after one of them has been given a status.                     *)
LEMMA WithStatusAt ==
    ASSUME NEW steps \in Seq(Step), NEW i \in DOMAIN steps, NEW st \in StepStatus,
           NEW j \in DOMAIN steps
    PROVE  /\ j = i => WithStatus(steps, i, st)[j].status = st
           /\ j # i => WithStatus(steps, i, st)[j] = steps[j]
<1>. DEFINE e == [steps[i] EXCEPT !.status = st]
<1>1. steps \in [1..Len(steps) -> Step] /\ i \in 1..Len(steps) /\ j \in 1..Len(steps)
    OBVIOUS
<1>2. e.status = st
    BY <1>1 DEF Step
<1>3. WithStatus(steps, i, st) = [steps EXCEPT ![i] = e]
    BY DEF WithStatus
<1>. HIDE DEF e
<1>. QED
    BY <1>1, <1>2, <1>3

(* Approving a step that is not the last keeps the order.                  *)
LEMMA ApprovedInOrder ==
    ASSUME NEW doc \in Approval, StepsInOrder(doc), ~IsLastStep(doc)
    PROVE  StepsInOrder(ApprovedStep(doc))
<1>. DEFINE s == WithStatus(doc.steps, doc.active, "APPROVED")
            u == WithStatus(s, doc.active + 1, "ACTIVE")
<1>1. /\ doc.steps \in Seq(Step) /\ doc.active \in Nat /\ doc.active \in DOMAIN doc.steps
      /\ doc.active + 1 \in DOMAIN doc.steps
    BY DEF Approval, StepsInOrder, IsLastStep
<1>0. "APPROVED" \in StepStatus /\ "ACTIVE" \in StepStatus
    BY DEF StepStatus
<1>2. s \in Seq(Step) /\ DOMAIN s = DOMAIN doc.steps
    BY <1>0, <1>1, WithStatusType, ApprovalsHaveSteps
<1>3. ASSUME NEW j \in DOMAIN doc.steps
      PROVE  /\ j = doc.active => s[j].status = "APPROVED"
             /\ j # doc.active => s[j] = doc.steps[j]
    BY <1>0, <1>1, WithStatusAt
<1>. HIDE DEF s
<1>5. DOMAIN u = DOMAIN doc.steps
    BY <1>0, <1>1, <1>2, WithStatusType, ApprovalsHaveSteps
<1>6. ASSUME NEW j \in DOMAIN doc.steps
      PROVE  /\ j = doc.active + 1 => u[j].status = "ACTIVE"
             /\ j # doc.active + 1 => u[j] = s[j]
    BY <1>0, <1>1, <1>2, WithStatusAt
<1>. HIDE DEF u
<1>7. ApprovedStep(doc).steps = u /\ ApprovedStep(doc).active = doc.active + 1
    BY DEF ApprovedStep, Approval, s, u
<1>8. DOMAIN doc.steps \subseteq Nat
    BY <1>1
<1>. QED
    BY <1>1, <1>2, <1>3, <1>5, <1>6, <1>7, <1>8 DEF StepsInOrder

(* Every step keeps the steps of pending approvals in order.               *)
LEMMA StepKeepsOrder ==
    ASSUME DealInv, PendingStepsInOrder, [Next]_vars
    PROVE  PendingStepsInOrder'
<1>. SUFFICES ASSUME NEW a \in Approvals, approval'[a] # None, approval'[a].status = "PENDING"
              PROVE  StepsInOrder(approval'[a])
    BY DEF PendingStepsInOrder
<1>1. CASE approval'[a] = approval[a]
    BY <1>1 DEF PendingStepsInOrder
<1>2. ASSUME NEW doc \in Approval, NEW risk \in Risk,
             \/ approval'[a] = SubmittedApproval(doc, risk)
             \/ ~IsAutoApproved(risk) /\ approval'[a] = ReopenedApproval(doc, risk)
      PROVE  StepsInOrder(approval'[a])
    BY <1>2, OpenedInOrder, ReopenedFields
<1>3. ASSUME approval[a] \in Approval, MayDecide(approval[a], "ADMIN"),
             approval'[a] \in {ApprovedStep(approval[a]), ReturnedStep(approval[a]),
                               RejectedStep(approval[a])}
      PROVE  StepsInOrder(approval'[a])
    <2>1. StepsInOrder(approval[a])
        BY <1>3, NoneIsNoDocument DEF PendingStepsInOrder, MayDecide
    <2>2. approval'[a] = ApprovedStep(approval[a]) /\ ~IsLastStep(approval[a])
        BY <1>3, ApprovalFields DEF MayDecide
    <2>. QED
        BY <1>3, <2>1, <2>2, ApprovedInOrder
<1>4. ASSUME approval[a] \in Approval, approval[a].status = "PENDING", NEW risk \in Risk,
             approval'[a] \in {WaivedApproval(approval[a], risk),
                               RescoredApproval(approval[a], risk)}
      PROVE  StepsInOrder(approval'[a])
    <2>1. StepsInOrder(approval[a])
        BY <1>4, NoneIsNoDocument DEF PendingStepsInOrder
    <2>2. approval'[a] = RescoredApproval(approval[a], risk)
        BY <1>4, ReopenedFields
    <2>3. approval'[a].steps = approval[a].steps /\ approval'[a].active = approval[a].active
        BY <1>4, <2>2 DEF RescoredApproval, Approval
    <2>. QED
        BY <2>1, <2>3 DEF StepsInOrder
<1>. QED
    BY <1>1, <1>2, <1>3, <1>4, ApprovalEvolves

(* Somebody may always act on a pending approval: its current step is      *)
(* active, those before it are approved, those after it wait their turn.   *)
THEOREM StepsStayInOrder == Spec => []PendingStepsInOrder
<1>1. Init => PendingStepsInOrder
    BY DEF Init, PendingStepsInOrder
<1>2. DealInv /\ PendingStepsInOrder /\ [Next]_vars => PendingStepsInOrder'
    BY StepKeepsOrder
<1>. QED
    BY <1>1, <1>2, DealInvariant, PTL DEF Spec

---------------------------------------------------------------------------
(* What one step can make of a quotation.                                  *)

(* A quotation that a step changes was not rejected, moves its version by  *)
(* one, and keeps its order and stays unconfirmed unless it is converted.  *)
LEMMA QuotationEvolves ==
    ASSUME DealInv, [Next]_vars, NEW q \in Quotations, Exists(q), quotation'[q] # quotation[q]
    PROVE  /\ quotation[q].stage # "REJECTED"
           /\ quotation'[q] \in Quote
           /\ quotation'[q].version = quotation[q].version + 1
           /\ \/ /\ quotation'[q].order = quotation[q].order
                 /\ quotation'[q].stage # "CONFIRMED"
              \/ \E o \in Orders : Convert(q, o)
<1>. DEFINE Goal ==
           /\ quotation[q].stage # "REJECTED"
           /\ quotation'[q] \in Quote
           /\ quotation'[q].version = quotation[q].version + 1
           /\ \/ /\ quotation'[q].order = quotation[q].order
                 /\ quotation'[q].stage # "CONFIRMED"
              \/ \E o \in Orders : Convert(q, o)
<1>1. quotation \in [Quotations -> Quote \cup {None}] /\ quotation[q] \in Quote
    BY InvOf DEF DealInv, TypeOK
<1>2. ASSUME NEW p \in Quotations, NEW quote,
             quotation' = [quotation EXCEPT ![p] = quote]
      PROVE  p = q /\ quotation'[q] = quote
    BY <1>1, <1>2
<1>3. ASSUME NEW p \in Quotations, Create(p)
      PROVE  Goal
    BY <1>2, <1>3 DEF Create
<1>4. ASSUME NEW p \in Quotations, NEW t \in AllTerms, PatchLines(p, t)
      PROVE  Goal
    BY <1>1, <1>2, <1>4, InvOf, EditedFields DEF PatchLines, QuoteFields
<1>5. ASSUME NEW p \in Quotations, PatchNotes(p)
      PROVE  Goal
    BY <1>1, <1>2, <1>5, BumpedFields DEF PatchNotes, QuoteFields
<1>6. ASSUME NEW p \in Quotations, NEW a \in Approvals, Submit(p, a)
      PROVE  Goal
    BY <1>1, <1>2, <1>6, InvOf, SubmittedFields DEF Submit, QuoteFields
<1>7. ASSUME NEW p \in Quotations, NEW t \in AllTerms, CounterWithin(p, t)
      PROVE  Goal
    BY <1>1, <1>2, <1>7, InvOf, CounteredWithinFields
       DEF CounterWithin, CounterAllowed, ClosedToCustomer, QuoteFields
<1>8. ASSUME NEW p \in Quotations, NEW t \in AllTerms, NEW a \in Approvals, CounterOver(p, t, a)
      PROVE  Goal
    BY <1>1, <1>2, <1>8, InvOf, CounteredOverFields
       DEF CounterOver, CounterAllowed, ClosedToCustomer, QuoteFields
<1>9. ASSUME NEW a \in Approvals, NEW role \in DecisionRoles,
             Approve(a, role) \/ Return(a, role) \/ Reject(a, role)
      PROVE  Goal
    <2>. DEFINE p == approval[a].quotation
    <2>1. /\ p \in Quotations /\ approval[a].status = "PENDING"
          /\ Agrees(quotation[p], approval[a])
        BY <1>9, InvOf DEF Approve, Return, Reject, Decidable, MayDecide
    <2>2. PICK s \in {"APPROVED", "DRAFT", "REJECTED"} :
             quotation' = [quotation EXCEPT ![p] = Decided(@, s)]
        BY <1>9 DEF Approve, Return, Reject
    <2>3. s \in Stage
        BY <2>2 DEF Stage
    <2>4. p = q /\ quotation'[q] = Decided(quotation[q], s)
        BY <1>1, <2>1, <2>2
    <2>5. quotation[q].stage # "REJECTED"
        BY <2>1, <2>4 DEF Agrees
    <2>. QED
        BY <1>1, <2>2, <2>3, <2>4, <2>5, DecidedFields DEF QuoteFields
<1>10. ASSUME NEW p \in Quotations, NEW o \in Orders, Convert(p, o)
      PROVE  Goal
    <2>1. quotation' = [quotation EXCEPT ![p] = Confirmed(quotation[p], o)]
        BY <1>10 DEF Convert
    <2>2. p = q /\ quotation'[q] = Confirmed(quotation[q], o)
        BY <1>2, <2>1
    <2>3. quotation[q].stage # "REJECTED"
        BY <1>10, <2>2 DEF Convert, ConvertibleStages
    <2>4. /\ quotation'[q] \in Quote
          /\ quotation'[q].version = quotation[q].version + 1
        BY <1>1, <2>2, ConfirmedFields DEF QuoteFields
    <2>. QED
        BY <1>10, <2>2, <2>3, <2>4
<1>11. ASSUME NEW c \in Configs, SaveConfig(c)
      PROVE  Goal
    <2>1. q \in Moved(c) /\ quotation'[q] = Reconfigured(quotation[q], c)
        BY <1>11, SaveConfigWrites
    <2>2. quotation[q].stage \in OpenStages
        BY <2>1 DEF Moved
    <2>. QED
        BY <1>1, <2>1, <2>2, ReconfiguredFields DEF QuoteFields, OpenStages
<1>. QED
    BY <1>3, <1>4, <1>5, <1>6, <1>7, <1>8, <1>9, <1>10, <1>11 DEF Next, vars

(* Every write of a quotation moves its version by one: an editor whose    *)
(* copy is old can always be told so.                                      *)
THEOREM VersionMovesWithEveryWrite == Spec => EveryWriteBumpsVersion
<1>1. DealInv /\ [Next]_vars =>
         [\A q \in Quotations :
             (Exists(q) /\ quotation'[q] # quotation[q]) =>
                 quotation'[q].version = quotation[q].version + 1]_vars
    BY QuotationEvolves
<1>. QED
    BY <1>1, DealInvariant, PTL DEF Spec, EveryWriteBumpsVersion

(* The approval of a rejected quotation is not written any more: it is not *)
(* pending, and only its own quotation could submit or counter it.         *)
LEMMA RejectedApprovalIsKept ==
    ASSUME DealInv, [Next]_vars, NEW q \in Quotations,
           Exists(q), quotation[q].stage = "REJECTED"
    PROVE  approval'[quotation[q].approval] = approval[quotation[q].approval]
<1>. DEFINE a == quotation[q].approval
            Goal == approval'[a] = approval[a]
<1>1. /\ a \in Approvals /\ approval[a] # None /\ approval[a].quotation = q
      /\ approval[a].status = "REJECTED"
    BY InvOf DEF Agrees
<1>2. approval \in [Approvals -> Approval \cup {None}]
    BY DEF DealInv, TypeOK
<1>3. ASSUME NEW p \in Quotations, NEW b \in Approvals, Submit(p, b)
      PROVE  Goal
    <2>1. Exists(p) /\ p # q
        BY <1>3 DEF Submit, MayWrite
    <2>2. b # a
        BY <1>1, <1>3, <2>1, InvOf DEF Submit, IsResubmit
    <2>3. \E doc : approval' = [approval EXCEPT ![b] = doc]
        BY <1>3 DEF Submit
    <2>. QED
        BY <1>1, <1>2, <2>2, <2>3
<1>4. ASSUME NEW p \in Quotations, NEW t \in AllTerms, NEW b \in Approvals, CounterOver(p, t, b)
      PROVE  Goal
    <2>1. Exists(p) /\ p # q
        BY <1>4 DEF CounterOver, CounterAllowed, MayWrite, ClosedToCustomer
    <2>2. b # a
        BY <1>1, <1>4, <2>1, InvOf DEF CounterOver
    <2>3. \E doc : approval' = [approval EXCEPT ![b] = doc]
        BY <1>4 DEF CounterOver
    <2>. QED
        BY <1>1, <1>2, <2>2, <2>3
<1>5. ASSUME NEW b \in Approvals, NEW role \in DecisionRoles,
             Approve(b, role) \/ Return(b, role) \/ Reject(b, role)
      PROVE  Goal
    <2>1. b # a
        BY <1>1, <1>5 DEF Approve, Return, Reject, Decidable, MayDecide
    <2>2. \E doc : approval' = [approval EXCEPT ![b] = doc]
        BY <1>5 DEF Approve, Return, Reject
    <2>. QED
        BY <1>1, <1>2, <2>1, <2>2
<1>6. ASSUME NEW c \in Configs, SaveConfig(c)
      PROVE  Goal
    BY <1>1, <1>6, SaveConfigWrites
<1>. HIDE DEF a
<1>. QED
    BY <1>3, <1>4, <1>5, <1>6
       DEF Next, vars, Create, PatchLines, PatchNotes, CounterWithin, Convert, Goal, a

(* Reject is terminal: neither the quotation nor its approval is ever      *)
(* written again, by anyone.                                               *)
THEOREM RejectionIsTerminal == Spec => RejectedIsTerminal
<1>1. DealInv /\ [Next]_vars =>
         [\A q \in Quotations :
             (Exists(q) /\ quotation[q].stage = "REJECTED") =>
                 /\ quotation'[q] = quotation[q]
                 /\ approval'[quotation[q].approval] = approval[quotation[q].approval]]_vars
    BY QuotationEvolves, RejectedApprovalIsKept
<1>. QED
    BY <1>1, DealInvariant, PTL DEF Spec, RejectedIsTerminal

---------------------------------------------------------------------------
(* The order.                                                              *)

(* A step either leaves the orders alone or converts a quotation.          *)
LEMMA OrderEvolves ==
    ASSUME [Next]_vars
    PROVE  \/ order' = order
           \/ \E q \in Quotations, o \in Orders : Convert(q, o)
BY DEF Next, vars, Create, PatchLines, PatchNotes, Submit, CounterWithin, CounterOver,
       Approve, Return, Reject, SaveConfig

(* A quotation that a step creates is a draft.                             *)
LEMMA NewFromNothing ==
    ASSUME DealInv, [Next]_vars, NEW q \in Quotations, ~Exists(q)
    PROVE  quotation'[q] = None \/ (quotation'[q] = NewQuote(config) /\ config' = config)
<1>. DEFINE Goal ==
           quotation'[q] = None \/ (quotation'[q] = NewQuote(config) /\ config' = config)
<1>1. quotation \in [Quotations -> Quote \cup {None}] /\ quotation[q] = None
    BY DEF DealInv, TypeOK, Exists
<1>2. ASSUME NEW p \in Quotations, NEW quote, Exists(p),
             quotation' = [quotation EXCEPT ![p] = quote]
      PROVE  Goal
    BY <1>1, <1>2 DEF Exists
<1>3. ASSUME NEW p \in Quotations, Create(p)
      PROVE  Goal
    BY <1>1, <1>3 DEF Create
<1>4. ASSUME NEW p \in Quotations, NEW t \in AllTerms, PatchLines(p, t) \/ CounterWithin(p, t)
      PROVE  Goal
    BY <1>2, <1>4 DEF PatchLines, CounterWithin, CounterAllowed, MayWrite
<1>5. ASSUME NEW p \in Quotations, PatchNotes(p)
      PROVE  Goal
    BY <1>2, <1>5 DEF PatchNotes, MayWrite
<1>6. ASSUME NEW p \in Quotations, NEW a \in Approvals, Submit(p, a)
      PROVE  Goal
    BY <1>2, <1>6 DEF Submit, MayWrite
<1>7. ASSUME NEW p \in Quotations, NEW t \in AllTerms, NEW a \in Approvals, CounterOver(p, t, a)
      PROVE  Goal
    BY <1>2, <1>7 DEF CounterOver, CounterAllowed, MayWrite
<1>8. ASSUME NEW a \in Approvals, NEW role \in DecisionRoles,
             Approve(a, role) \/ Return(a, role) \/ Reject(a, role)
      PROVE  Goal
    <2>. DEFINE p == approval[a].quotation
    <2>1. p \in Quotations /\ Exists(p)
        BY <1>8, InvOf DEF Approve, Return, Reject, Decidable
    <2>2. quotation' = quotation \/ \E quote : quotation' = [quotation EXCEPT ![p] = quote]
        BY <1>8 DEF Approve, Return, Reject
    <2>. QED
        BY <1>1, <1>2, <2>1, <2>2
<1>9. ASSUME NEW p \in Quotations, NEW o \in Orders, Convert(p, o)
      PROVE  Goal
    BY <1>2, <1>9 DEF Convert, MayWrite
<1>10. ASSUME NEW c \in Configs, SaveConfig(c)
      PROVE  Goal
    BY <1>1, <1>10, SaveConfigWrites DEF Moved, Exists
<1>. QED
    BY <1>1, <1>3, <1>4, <1>5, <1>6, <1>7, <1>8, <1>9, <1>10 DEF Next, vars

(* What a conversion writes.                                               *)
LEMMA ConvertWrites ==
    ASSUME DealInv, NEW q \in Quotations, NEW o \in Orders, Convert(q, o)
    PROVE  /\ order[o] = None /\ quotation[q].order = None
           /\ order'[o] = [quotation |-> q, terms |-> quotation[q].terms]
           /\ order'[o] # None
           /\ \A r \in Orders : r # o => order'[r] = order[r]
           /\ Exists(q)' /\ quotation'[q].order = o
           /\ quotation'[q].terms = quotation[q].terms
           /\ \A p \in Quotations : p # q => quotation'[p] = quotation[p]
<1>. DEFINE quote == Confirmed(quotation[q], o)
            new == [quotation |-> q, terms |-> quotation[q].terms]
<1>1. /\ quotation \in [Quotations -> Quote \cup {None}] /\ quotation[q] \in Quote
      /\ order \in [Orders -> Order \cup {None}]
    BY InvOf DEF DealInv, TypeOK, Convert, MayWrite
<1>2. /\ quote \in Quote /\ quote.order = o /\ quote.terms = quotation[q].terms
    BY <1>1, ConfirmedFields DEF QuoteFields
<1>3. new \in Order
    BY <1>1 DEF Order, Quote
<1>4. /\ order[o] = None /\ quotation[q].order = None
      /\ order' = [order EXCEPT ![o] = new]
      /\ quotation' = [quotation EXCEPT ![q] = quote]
    BY DEF Convert
<1>5. order'[o] = new /\ \A r \in Orders : r # o => order'[r] = order[r]
    BY <1>1, <1>4
<1>. HIDE DEF quote
<1>6. quotation'[q] = quote /\ \A p \in Quotations : p # q => quotation'[p] = quotation[p]
    BY <1>1, <1>4
<1>7. Exists(q)' /\ new # None
    BY <1>2, <1>3, <1>6, NoneIsNoDocument DEF Exists
<1>. QED
    BY <1>2, <1>4, <1>5, <1>6, <1>7

(* A step keeps the quotations there are, and what they have been given.   *)
LEMMA QuotationsPersist ==
    ASSUME DealInv, [Next]_vars, NEW q \in Quotations, Exists(q)
    PROVE  /\ Exists(q)'
           /\ quotation[q].order # None => quotation'[q].order = quotation[q].order
<1>1. CASE quotation'[q] = quotation[q]
    BY <1>1 DEF Exists
<1>2. CASE quotation'[q] # quotation[q]
    <2>1. quotation'[q] # None
        BY <1>2, QuotationEvolves, NoneIsNoDocument
    <2>2. ASSUME NEW o \in Orders, Convert(q, o)
          PROVE  quotation[q].order = None
        BY <2>2 DEF Convert
    <2>. QED
        BY <1>2, <2>1, <2>2, QuotationEvolves DEF Exists
<1>. QED
    BY <1>1, <1>2

(* Orders and quotations refer to each other after every step.             *)
LEMMA StepKeepsOrders ==
    ASSUME DealInv, OneOrderPerQuotation, [Next]_vars
    PROVE  OneOrderPerQuotation'
<1>1. ASSUME order' = order
      PROVE  OneOrderPerQuotation'
    <2>1. ASSUME NEW o \in Orders, order'[o] # None
          PROVE  quotation'[order'[o].quotation] # None /\ quotation'[order'[o].quotation].order = o
        <3>. DEFINE p == order[o].quotation
        <3>1. order[o] # None /\ order[o] \in Order
            BY <1>1, <2>1, InvOf
        <3>2. p \in Quotations /\ Exists(p) /\ quotation[p].order = o /\ o # None
            BY <3>1, NoneIsNoId DEF OneOrderPerQuotation, Order
        <3>. QED
            BY <1>1, <3>2, QuotationsPersist DEF Exists
    <2>2. ASSUME NEW q \in Quotations, Exists(q)', quotation'[q].stage = "CONFIRMED"
          PROVE  quotation'[q] = quotation[q] /\ Exists(q)
        <3>1. Exists(q)
            <4>1. ASSUME ~Exists(q)
                  PROVE  quotation'[q] = None \/ quotation'[q] = NewQuote(config)
                BY <4>1, <2>2, NewFromNothing
            <4>. QED
                BY <4>1, <2>2 DEF NewQuote, Exists
        <3>2. ASSUME NEW o \in Orders, Convert(q, o)
              PROVE  FALSE
            BY <1>1, <3>2, ConvertWrites
        <3>. QED
            BY <2>2, <3>1, <3>2, QuotationEvolves
    <2>. QED
        BY <1>1, <2>1, <2>2 DEF OneOrderPerQuotation, Exists
<1>2. ASSUME NEW q \in Quotations, NEW o \in Orders, Convert(q, o)
      PROVE  OneOrderPerQuotation'
    <2>. DEFINE new == [quotation |-> q, terms |-> quotation[q].terms]
    <2>0. /\ order[o] = None /\ order'[o] = new
          /\ \A r \in Orders : r # o => order'[r] = order[r]
          /\ quotation'[q] # None /\ quotation'[q].order = o
          /\ quotation'[q].terms = quotation[q].terms
          /\ \A p \in Quotations : p # q => quotation'[p] = quotation[p]
        BY <1>2, ConvertWrites DEF Exists
    <2>1. ASSUME NEW r \in Orders, order'[r] # None
          PROVE  quotation'[order'[r].quotation] # None /\ quotation'[order'[r].quotation].order = r
        <3>1. CASE r = o
            BY <2>0, <3>1
        <3>2. CASE r # o
            <4>. DEFINE p == order[r].quotation
            <4>1. order'[r] = order[r] /\ order[r] \in Order
                BY <2>0, <2>1, <3>2, InvOf
            <4>2. p \in Quotations /\ Exists(p) /\ quotation[p].order = r /\ r # None
                BY <2>1, <4>1, NoneIsNoId DEF OneOrderPerQuotation, Order
            <4>. QED
                BY <4>1, <4>2, QuotationsPersist DEF Exists
        <3>. QED
            BY <3>1, <3>2
    <2>2. ASSUME NEW p \in Quotations, Exists(p)', quotation'[p].stage = "CONFIRMED"
          PROVE  /\ quotation'[p].order # None
                 /\ order'[quotation'[p].order] = [quotation |-> p, terms |-> quotation'[p].terms]
        <3>1. CASE p = q
            BY <2>0, <3>1, NoneIsNoId
        <3>2. CASE p # q
            <4>. DEFINE r == quotation[p].order
            <4>1. quotation'[p] = quotation[p] /\ Exists(p)
                BY <2>0, <2>2, <3>2 DEF Exists
            <4>2. /\ r # None /\ r \in Orders
                  /\ order[r] = [quotation |-> p, terms |-> quotation[p].terms]
                BY <2>2, <4>1, InvOf DEF OneOrderPerQuotation, Quote
            <4>3. [quotation |-> p, terms |-> quotation[p].terms] \in Order
                BY <4>1, InvOf DEF Order, Quote
            <4>4. r # o
                BY <2>0, <4>2, <4>3, NoneIsNoDocument
            <4>. QED
                BY <2>0, <4>1, <4>2, <4>4
        <3>. QED
            BY <3>1, <3>2
    <2>. QED
        BY <2>1, <2>2 DEF OneOrderPerQuotation, Exists
<1>. QED
    BY <1>1, <1>2, OrderEvolves

(* A confirmed quotation has exactly the order made from the terms it has, *)
(* and no quotation ever has two orders.                                   *)
THEOREM OrderIsUnique == Spec => []OneOrderPerQuotation
<1>1. Init => OneOrderPerQuotation
    BY DEF Init, OneOrderPerQuotation, Exists
<1>2. DealInv /\ OneOrderPerQuotation /\ [Next]_vars => OneOrderPerQuotation'
    BY StepKeepsOrders
<1>. QED
    BY <1>1, <1>2, DealInvariant, PTL DEF Spec

(* An order is never changed, replaced or detached from its quotation.     *)
THEOREM OrdersAreKept == Spec => OrderIsKept
<1>1. DealInv /\ [Next]_vars =>
         [/\ \A o \in Orders : order[o] # None => order'[o] = order[o]
          /\ \A q \in Quotations :
                (Exists(q) /\ quotation[q].order # None) =>
                    quotation'[q].order = quotation[q].order]_vars
    <2>. SUFFICES ASSUME DealInv, [Next]_vars
                  PROVE  /\ \A o \in Orders : order[o] # None => order'[o] = order[o]
                         /\ \A q \in Quotations :
                               (Exists(q) /\ quotation[q].order # None) =>
                                   quotation'[q].order = quotation[q].order
        OBVIOUS
    <2>1. \A o \in Orders : order[o] # None => order'[o] = order[o]
        BY OrderEvolves, ConvertWrites
    <2>. QED
        BY <2>1, QuotationsPersist
<1>. QED
    BY <1>1, DealInvariant, PTL DEF Spec, OrderIsKept

---------------------------------------------------------------------------
(* The score.                                                              *)

(* After a step, a quotation's score was computed by that step, or the     *)
(* step touched neither score, terms nor configuration, or it changed the  *)
(* configuration to one under which the score of an open quotation stands. *)
ScoreFollows(q) ==
    \/ quotation'[q].risk = Assess[config'][quotation'[q].terms]
    \/ /\ quotation'[q].risk = quotation[q].risk
       /\ quotation'[q].terms = quotation[q].terms
       /\ config' = config
    \/ /\ quotation'[q] = quotation[q]
       /\ quotation[q].stage \in OpenStages => ~ScoreMoved(quotation[q], config')

(* It does so after a step that writes one quotation.                      *)
LEMMA ScoreOfOneWrite ==
    ASSUME DealInv, NEW q \in Quotations, NEW p \in Quotations, NEW quote,
           quotation' = [quotation EXCEPT ![p] = quote], config' = config,
           \/ quote.risk = Assess[config][quote.terms]
           \/ quote.risk = quotation[p].risk /\ quote.terms = quotation[p].terms
    PROVE  ScoreFollows(q)
<1>1. DOMAIN quotation = Quotations
    BY DEF DealInv, TypeOK
<1>2. CASE p = q
    BY <1>1, <1>2 DEF ScoreFollows
<1>3. CASE p # q
    BY <1>1, <1>3 DEF ScoreFollows
<1>. QED
    BY <1>2, <1>3

(* It does so after every step.                                            *)
LEMMA ScoreEvolves ==
    ASSUME DealInv, [Next]_vars, NEW q \in Quotations, Exists(q)
    PROVE  ScoreFollows(q)
<1>1. \A p \in Quotations : Exists(p) => quotation[p] \in Quote
    BY InvOf
<1>3. ASSUME NEW p \in Quotations, Create(p)
      PROVE  ScoreFollows(q)
    <2>1. config' = config /\ quotation' = [quotation EXCEPT ![p] = NewQuote(config)]
        BY <1>3 DEF Create
    <2>2. NewQuote(config).risk = Assess[config][NewQuote(config).terms]
        BY DEF NewQuote
    <2>. QED
        BY <2>1, <2>2, ScoreOfOneWrite
<1>4. ASSUME NEW p \in Quotations, NEW t \in AllTerms, PatchLines(p, t)
      PROVE  ScoreFollows(q)
    <2>. DEFINE quote == Edited(quotation[p], t, config)
    <2>1. Exists(p) /\ config' = config /\ quotation' = [quotation EXCEPT ![p] = quote]
        BY <1>4 DEF PatchLines, MayWrite
    <2>2. quote.risk = Assess[config][t] /\ quote.terms = t
        BY <1>1, <1>4, <2>1, InvOf, EditedFields DEF QuoteFields
    <2>. HIDE DEF quote
    <2>. QED
        BY <2>1, <2>2, ScoreOfOneWrite
<1>5. ASSUME NEW p \in Quotations, PatchNotes(p)
      PROVE  ScoreFollows(q)
    <2>. DEFINE quote == Bumped(quotation[p])
    <2>1. Exists(p) /\ config' = config /\ quotation' = [quotation EXCEPT ![p] = quote]
        BY <1>5 DEF PatchNotes, MayWrite
    <2>2. quote.risk = quotation[p].risk /\ quote.terms = quotation[p].terms
        BY <1>1, <1>5, <2>1, InvOf, BumpedFields DEF QuoteFields
    <2>. HIDE DEF quote
    <2>. QED
        BY <2>1, <2>2, ScoreOfOneWrite
<1>6. ASSUME NEW p \in Quotations, NEW a \in Approvals, Submit(p, a)
      PROVE  ScoreFollows(q)
    <2>. DEFINE quote == Submitted(quotation[p], a, config)
    <2>1. Exists(p) /\ config' = config /\ quotation' = [quotation EXCEPT ![p] = quote]
        BY <1>6 DEF Submit, MayWrite
    <2>2. quote.risk = Assess[config][quotation[p].terms] /\ quote.terms = quotation[p].terms
        BY <1>1, <1>6, <2>1, InvOf, SubmittedFields DEF QuoteFields
    <2>. HIDE DEF quote
    <2>. QED
        BY <2>1, <2>2, ScoreOfOneWrite
<1>7. ASSUME NEW p \in Quotations, NEW t \in AllTerms, CounterWithin(p, t)
      PROVE  ScoreFollows(q)
    <2>. DEFINE quote == Countered(quotation[p], t, None, config)
    <2>1. Exists(p) /\ config' = config /\ quotation' = [quotation EXCEPT ![p] = quote]
        BY <1>7 DEF CounterWithin, CounterAllowed, MayWrite
    <2>2. quote.risk = Assess[config][t] /\ quote.terms = t
        BY <1>1, <1>7, <2>1, InvOf, CounteredWithinFields DEF QuoteFields, CounterWithin
    <2>. HIDE DEF quote
    <2>. QED
        BY <2>1, <2>2, ScoreOfOneWrite
<1>8. ASSUME NEW p \in Quotations, NEW t \in AllTerms, NEW a \in Approvals, CounterOver(p, t, a)
      PROVE  ScoreFollows(q)
    <2>. DEFINE quote == Countered(quotation[p], t, a, config)
    <2>1. Exists(p) /\ config' = config /\ quotation' = [quotation EXCEPT ![p] = quote]
        BY <1>8 DEF CounterOver, CounterAllowed, MayWrite
    <2>2. quote.risk = Assess[config][t] /\ quote.terms = t
        BY <1>1, <1>8, <2>1, InvOf, CounteredOverFields DEF QuoteFields, CounterOver
    <2>. HIDE DEF quote
    <2>. QED
        BY <2>1, <2>2, ScoreOfOneWrite
<1>9. ASSUME NEW a \in Approvals, NEW role \in DecisionRoles,
             Approve(a, role) \/ Return(a, role) \/ Reject(a, role)
      PROVE  ScoreFollows(q)
    <2>. DEFINE p == approval[a].quotation
    <2>1. p \in Quotations /\ Exists(p) /\ config' = config
        BY <1>9, InvOf DEF Approve, Return, Reject, Decidable
    <2>2. \/ quotation' = quotation
          \/ \E s \in Stage : quotation' = [quotation EXCEPT ![p] = Decided(quotation[p], s)]
        BY <1>9 DEF Approve, Return, Reject, Stage
    <2>3. CASE quotation' = quotation
        BY <2>1, <2>3 DEF ScoreFollows
    <2>4. ASSUME NEW s \in Stage, quotation' = [quotation EXCEPT ![p] = Decided(quotation[p], s)]
          PROVE  ScoreFollows(q)
        <3>. DEFINE quote == Decided(quotation[p], s)
        <3>1. quote.risk = quotation[p].risk /\ quote.terms = quotation[p].terms
            BY <1>1, <2>1, DecidedFields DEF QuoteFields
        <3>2. quotation' = [quotation EXCEPT ![p] = quote]
            BY <2>4
        <3>. HIDE DEF quote, p
        <3>. QED
            BY <2>1, <3>1, <3>2, ScoreOfOneWrite
    <2>. QED
        BY <2>2, <2>3, <2>4
<1>10. ASSUME NEW p \in Quotations, NEW o \in Orders, Convert(p, o)
      PROVE  ScoreFollows(q)
    <2>. DEFINE quote == Confirmed(quotation[p], o)
    <2>1. Exists(p) /\ config' = config /\ quotation' = [quotation EXCEPT ![p] = quote]
        BY <1>10 DEF Convert, MayWrite
    <2>2. quote.risk = quotation[p].risk /\ quote.terms = quotation[p].terms
        BY <1>1, <1>10, <2>1, InvOf, ConfirmedFields DEF QuoteFields
    <2>. HIDE DEF quote
    <2>. QED
        BY <2>1, <2>2, ScoreOfOneWrite
<1>11. ASSUME NEW c \in Configs, SaveConfig(c)
      PROVE  ScoreFollows(q)
    <2>1. config' = c
        BY <1>11, SaveConfigWrites
    <2>2. CASE q \in Moved(c)
        <3>1. quotation'[q] = Reconfigured(quotation[q], c)
            BY <1>11, <2>2, SaveConfigWrites
        <3>. QED
            BY <1>1, <2>1, <3>1, ReconfiguredFields DEF QuoteFields, ScoreFollows
    <2>3. CASE q \notin Moved(c)
        <3>1. quotation'[q] = quotation[q]
            BY <1>11, <2>3, SaveConfigWrites
        <3>. QED
            BY <2>1, <2>3, <3>1 DEF Moved, ScoreFollows
    <2>. QED
        BY <2>2, <2>3
<1>12. CASE UNCHANGED vars
    BY <1>12 DEF vars, ScoreFollows
<1>. QED
    BY <1>3, <1>4, <1>5, <1>6, <1>7, <1>8, <1>9, <1>10, <1>11, <1>12 DEF Next

(* The score of every open quotation is current after every step.          *)
LEMMA StepKeepsScore ==
    ASSUME DealInv, OneOrderPerQuotation, ScoreIsCurrent, [Next]_vars
    PROVE  ScoreIsCurrent'
<1>. SUFFICES ASSUME NEW q \in Quotations, quotation'[q] # None,
                     quotation'[q].stage \in OpenStages, quotation'[q].order = None
              PROVE  ~ScoreMoved(quotation'[q], config')
    BY DEF ScoreIsCurrent, Exists
<1>1. CASE ~Exists(q)
    <2>1. quotation'[q] = NewQuote(config) /\ config' = config
        BY <1>1, NewFromNothing
    <2>. QED
        BY <2>1 DEF NewQuote, ScoreMoved
<1>2. CASE Exists(q)
    <2>1. quotation[q] \in Quote /\ quotation[q].order = None
        BY <1>2, InvOf, QuotationsPersist
    <2>2. quotation[q].stage # "CONFIRMED"
        BY <1>2, <2>1 DEF OneOrderPerQuotation
    <2>3. quotation[q].stage # "REJECTED"
        BY <1>2, QuotationEvolves DEF OpenStages
    <2>4. quotation[q].stage \in OpenStages
        BY <2>1, <2>2, <2>3 DEF Quote, Stage, OpenStages
    <2>5. ~ScoreMoved(quotation[q], config)
        BY <1>2, <2>1, <2>4 DEF ScoreIsCurrent
    <2>. QED
        BY <1>2, <2>4, <2>5, ScoreEvolves DEF ScoreFollows, ScoreMoved
<1>. QED
    BY <1>1, <1>2

(* Nobody decides on a score that an older configuration computed.         *)
THEOREM ScoreStaysCurrent == Spec => []ScoreIsCurrent
<1>1. Init => ScoreIsCurrent
    BY DEF Init, ScoreIsCurrent, Exists
<1>2. DealInv /\ OneOrderPerQuotation /\ ScoreIsCurrent /\ [Next]_vars => ScoreIsCurrent'
    BY StepKeepsScore
<1>. QED
    BY <1>1, <1>2, DealInvariant, OrderIsUnique, PTL DEF Spec

---------------------------------------------------------------------------
(* What a customer may confirm was signed off, as long as the saved        *)
(* configuration stays what it is.                                         *)

(* The steps of doc are those of the chain.                                *)
HasRoles(doc, chain) ==
    /\ DOMAIN doc.steps = DOMAIN chain
    /\ \A i \in DOMAIN chain : doc.steps[i].role = chain[i]

AllApproved(doc) == \A i \in DOMAIN doc.steps : doc.steps[i].status = "APPROVED"

(* A quotation shows the risk of its terms.  If that needs somebody, it is *)
(* not under negotiation, it waits on steps for them, and if it left them  *)
(* towards an order each of them has approved.                             *)
Reviewed(quote, doc, c) ==
    /\ quote.risk = Assess[c][quote.terms]
    /\ ~IsAutoApproved(quote.risk) =>
          /\ quote.stage # "NEGOTIATION"
          /\ quote.stage \in {"PENDING_APPROVAL", "APPROVED", "CONFIRMED"} => HasRoles(doc, quote.risk.chain)
          /\ quote.stage \in {"APPROVED", "CONFIRMED"} => AllApproved(doc)

ReviewInv ==
    \A q \in Quotations :
        Exists(q) => Reviewed(quotation[q], approval[quotation[q].approval], config)

(* What has to be shown of a step that writes the quotation p and, if any, *)
(* the approval a, when a is nobody else's.                                *)
LEMMA OthersStayReviewed ==
    ASSUME DealInv, ReviewInv, NEW p \in Quotations, NEW a \in Approvals, NEW quote, NEW doc,
           quotation' = [quotation EXCEPT ![p] = quote],
           approval' = [approval EXCEPT ![a] = doc],
           config' = config,
           approval[a] # None => approval[a].quotation = p,
           quote.approval = a, Reviewed(quote, doc, config)
    PROVE  ReviewInv'
<1>1. /\ \A q \in Quotations : quotation'[q] = IF q = p THEN quote ELSE quotation[q]
      /\ \A b \in Approvals : approval'[b] = IF b = a THEN doc ELSE approval[b]
    BY DEF DealInv, TypeOK
<1>. SUFFICES ASSUME NEW q \in Quotations, quotation'[q] # None
              PROVE  Reviewed(quotation'[q], approval'[quotation'[q].approval], config)
    BY DEF ReviewInv, Exists
<1>2. CASE q = p
    BY <1>1, <1>2
<1>3. CASE q # p
    <2>1. quotation'[q] = quotation[q] /\ Exists(q)
        BY <1>1, <1>3 DEF Exists
    <2>2. Reviewed(quotation[q], approval[quotation[q].approval], config)
        BY <2>1 DEF ReviewInv
    <2>3. CASE quotation[q].approval = None
        BY <2>1, <2>2, <2>3, InvOf DEF Reviewed
    <2>4. CASE quotation[q].approval # None
        <3>1. /\ quotation[q].approval \in Approvals /\ approval[quotation[q].approval] # None
              /\ approval[quotation[q].approval].quotation = q
            BY <2>1, <2>4, InvOf
        <3>2. quotation[q].approval # a
            BY <1>3, <3>1
        <3>. QED
            BY <1>1, <2>1, <2>2, <3>1, <3>2
    <2>. QED
        BY <2>3, <2>4
<1>. QED
    BY <1>2, <1>3

LEMMA QuotationStaysReviewed ==
    ASSUME DealInv, ReviewInv, NEW p \in Quotations, NEW quote,
           quotation' = [quotation EXCEPT ![p] = quote],
           UNCHANGED <<approval, config>>,
           Reviewed(quote, approval[quote.approval], config)
    PROVE  ReviewInv'
<1>1. \A q \in Quotations : quotation'[q] = IF q = p THEN quote ELSE quotation[q]
    BY DEF DealInv, TypeOK
<1>. QED
    BY <1>1 DEF ReviewInv, Exists

(* Filling in an approval gives it the roles of the chain.                 *)
LEMMA OpenedHasRoles ==
    ASSUME NEW doc \in Approval, NEW risk \in Risk, ~IsAutoApproved(risk)
    PROVE  /\ HasRoles(SubmittedApproval(doc, risk), risk.chain)
           /\ HasRoles(ReopenedApproval(doc, risk), risk.chain)
<1>1. risk.chain \in Seq(Roles)
    BY DEF Risk
<1>. DEFINE s == OpenSteps(risk.chain)
<1>2. DOMAIN s = DOMAIN risk.chain /\ \A i \in DOMAIN risk.chain : s[i].role = risk.chain[i]
    BY <1>1 DEF OpenSteps
<1>. HIDE DEF s
<1>3. SubmittedApproval(doc, risk).steps = s /\ ReopenedApproval(doc, risk).steps = s
    BY DEF SubmittedApproval, ReopenedApproval, Approval, s
<1>. QED
    BY <1>2, <1>3 DEF HasRoles

(* Writing a status keeps the roles.                                       *)
LEMMA WithStatusRoles ==
    ASSUME NEW steps \in Seq(Step), NEW i \in DOMAIN steps, NEW st \in StepStatus,
           NEW j \in DOMAIN steps
    PROVE  WithStatus(steps, i, st)[j].role = steps[j].role
<1>. DEFINE e == [steps[i] EXCEPT !.status = st]
<1>1. steps \in [1..Len(steps) -> Step] /\ i \in 1..Len(steps) /\ j \in 1..Len(steps)
    OBVIOUS
<1>2. e.role = steps[i].role
    BY <1>1 DEF Step
<1>3. WithStatus(steps, i, st) = [steps EXCEPT ![i] = e]
    BY DEF WithStatus
<1>. HIDE DEF e
<1>. QED
    BY <1>1, <1>2, <1>3

(* An approved step keeps the roles, and the last one completes them.      *)
LEMMA ApprovedHasRoles ==
    ASSUME NEW doc \in Approval, StepsInOrder(doc)
    PROVE  /\ DOMAIN ApprovedStep(doc).steps = DOMAIN doc.steps
           /\ \A j \in DOMAIN doc.steps : ApprovedStep(doc).steps[j].role = doc.steps[j].role
           /\ IsLastStep(doc) => AllApproved(ApprovedStep(doc))
<1>. DEFINE s == WithStatus(doc.steps, doc.active, "APPROVED")
            u == WithStatus(s, doc.active + 1, "ACTIVE")
<1>0. "APPROVED" \in StepStatus /\ "ACTIVE" \in StepStatus
    BY DEF StepStatus
<1>1. doc.steps \in Seq(Step) /\ doc.active \in Nat /\ doc.active \in DOMAIN doc.steps
    BY DEF Approval, StepsInOrder
<1>2. s \in Seq(Step) /\ DOMAIN s = DOMAIN doc.steps
    BY <1>0, <1>1, WithStatusType, ApprovalsHaveSteps
<1>3. ASSUME NEW j \in DOMAIN doc.steps
      PROVE  /\ s[j].role = doc.steps[j].role
             /\ j = doc.active => s[j].status = "APPROVED"
             /\ j # doc.active => s[j] = doc.steps[j]
    BY <1>0, <1>1, WithStatusAt, WithStatusRoles
<1>. HIDE DEF s
<1>4. CASE IsLastStep(doc)
    <2>1. ApprovedStep(doc).steps = s
        BY <1>4 DEF ApprovedStep, Approval, s
    <2>2. ASSUME NEW j \in DOMAIN doc.steps
          PROVE  s[j].status = "APPROVED"
        <3>1. j <= doc.active
            BY <1>1, <1>4 DEF IsLastStep
        <3>2. CASE j = doc.active
            BY <1>3, <3>2
        <3>3. CASE j # doc.active
            <4>1. j < doc.active
                BY <1>1, <3>1, <3>3
            <4>. QED
                BY <1>3, <3>3, <4>1 DEF StepsInOrder
        <3>. QED
            BY <3>2, <3>3
    <2>. QED
        BY <1>2, <1>3, <2>1, <2>2 DEF AllApproved
<1>5. CASE ~IsLastStep(doc)
    <2>1. doc.active + 1 \in DOMAIN s
        BY <1>2, <1>5 DEF IsLastStep
    <2>2. DOMAIN u = DOMAIN doc.steps
        BY <1>0, <1>2, <2>1, WithStatusType, ApprovalsHaveSteps
    <2>3. ASSUME NEW j \in DOMAIN doc.steps
          PROVE  u[j].role = s[j].role
        BY <1>0, <1>2, <2>1, WithStatusRoles
    <2>4. ApprovedStep(doc).steps = u
        BY <1>5 DEF ApprovedStep, Approval, s, u
    <2>. HIDE DEF u
    <2>. QED
        BY <1>3, <1>5, <2>2, <2>3, <2>4
<1>. QED
    BY <1>4, <1>5

LEMMA SubmitReviews ==
    ASSUME DealInv, ReviewInv, NEW q \in Quotations, NEW a \in Approvals, Submit(q, a)
    PROVE  ReviewInv'
<1>. DEFINE risk == Assess[config][quotation[q].terms]
            doc == IF IsResubmit(quotation[q]) THEN approval[a] ELSE NewApproval(q, risk)
            quote == Submitted(quotation[q], a, config)
            new == SubmittedApproval(doc, risk)
<1>1. Exists(q) /\ quotation[q] \in Quote /\ config \in Configs
    BY InvOf DEF Submit, MayWrite
<1>2. risk \in Risk
    BY <1>1, AssessIsRisk DEF Quote
<1>3. /\ quotation' = [quotation EXCEPT ![q] = quote]
      /\ approval' = [approval EXCEPT ![a] = new]
      /\ config' = config
    BY DEF Submit
<1>4. doc \in Approval /\ (approval[a] # None => approval[a].quotation = q)
    BY <1>1, <1>2, InvOf, NewApprovalType DEF Submit, IsResubmit
<1>5. /\ quote.approval = a /\ quote.risk = risk /\ quote.terms = quotation[q].terms
      /\ quote.stage = IF IsAutoApproved(risk) THEN "APPROVED" ELSE "PENDING_APPROVAL"
    BY <1>1, SubmittedFields DEF QuoteFields
<1>6. ~IsAutoApproved(risk) => HasRoles(new, risk.chain)
    BY <1>2, <1>4, OpenedHasRoles
<1>7. risk = Assess[config][quote.terms]
    BY <1>5
<1>. HIDE DEF quote, new, doc, risk
<1>8. Reviewed(quote, new, config)
    BY <1>5, <1>6, <1>7 DEF Reviewed
<1>. QED
    BY <1>3, <1>4, <1>5, <1>8, OthersStayReviewed

LEMMA CounterOverReviews ==
    ASSUME DealInv, ReviewInv, NEW q \in Quotations, NEW t \in AllTerms, NEW a \in Approvals,
           CounterOver(q, t, a)
    PROVE  ReviewInv'
<1>. DEFINE risk == Assess[config][t]
            quote == Countered(quotation[q], t, a, config)
            new == ReopenedApproval(approval[a], risk)
<1>1. Exists(q) /\ quotation[q] \in Quote /\ quotation[q].stage # "DRAFT" /\ config \in Configs
    BY InvOf DEF CounterOver, CounterAllowed, MayWrite, ClosedToCustomer
<1>2. quotation[q].approval = a /\ approval[a] \in Approval /\ approval[a].quotation = q
    BY <1>1, InvOf, NoneIsNoId DEF CounterOver
<1>3. /\ quotation' = [quotation EXCEPT ![q] = quote]
      /\ approval' = [approval EXCEPT ![a] = new]
      /\ config' = config /\ ~IsAutoApproved(risk)
    BY <1>1, <1>2, InvOf DEF CounterOver
<1>4. risk \in Risk
    BY <1>1, AssessIsRisk
<1>5. /\ quote.approval = a /\ quote.risk = risk /\ quote.terms = t
      /\ quote.stage = "PENDING_APPROVAL"
    BY <1>1, <1>3, CounteredOverFields DEF QuoteFields
<1>6. HasRoles(new, risk.chain)
    BY <1>2, <1>3, <1>4, OpenedHasRoles
<1>7. risk = Assess[config][quote.terms]
    BY <1>5
<1>. HIDE DEF quote, new, risk
<1>8. Reviewed(quote, new, config)
    BY <1>5, <1>6, <1>7 DEF Reviewed
<1>. QED
    BY <1>2, <1>3, <1>5, <1>8, OthersStayReviewed

(* A quotation whose risk needs somebody waits while its approval pends.   *)
LEMMA PendingMeansWaiting ==
    ASSUME DealInv, PendingStepsInOrder, ReviewInv, NEW a \in Approvals, approval[a] # None,
           approval[a].status = "PENDING", ~IsAutoApproved(quotation[approval[a].quotation].risk)
    PROVE  /\ quotation[approval[a].quotation].stage = "PENDING_APPROVAL"
           /\ HasRoles(approval[a], quotation[approval[a].quotation].risk.chain)
<1>. PICK quote : quote = quotation[approval[a].quotation]
    OBVIOUS
<1>1. quote \in Quote /\ Agrees(quote, approval[a]) /\ Reviewed(quote, approval[a], config)
    BY InvOf DEF ReviewInv
<1>2. ~AllApproved(approval[a])
    BY DEF PendingStepsInOrder, StepsInOrder, AllApproved
<1>3. quote.stage \notin {"DRAFT", "APPROVED", "REJECTED", "NEGOTIATION", "CONFIRMED"}
    BY <1>1, <1>2 DEF Agrees, Reviewed
<1>4. quote.stage = "PENDING_APPROVAL"
    BY <1>1, <1>3 DEF Quote, Stage
<1>. QED
    BY <1>1, <1>4 DEF Reviewed

LEMMA DecisionReviews ==
    ASSUME DealInv, PendingStepsInOrder, ReviewInv, NEW a \in Approvals, NEW role,
           Approve(a, role) \/ Return(a, role) \/ Reject(a, role)
    PROVE  ReviewInv'
<1>. DEFINE doc == approval[a]
            q == approval[a].quotation
<1>1. /\ doc # None /\ doc \in Approval /\ doc.status = "PENDING" /\ StepsInOrder(doc)
      /\ q \in Quotations /\ Exists(q) /\ quotation[q] \in Quote /\ quotation[q].approval = a
    BY InvOf DEF Approve, Return, Reject, Decidable, MayDecide, PendingStepsInOrder
<1>2. Reviewed(quotation[q], doc, config)
    BY <1>1 DEF ReviewInv
<1>3. /\ DOMAIN ApprovedStep(doc).steps = DOMAIN doc.steps
      /\ \A j \in DOMAIN doc.steps : ApprovedStep(doc).steps[j].role = doc.steps[j].role
      /\ IsLastStep(doc) => AllApproved(ApprovedStep(doc))
    BY <1>1, ApprovedHasRoles
<1>4. ~IsAutoApproved(quotation[q].risk) =>
         /\ quotation[q].stage = "PENDING_APPROVAL"
         /\ HasRoles(ApprovedStep(doc), quotation[q].risk.chain)
    BY <1>1, <1>3, PendingMeansWaiting DEF HasRoles
<1>5. \A s \in {"APPROVED", "DRAFT", "REJECTED"} :
         /\ Decided(quotation[q], s).stage = s
         /\ Decided(quotation[q], s).approval = a
         /\ Decided(quotation[q], s).risk = quotation[q].risk
         /\ Decided(quotation[q], s).terms = quotation[q].terms
    BY <1>1, DecidedFields DEF QuoteFields, Stage
<1>6. CASE Approve(a, role) /\ IsLastStep(doc)
    <2>. DEFINE quote == Decided(quotation[q], "APPROVED")
                new == ApprovedStep(doc)
    <2>1. /\ quotation' = [quotation EXCEPT ![q] = quote]
          /\ approval' = [approval EXCEPT ![a] = new] /\ config' = config
        BY <1>6 DEF Approve
    <2>2. quote.approval = a /\ Reviewed(quote, new, config)
        BY <1>2, <1>3, <1>4, <1>5, <1>6 DEF Reviewed
    <2>. HIDE DEF quote, new
    <2>. QED
        BY <1>1, <2>1, <2>2, OthersStayReviewed
<1>7. CASE Approve(a, role) /\ ~IsLastStep(doc)
    <2>. DEFINE new == ApprovedStep(doc)
    <2>1. /\ quotation' = [quotation EXCEPT ![q] = quotation[q]]
          /\ approval' = [approval EXCEPT ![a] = new] /\ config' = config
        BY <1>7 DEF Approve, DealInv, TypeOK
    <2>2. Reviewed(quotation[q], new, config)
        BY <1>2, <1>4 DEF Reviewed
    <2>. HIDE DEF new
    <2>. QED
        BY <1>1, <2>1, <2>2, OthersStayReviewed
<1>8. ASSUME NEW s \in {"DRAFT", "REJECTED"}, NEW new,
             quotation' = [quotation EXCEPT ![q] = Decided(quotation[q], s)],
             approval' = [approval EXCEPT ![a] = new], config' = config
      PROVE  ReviewInv'
    <2>. DEFINE quote == Decided(quotation[q], s)
    <2>1. quote.approval = a /\ Reviewed(quote, new, config)
        BY <1>2, <1>5 DEF Reviewed
    <2>2. quotation' = [quotation EXCEPT ![q] = quote]
        BY <1>8
    <2>. HIDE DEF quote
    <2>. QED
        BY <1>1, <1>8, <2>1, <2>2, OthersStayReviewed
<1>. QED
    BY <1>6, <1>7, <1>8 DEF Approve, Return, Reject

(* The handlers that write the quotation alone.                            *)
LEMMA QuotationAloneReviews ==
    ASSUME DealInv, ReviewInv, NEW q \in Quotations,
           \/ Create(q)
           \/ PatchNotes(q)
           \/ \E t \in AllTerms : PatchLines(q, t) \/ CounterWithin(q, t)
           \/ \E o \in Orders : Convert(q, o)
    PROVE  ReviewInv'
<1>0. config \in Configs /\ NoLines \in AllTerms
    BY InvOf DEF AllTerms
<1>1. Exists(q) => quotation[q] \in Quote /\ Reviewed(quotation[q], approval[quotation[q].approval], config)
    BY InvOf DEF ReviewInv
<1>2. CASE Create(q)
    <2>. DEFINE quote == NewQuote(config)
    <2>1. quotation' = [quotation EXCEPT ![q] = quote] /\ UNCHANGED <<approval, config>>
        BY <1>2 DEF Create
    <2>2. quote.stage = "DRAFT" /\ quote.risk = Assess[config][quote.terms]
        BY DEF NewQuote
    <2>. HIDE DEF quote
    <2>3. Reviewed(quote, approval[quote.approval], config)
        BY <2>2 DEF Reviewed
    <2>. QED
        BY <2>1, <2>3, QuotationStaysReviewed
<1>3. CASE PatchNotes(q)
    <2>. DEFINE quote == Bumped(quotation[q])
    <2>1. /\ quotation' = [quotation EXCEPT ![q] = quote] /\ UNCHANGED <<approval, config>>
          /\ Exists(q)
        BY <1>3 DEF PatchNotes, MayWrite
    <2>2. /\ quote.stage = quotation[q].stage /\ quote.risk = quotation[q].risk
          /\ quote.terms = quotation[q].terms /\ quote.approval = quotation[q].approval
        BY <1>1, <2>1, BumpedFields DEF QuoteFields
    <2>. HIDE DEF quote
    <2>3. Reviewed(quote, approval[quote.approval], config)
        BY <1>1, <2>1, <2>2 DEF Reviewed
    <2>. QED
        BY <2>1, <2>3, QuotationStaysReviewed
<1>4. ASSUME NEW t \in AllTerms, PatchLines(q, t)
      PROVE  ReviewInv'
    <2>. DEFINE quote == Edited(quotation[q], t, config)
    <2>1. /\ quotation' = [quotation EXCEPT ![q] = quote] /\ UNCHANGED <<approval, config>>
          /\ Exists(q) /\ quotation[q].stage = "DRAFT"
        BY <1>4 DEF PatchLines, MayWrite
    <2>2. quote.stage = "DRAFT" /\ quote.risk = Assess[config][t] /\ quote.terms = t
        BY <1>0, <1>1, <2>1, EditedFields DEF QuoteFields
    <2>. HIDE DEF quote
    <2>3. Reviewed(quote, approval[quote.approval], config)
        BY <2>2 DEF Reviewed
    <2>. QED
        BY <2>1, <2>3, QuotationStaysReviewed
<1>5. ASSUME NEW t \in AllTerms, CounterWithin(q, t)
      PROVE  ReviewInv'
    <2>. DEFINE quote == Countered(quotation[q], t, None, config)
    <2>1. /\ quotation' = [quotation EXCEPT ![q] = quote] /\ UNCHANGED <<approval, config>>
          /\ Exists(q) /\ IsAutoApproved(Assess[config][t])
        BY <1>5 DEF CounterWithin, CounterAllowed, MayWrite
    <2>2. quote.risk = Assess[config][t] /\ quote.terms = t
        BY <1>0, <1>1, <2>1, CounteredWithinFields DEF QuoteFields
    <2>. HIDE DEF quote
    <2>3. Reviewed(quote, approval[quote.approval], config)
        BY <2>1, <2>2 DEF Reviewed
    <2>. QED
        BY <2>1, <2>3, QuotationStaysReviewed
<1>6. ASSUME NEW o \in Orders, Convert(q, o)
      PROVE  ReviewInv'
    <2>. DEFINE quote == Confirmed(quotation[q], o)
    <2>1. /\ quotation' = [quotation EXCEPT ![q] = quote] /\ UNCHANGED <<approval, config>>
          /\ Exists(q) /\ quotation[q].stage \in {"APPROVED", "NEGOTIATION"}
        BY <1>6 DEF Convert, MayWrite, ConvertibleStages
    <2>2. /\ quote.stage = "CONFIRMED" /\ quote.risk = quotation[q].risk
          /\ quote.terms = quotation[q].terms /\ quote.approval = quotation[q].approval
        BY <1>1, <2>1, ConfirmedFields DEF QuoteFields
    <2>. HIDE DEF quote
    <2>3. Reviewed(quote, approval[quote.approval], config)
        BY <1>1, <2>1, <2>2 DEF Reviewed
    <2>. QED
        BY <2>1, <2>3, QuotationStaysReviewed
<1>. QED
    BY <1>2, <1>3, <1>4, <1>5, <1>6

(* Saving the configuration that is saved already writes no document.      *)
LEMMA SameConfigReviews ==
    ASSUME DealInv, ReviewInv, NEW c \in Configs, SaveConfig(c), config' = config
    PROVE  ReviewInv'
<1>1. c = config
    BY SaveConfigWrites
<1>2. Moved(c) = {}
    BY <1>1 DEF Moved, ReviewInv, Reviewed, ScoreMoved
<1>3. \A q \in Quotations : quotation'[q] = quotation[q]
    BY <1>2, SaveConfigWrites
<1>4. \A a \in Approvals : approval'[a] = approval[a]
    BY <1>2, SaveConfigWrites
<1>. SUFFICES ASSUME NEW q \in Quotations, quotation[q] # None
              PROVE  Reviewed(quotation[q], approval'[quotation[q].approval], config)
    BY <1>3 DEF ReviewInv, Exists
<1>5. Reviewed(quotation[q], approval[quotation[q].approval], config)
    BY DEF ReviewInv, Exists
<1>6. CASE quotation[q].approval = None
    BY <1>5, <1>6, InvOf DEF Exists, Reviewed
<1>7. CASE quotation[q].approval # None
    BY <1>4, <1>5, <1>7, InvOf DEF Exists
<1>. QED
    BY <1>6, <1>7

LEMMA StepKeepsReview ==
    ASSUME DealInv, PendingStepsInOrder, ReviewInv, [Next]_vars, config' = config
    PROVE  ReviewInv'
<1>1. CASE UNCHANGED vars
    BY <1>1 DEF vars, ReviewInv, Exists
<1>. QED
    BY <1>1, SubmitReviews, CounterOverReviews, DecisionReviews, QuotationAloneReviews,
       SameConfigReviews DEF Next

(* A quotation that waits can always be decided by an administrator.       *)
LEMMA WaitingIsDecidable ==
    ASSUME DealInv, PendingStepsInOrder, NEW q \in Quotations, Exists(q),
           quotation[q].stage = "PENDING_APPROVAL"
    PROVE  /\ quotation[q].approval # None
           /\ MayDecide(approval[quotation[q].approval], "ADMIN")
BY InvOf DEF Agrees, PendingStepsInOrder, StepsInOrder, MayDecide

(* What may be confirmed needs nobody or has an approved step for each     *)
(* role of its chain.                                                      *)
LEMMA ConvertibleIsSigned ==
    ASSUME DealInv, ReviewInv, NEW q \in Quotations, Exists(q),
           quotation[q].stage \in ConvertibleStages, ~IsAutoApproved(quotation[q].risk),
           NEW i \in DOMAIN quotation[q].risk.chain
    PROVE  LET steps == approval[quotation[q].approval].steps
           IN  /\ i \in DOMAIN steps
               /\ steps[i] = [role |-> quotation[q].risk.chain[i], status |-> "APPROVED"]
<1>. PICK doc : doc = approval[quotation[q].approval]
    OBVIOUS
<1>1. doc \in Approval
    BY InvOf DEF ConvertibleStages
<1>2. HasRoles(doc, quotation[q].risk.chain) /\ AllApproved(doc)
    BY DEF ReviewInv, Reviewed, ConvertibleStages
<1>3. i \in DOMAIN doc.steps /\ doc.steps[i] \in Step
    BY <1>1, <1>2 DEF HasRoles, Approval
<1>. QED
    BY <1>2, <1>3 DEF HasRoles, AllApproved, Step

---------------------------------------------------------------------------
(* The screens.                                                            *)

LEMMA StepperShows ==
    ASSUME NEW doc \in Approval, NEW i \in DOMAIN doc.steps
    PROVE  Stepper(doc)[i + 1] = StepShown(doc.steps[i].status)
<1>. DEFINE middle == [j \in DOMAIN doc.steps |-> StepShown(doc.steps[j].status)]
            last == <<IF doc.status = "APPROVED" THEN "done" ELSE "pending">>
<1>1. doc.steps \in Seq(Step) /\ DOMAIN doc.steps = 1..Len(doc.steps) /\ Len(doc.steps) \in Nat
    BY DEF Approval
<1>2. middle \in Seq({StepShown(doc.steps[j].status) : j \in DOMAIN doc.steps}) /\ Len(middle) = Len(doc.steps)
    BY <1>1
<1>3. middle[i] = StepShown(doc.steps[i].status)
    OBVIOUS
<1>4. Stepper(doc) = (<<"done">> \o middle) \o last
    BY DEF Stepper
<1>. HIDE DEF middle, last
<1>5. (<<"done">> \o middle)[i + 1] = middle[i] /\ i + 1 \in 1..Len(<<"done">> \o middle)
    BY <1>1, <1>2, SMTT(30)
<1>. QED
    BY <1>1, <1>2, <1>3, <1>4, <1>5 DEF last

LEMMA QueueHolds ==
    ASSUME DealInv, PendingStepsInOrder, NEW a \in Approvals, approval[a] # None
    PROVE  QueueIsTrue(a)
<1>. PICK doc : doc = approval[a]
    OBVIOUS
<1>1. doc \in Approval
    BY DEF DealInv, TypeOK
<1>2. doc.status = "PENDING" => StepsInOrder(doc)
    BY DEF PendingStepsInOrder
<1>. SUFFICES ASSUME NEW role \in DecisionRoles
              PROVE  /\ CanAct(doc, role) <=> AcceptsDecision(doc, role)
                     /\ (a \in OnMyDesk(role) \/ (role = "ADMIN" /\ doc.status = "PENDING"))
                           <=> CanAct(doc, role)
                     /\ CanAct(doc, role) =>
                           /\ a \in ApprovalQueue(role)
                           /\ SaysFullyApproved(doc) <=> IsLastStep(doc)
                           /\ Stepper(doc)[doc.active + 1] = "active"
    BY Zenon DEF QueueIsTrue
<1>3. CanAct(doc, role) <=> AcceptsDecision(doc, role)
    BY DEF CanAct, AcceptsDecision, MayDecide
<1>4. CanAct(doc, role) => ApprovalListed(doc, role)
    BY DEF CanAct, ApprovalListed, Activated
<1>5. CanAct(doc, role) => a \in ApprovalQueue(role)
    BY <1>4 DEF ApprovalQueue
<1>6. CanAct(doc, role) => (a \in OnMyDesk(role) \/ (role = "ADMIN" /\ doc.status = "PENDING"))
    BY <1>5 DEF CanAct, OnMyDesk
<1>7. a \in OnMyDesk(role) \/ (role = "ADMIN" /\ doc.status = "PENDING") => CanAct(doc, role)
    BY <1>2 DEF CanAct, OnMyDesk, StepsInOrder
<1>8. CanAct(doc, role) => (SaysFullyApproved(doc) <=> IsLastStep(doc))
  <2>. SUFFICES ASSUME CanAct(doc, role) PROVE SaysFullyApproved(doc) <=> IsLastStep(doc)
      OBVIOUS
  <2>1. StepsInOrder(doc)
      BY <1>2 DEF CanAct
  <2>2. doc.active \in Nat /\ DOMAIN doc.steps = 1..Len(doc.steps) /\ Len(doc.steps) \in Nat
      BY <1>1 DEF Approval
  <2>3. CASE IsLastStep(doc)
    <3>1. \A i \in DOMAIN doc.steps : i < doc.active \/ i = doc.active
        BY <2>1, <2>2, <2>3 DEF IsLastStep, StepsInOrder
    <3>2. SaysFullyApproved(doc)
        BY <2>1, <3>1 DEF StepsInOrder, SaysFullyApproved
    <3>. QED
        BY <2>3, <3>2
  <2>4. CASE ~IsLastStep(doc)
    <3>1. doc.active + 1 \in DOMAIN doc.steps /\ doc.active + 1 > doc.active
        BY <2>2, <2>4 DEF IsLastStep
    <3>2. ~SaysFullyApproved(doc)
        BY <2>1, <3>1 DEF StepsInOrder, SaysFullyApproved
    <3>. QED
        BY <2>4, <3>2
  <2>. QED
      BY <2>3, <2>4
<1>9. CanAct(doc, role) => Stepper(doc)[doc.active + 1] = "active"
    BY <1>1, StepperShows DEF CanAct, StepShown
<1>. QED
    BY <1>3, <1>5, <1>6, <1>7, <1>8, <1>9

LEMMA OpenGoesOn ==
    ASSUME DealInv, PendingStepsInOrder, NEW q \in Quotations, Exists(q),
           quotation[q].stage \in OpenStages
    PROVE  GoesOn(quotation[q])
<1>. PICK quote : quote = quotation[q]
    OBVIOUS
<1>1. CASE quote.stage = "DRAFT"
  <2>1. "save" \in QuotationPage(quote) \ {"reissue", "dismiss"}
      BY <1>1 DEF QuotationPage, HeaderOffers, Editable
  <2>2. Accepted("save", quote, "ADMIN") /\ QuotationListed(quote, "ADMIN") /\ "ADMIN" \in InternalRoles
      BY <1>1 DEF Accepted, EditsOfTheBuilder, AcceptsEdit, WriteRoles, QuotationListed, InternalRoles
  <2>. QED
      BY <2>1, <2>2 DEF GoesOn
<1>2. CASE quote.stage = "PENDING_APPROVAL"
  <2>. PICK a : a = quote.approval
      OBVIOUS
  <2>1. a # None /\ a \in Approvals /\ approval[a] # None /\ approval[a].status = "PENDING"
    <3>1. quote \in Quote
        BY DEF DealInv, TypeOK, Exists
    <3>2. a # None /\ approval[a] # None /\ approval[a].status = "PENDING"
        BY <1>2 DEF DealInv, StageAgreesWithApproval, Agrees
    <3>. QED
        BY <3>1, <3>2 DEF Quote
  <2>2. CanAct(approval[a], "ADMIN")
      BY <2>1 DEF PendingStepsInOrder, StepsInOrder, CanAct
  <2>3. "ADMIN" \in DecisionRoles /\ a \in ApprovalQueue("ADMIN")
      BY <2>1 DEF DecisionRoles, ApprovalQueue, ApprovalListed
  <2>4. AcceptsDecision(approval[a], "ADMIN") /\ DecisionOffers(approval[a], "ADMIN") # {}
      BY <2>2, <2>3 DEF AcceptsDecision, MayDecide, CanAct, DecisionOffers
  <2>. QED
      BY <2>1, <2>3, <2>4 DEF GoesOn
<1>3. CASE quote.stage \in ConvertibleStages
    BY <1>3 DEF GoesOn, PortalPage, AcceptsConfirm, ConvertibleStages
<1>. QED
    BY <1>1, <1>2, <1>3 DEF OpenStages, ConvertibleStages

LEMMA BoardShowsTheList ==
    ASSUME DealInv, NEW q \in Quotations, NEW role \in InternalRoles,
           Exists(q), quotation[q].stage # "REJECTED"
    PROVE  QuotationListed(quotation[q], role)
               <=> \E stage \in DOMAIN Board(role) : q \in Board(role)[stage]
<1>1. quotation[q].stage \in KanbanStages
    BY DEF DealInv, TypeOK, Exists, Quote, Stage, KanbanStages
<1>2. DOMAIN Board(role) = BoardColumns(role)
    BY DEF Board
<1>3. \A stage \in BoardColumns(role) :
          q \in Board(role)[stage] <=> QuotationListed(quotation[q], role) /\ quotation[q].stage = stage
    BY DEF Board, ListedInStage
<1>. QED
    BY <1>1, <1>2, <1>3 DEF BoardColumns, QuotationListed

(* Whatever the chains, roles and numbers of documents: an open deal has a *)
(* button that works, an approver is offered what the API takes from them  *)
(* and is told the truth about it, and the board shows what the list does. *)
THEOREM ScreensAlwaysServe == Spec => []ScreensServeTheDeal
<1>1. DealInv /\ PendingStepsInOrder => ScreensServeTheDeal
    BY QueueHolds, OpenGoesOn, BoardShowsTheList DEF ScreensServeTheDeal
<1>. QED
    BY <1>1, DealInvariant, StepsStayInOrder, PTL
=============================================================================
