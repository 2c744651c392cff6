-------------------------------- MODULE Deal --------------------------------
(***************************************************************************)
(* The life of a quotation when every HTTP request runs alone: one action  *)
(* per handler, from the draft to the order, with the approval chain, the  *)
(* customer's counter-offers and changes of the discount configuration.    *)
(***************************************************************************)
EXTENDS DealRecords

CONSTANT MaxVersion   \* bound on the writes of one quotation

VARIABLES
    quotation,   \* [Quotations -> Quote \cup {None}], None before POST /quotations
    approval,    \* [Approvals -> Approval \cup {None}]
    order,       \* [Orders -> Order \cup {None}]
    config       \* the saved configuration

vars == <<quotation, approval, order, config>>

Exists(q) == quotation[q] # None
MayWrite(q) == Exists(q) /\ quotation[q].version < MaxVersion

(* Bound: one more write than the rest, so that a new score never waits.   *)
MayRescore(q) == Exists(q) /\ quotation[q].version <= MaxVersion

Init ==
    /\ quotation = [q \in Quotations |-> None]
    /\ approval = [a \in Approvals |-> None]
    /\ order = [o \in Orders |-> None]
    /\ config \in Configs

(* POST /quotations *)
Create(q) ==
    /\ ~Exists(q)
    /\ quotation' = [quotation EXCEPT ![q] = NewQuote(config)]
    /\ UNCHANGED <<approval, order, config>>

(* PATCH /quotations/:id with lines, by a client that read the latest version *)
PatchLines(q, t) ==
    /\ MayWrite(q)
    /\ quotation[q].stage = "DRAFT"
    /\ quotation' = [quotation EXCEPT ![q] = Edited(@, t, config)]
    /\ UNCHANGED <<approval, order, config>>

(* PATCH /quotations/:id without lines: notes or the promised date *)
PatchNotes(q) ==
    /\ MayWrite(q)
    /\ quotation[q].stage = "DRAFT"
    /\ quotation' = [quotation EXCEPT ![q] = Bumped(@)]
    /\ UNCHANGED <<approval, order, config>>

(* Fault: every submission opens a new approval.                           *)
IsResubmit_Never(quote) == FALSE
IsResubmit(quote) ==
    quote.approval # None /\ approval[quote.approval].status = "RETURNED"

(* POST /quotations/:id/submit: a returned approval is used again, any     *)
(* other quotation gets a new one.                                         *)
Submit(q, a) ==
    /\ MayWrite(q)
    /\ quotation[q].stage = "DRAFT"
    /\ quotation[q].terms # NoLines
    /\ IF IsResubmit(quotation[q]) THEN a = quotation[q].approval ELSE approval[a] = None
    /\ LET risk == Assess[config][quotation[q].terms]
           doc == IF IsResubmit(quotation[q]) THEN approval[a] ELSE NewApproval(q, risk)
       IN  approval' = [approval EXCEPT ![a] = SubmittedApproval(doc, risk)]
    /\ quotation' = [quotation EXCEPT ![q] = Submitted(@, a, config)]
    /\ UNCHANGED <<order, config>>

Decidable(a, role) == approval[a] # None /\ MayDecide(approval[a], role)

(* POST /approvals/:id/approve: the last step moves the quotation too,     *)
(* whatever stage the quotation is in.                                     *)
Approve(a, role) ==
    /\ Decidable(a, role)
    /\ approval' = [approval EXCEPT ![a] = ApprovedStep(@)]
    /\ LET q == approval[a].quotation
       IN  IF IsLastStep(approval[a])
           THEN /\ MayWrite(q)
                /\ quotation' = [quotation EXCEPT ![q] = Decided(@, "APPROVED")]
           ELSE UNCHANGED quotation
    /\ UNCHANGED <<order, config>>

(* POST /approvals/:id/return *)
Return(a, role) ==
    LET q == approval[a].quotation
    IN  /\ Decidable(a, role)
        /\ MayWrite(q)
        /\ approval' = [approval EXCEPT ![a] = ReturnedStep(@)]
        /\ quotation' = [quotation EXCEPT ![q] = Decided(@, "DRAFT")]
        /\ UNCHANGED <<order, config>>

(* POST /approvals/:id/reject *)
Reject(a, role) ==
    LET q == approval[a].quotation
    IN  /\ Decidable(a, role)
        /\ MayWrite(q)
        /\ approval' = [approval EXCEPT ![a] = RejectedStep(@)]
        /\ quotation' = [quotation EXCEPT ![q] = Decided(@, "REJECTED")]
        /\ UNCHANGED <<order, config>>

CounterAllowed(q) == MayWrite(q) /\ quotation[q].stage \notin ClosedToCustomer

(* A counter-offer changes discounts and quantities, never the set of lines. *)
Counters(q) == IF quotation[q].terms = NoLines THEN {NoLines} ELSE Terms

(* POST /portal/q/:number/counter, within the limits *)
CounterWithin(q, t) ==
    /\ CounterAllowed(q)
    /\ t \in Counters(q)
    /\ IsAutoApproved(Assess[config][t])
    /\ quotation' = [quotation EXCEPT ![q] = Countered(@, t, None, config)]
    /\ UNCHANGED <<approval, order, config>>

(* POST /portal/q/:number/counter, over the limits: the quotation's        *)
(* approval is opened again from its first step.                           *)
CounterOver(q, t, a) ==
    /\ CounterAllowed(q)
    /\ t \in Counters(q)
    /\ ~IsAutoApproved(Assess[config][t])
    /\ IF quotation[q].approval # None THEN a = quotation[q].approval ELSE approval[a] = None
    /\ LET risk == Assess[config][t]
           doc == IF quotation[q].approval # None THEN approval[a] ELSE NewApproval(q, risk)
       IN  approval' = [approval EXCEPT ![a] = ReopenedApproval(doc, risk)]
    /\ quotation' = [quotation EXCEPT ![q] = Countered(@, t, a, config)]
    /\ UNCHANGED <<order, config>>

(* Fault: an existing order is not looked for.                             *)
Convert_Again(q, o) ==
    /\ MayWrite(q)
    /\ quotation[q].stage \in ConvertibleStages
    /\ quotation[q].terms # NoLines
    /\ order[o] = None
    /\ order' = [order EXCEPT ![o] = [quotation |-> q, terms |-> quotation[q].terms]]
    /\ quotation' = [quotation EXCEPT ![q] = Confirmed(@, o)]
    /\ UNCHANGED <<approval, config>>

(* createOrderFromQuotation, called by POST /portal/q/:number/confirm and  *)
(* by POST /orders/from-quotation/:id; an existing order is only returned. *)
Convert(q, o) ==
    /\ MayWrite(q)
    /\ quotation[q].order = None
    /\ quotation[q].stage \in ConvertibleStages
    /\ quotation[q].terms # NoLines
    /\ order[o] = None
    /\ order' = [order EXCEPT ![o] = [quotation |-> q, terms |-> quotation[q].terms]]
    /\ quotation' = [quotation EXCEPT ![q] = Confirmed(@, o)]
    /\ UNCHANGED <<approval, config>>

(* Fault: the loop over the open quotations returns after the first one.   *)
Moved_First(c) ==
    LET moved == {q \in Quotations : /\ Exists(q)
                                     /\ quotation[q].stage \in OpenStages
                                     /\ ScoreMoved(quotation[q], c)}
    IN  IF moved = {} THEN {} ELSE {CHOOSE q \in moved : TRUE}

(* Quotations that a change to configuration c writes.                     *)
Moved(c) ==
    {q \in Quotations : /\ Exists(q)
                        /\ quotation[q].stage \in OpenStages
                        /\ ScoreMoved(quotation[q], c)}

(* Fault: the pending approval is looked up without the quotation's id.    *)
PendingOf_Anyones(q) ==
    {a \in Approvals : approval[a] # None /\ approval[a].status = "PENDING"}
PendingOf(q) ==
    {a \in Approvals : /\ approval[a] # None
                       /\ approval[a].quotation = q
                       /\ approval[a].status = "PENDING"}

(* The approval updateOne matches for each quotation, None for no match.   *)
Matches(Q) ==
    {pick \in [Q -> Approvals \cup {None}] :
        \A q \in Q : IF PendingOf(q) = {} THEN pick[q] = None ELSE pick[q] \in PendingOf(q)}

(* PUT /config: saves c, then scores every open quotation again.           *)
SaveConfig(c) ==
    /\ \A q \in Moved(c) : MayRescore(q)
    /\ config' = c
    /\ quotation' = [q \in Quotations |->
                        IF q \in Moved(c) THEN Reconfigured(quotation[q], c) ELSE quotation[q]]
    /\ \E pick \in Matches(Moved(c)) :
         approval' = [a \in Approvals |->
            IF \E q \in Moved(c) : pick[q] = a
            THEN LET q == approval[a].quotation
                     risk == Assess[c][quotation[q].terms]
                 IN  IF Waived(quotation[q], risk)
                     THEN WaivedApproval(approval[a], risk)
                     ELSE RescoredApproval(approval[a], risk)
            ELSE approval[a]]
    /\ UNCHANGED order

Next ==
    \/ \E q \in Quotations :
          \/ Create(q)
          \/ \E t \in AllTerms : PatchLines(q, t)
          \/ PatchNotes(q)
          \/ \E a \in Approvals : Submit(q, a)
          \/ \E t \in AllTerms : CounterWithin(q, t) \/ \E a \in Approvals : CounterOver(q, t, a)
          \/ \E o \in Orders : Convert(q, o)
    \/ \E a \in Approvals, role \in DecisionRoles :
          Approve(a, role) \/ Return(a, role) \/ Reject(a, role)
    \/ \E c \in Configs : SaveConfig(c)

Spec == Init /\ [][Next]_vars

---------------------------------------------------------------------------
(* Every document has the fields and the values its Mongoose schema names. *)
TypeOK ==
    /\ quotation \in [Quotations -> Quote \cup {None}]
    /\ approval \in [Approvals -> Approval \cup {None}]
    /\ order \in [Orders -> Order \cup {None}]
    /\ config \in Configs

(* A pending approval can be decided: its current step is active, every    *)
(* step before it is approved and every step after it is waiting.  A step  *)
(* nobody may act on would leave the quotation waiting forever.            *)
StepsInOrder(doc) ==
    /\ doc.active \in DOMAIN doc.steps
    /\ \A i \in DOMAIN doc.steps :
          /\ i < doc.active => doc.steps[i].status = "APPROVED"
          /\ i = doc.active => doc.steps[i].status = "ACTIVE"
          /\ i > doc.active => doc.steps[i].status = "PENDING"

PendingStepsInOrder ==
    \A a \in Approvals :
        (approval[a] # None /\ approval[a].status = "PENDING") => StepsInOrder(approval[a])

(* The approval that decides a quotation is the one the quotation refers   *)
(* to: no second approval of it can be pending, be decided later and       *)
(* overwrite its stage.                                                    *)
OneApprovalPerQuotation ==
    \A a \in Approvals :
        approval[a] # None =>
            /\ Exists(approval[a].quotation)
            /\ quotation[approval[a].quotation].approval = a

(* A quotation and the approval it refers to tell the same story: one that *)
(* waits has a pending approval which shows its score, one that is decided *)
(* has an approval decided that way, and a draft was returned.             *)
Agrees(quote, doc) ==
    /\ quote.stage = "DRAFT" => doc.status = "RETURNED"
    /\ quote.stage = "PENDING_APPROVAL" => doc.status = "PENDING" /\ doc.risk = quote.risk
    /\ quote.stage = "APPROVED" => doc.status \in {"APPROVED", "NOT_REQUIRED"}
    /\ quote.stage = "REJECTED" => doc.status = "REJECTED"

StageAgreesWithApproval ==
    \A q \in Quotations :
        Exists(q) =>
            IF quotation[q].approval = None
            THEN quotation[q].stage = "DRAFT"
            ELSE LET doc == approval[quotation[q].approval]
                 IN  doc # None /\ doc.quotation = q /\ Agrees(quotation[q], doc)

(* The stored score of every open quotation is the one the saved           *)
(* configuration gives its terms: nobody decides on a score that an older  *)
(* configuration computed.  Not so once there is an order: an approver may *)
(* reopen a confirmed quotation, which no configuration change had scored. *)
ScoreIsCurrent ==
    \A q \in Quotations :
        (Exists(q) /\ quotation[q].stage \in OpenStages /\ quotation[q].order = None) =>
            ~ScoreMoved(quotation[q], config)

(* A confirmed quotation has exactly the order made from the terms it has, *)
(* and no quotation ever has two orders.                                   *)
OneOrderPerQuotation ==
    /\ \A o \in Orders :
          order[o] # None =>
              /\ Exists(order[o].quotation)
              /\ quotation[order[o].quotation].order = o
    /\ \A q \in Quotations :
          (Exists(q) /\ quotation[q].stage = "CONFIRMED") =>
              /\ quotation[q].order # None
              /\ order[quotation[q].order] = [quotation |-> q, terms |-> quotation[q].terms]

(* A rejected quotation keeps its stage, its terms and its approval.       *)
RejectedIsTerminal ==
    [][\A q \in Quotations :
          (Exists(q) /\ quotation[q].stage = "REJECTED") =>
              /\ quotation'[q] = quotation[q]
              /\ approval'[quotation[q].approval] = approval[quotation[q].approval]]_vars

(* Every write of a quotation moves its version by one, so that a client   *)
(* that sends the version it read can be told that its copy is old.        *)
EveryWriteBumpsVersion ==
    [][\A q \in Quotations :
          (Exists(q) /\ quotation'[q] # quotation[q]) =>
              quotation'[q].version = quotation[q].version + 1]_vars

(* An order is never changed, replaced or detached from its quotation.     *)
OrderIsKept ==
    [][/\ \A o \in Orders : order[o] # None => order'[o] = order[o]
       /\ \A q \in Quotations :
             (Exists(q) /\ quotation[q].order # None) =>
                 quotation'[q].order = quotation[q].order]_vars

---------------------------------------------------------------------------
(* What the documents say and the handlers do not do.                      *)

(* Nobody needs to approve the quotation's risk, or all it needs have.     *)
SignedOff(q) ==
    LET quote == quotation[q]
        steps == approval[quote.approval].steps
    IN  \/ IsAutoApproved(quote.risk)
        \/ /\ quote.approval # None
           /\ [i \in DOMAIN steps |-> steps[i].role] = quote.risk.chain
           /\ \A i \in DOMAIN steps : steps[i].status = "APPROVED"

(* enums/index.ts:45 calls CONFIRMED and REJECTED the stages in which "the *)
(* deal is finished".  A counter-offer within the limits leaves a pending  *)
(* approval behind, and deciding it later moves the confirmed quotation.   *)
ConfirmedIsFinal ==
    [][\A q \in Quotations :
          (Exists(q) /\ quotation[q].stage = "CONFIRMED") =>
              quotation'[q].stage = "CONFIRMED"]_vars

(* BUSINESS_RULES.md:429: "When a customer counters or confirms in the     *)
(* portal, the risk is recomputed ... If it now breaches the thresholds,   *)
(* the quotation is forced back".  Confirming recomputes nothing.          *)
ConfirmRespectsThresholds ==
    [][\A q \in Quotations, o \in Orders : Convert(q, o) => SignedOff(q)]_vars
=============================================================================
