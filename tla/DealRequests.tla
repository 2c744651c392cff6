---------------------------- MODULE DealRequests ----------------------------
(***************************************************************************)
(* The handlers of Deal as Node runs them: a handler is a sequence of      *)
(* database accesses, and between two of them any other request may run.   *)
(* What a handler read is its own copy; Mongoose's save() writes the paths *)
(* that differ from that copy, without looking at what is stored by then   *)
(* (models.ts turns the version key off).                                  *)
(***************************************************************************)
EXTENDS DealRecords

CONSTANTS
    Requests,      \* request slots
    Concurrency,   \* how many handlers may be under way at once
    Failures,      \* may a handler die between two accesses?
    MaxVersion     \* bound on the writes of one quotation

ASSUME ConcurrencyType == Concurrency \in Nat \ {0}
ASSUME FailuresType == Failures \in BOOLEAN
ASSUME MaxVersionType == MaxVersion \in Nat

(* An approval, up to the elements without a role that a late decision may *)
(* append (StepsWritten).                                                  *)
PaddedStep == [role: Roles \cup {None}, status: StepStatus \cup {None}]
PaddedApproval ==
    [quotation: Quotations, status: ApprovalStatus, steps: Seq(PaddedStep),
     active: Nat, reEntered: BOOLEAN, risk: Risk]

ASSUME NoneIsNoPaddedDocument == None \notin PaddedApproval

VARIABLES
    quotation, approval, order, config,   \* the collections, as in Deal
    request                               \* what each handler holds in memory

store == <<quotation, approval, order, config>>
vars == <<quotation, approval, order, config, request>>

Idle == [at |-> "idle"]

(* A browser tab holding a quotation it loaded runs no handler.            *)
Busy == {r \in Requests : request[r].at \notin {"idle", "tab"}}
MayStart(r) == request[r].at = "idle" /\ Cardinality(Busy) < Concurrency
At(r, label) == request[r].at = label
Goto(r, state) == request' = [request EXCEPT ![r] = state]
Finish(r) == Goto(r, Idle)

Exists(q) == quotation[q] # None
MayWrite(q) == Exists(q) /\ quotation[q].version < MaxVersion

(* Bounds: an id stays free for every handler that may insert a document,  *)
(* and a configuration is only saved while open quotations may be written. *)
Inserting(labels) == Cardinality({r \in Requests : request[r].at \in labels})
RoomForApproval ==
    Cardinality({a \in Approvals : approval[a] = None}) > Inserting({"score", "find", "saveApproval"})
RoomForRescoring ==
    \A q \in Quotations : (Exists(q) /\ quotation[q].stage \in OpenStages) => MayWrite(q)
RoomForOrder == Cardinality({o \in Orders : order[o] = None}) > Inserting({"order.create"})

---------------------------------------------------------------------------
(* What save() leaves stored: `cur` is stored now, `snap` is what the      *)
(* handler read, `new` what it made of it.  A path that was assigned an    *)
(* equal value may or may not be written (`touched`): the lines and the    *)
(* risk are nested documents, and their comparison also sees the parts the *)
(* model leaves out.                                                       *)

QuoteWritten(cur, snap, new, touched) ==
    LET Path(f) == IF new[f] # snap[f] \/ f \in touched THEN new[f] ELSE cur[f]
    IN  [stage |-> Path("stage"), terms |-> Path("terms"), risk |-> Path("risk"),
         version |-> Path("version"), approval |-> Path("approval"), order |-> Path("order")]

(* submit and counter assign the whole steps array, with new timestamps.   *)
ApprovalWritten(cur, snap, new, touched) ==
    LET Path(f) == IF new[f] # snap[f] \/ f \in touched THEN new[f] ELSE cur[f]
    IN  [quotation |-> cur.quotation, status |-> Path("status"), steps |-> new.steps,
         active |-> Path("active"), reEntered |-> Path("reEntered"), risk |-> Path("risk")]

(* A decision writes steps.i.status for the steps it changed.  On an array *)
(* that has become shorter, MongoDB appends an element without a role.     *)
NoStep == [role |-> None, status |-> None]

StepsWritten(cur, snap, new) ==
    LET changed == {i \in DOMAIN new : new[i] # snap[i]}
        length == CHOOSE n \in {Len(cur)} \cup changed :
                      \A i \in {Len(cur)} \cup changed : i <= n
        stored(i) == IF i \in DOMAIN cur THEN cur[i] ELSE NoStep
    IN  [i \in 1..length |->
            IF i \in changed THEN [stored(i) EXCEPT !.status = new[i].status] ELSE stored(i)]

DecisionWritten(cur, snap, new) ==
    LET Path(f) == IF new[f] # snap[f] THEN new[f] ELSE cur[f]
    IN  [cur EXCEPT !.status = Path("status"), !.active = Path("active"),
                    !.steps = StepsWritten(cur.steps, snap.steps, new.steps)]

---------------------------------------------------------------------------
(* POST /quotations: reads the configuration, inserts the draft under an   *)
(* id no other request inserts.                                            *)

CreateScore(r, q) ==
    /\ MayStart(r)
    /\ ~Exists(q)
    /\ \A p \in Requests : At(p, "create.insert") => request[p].q # q
    /\ Goto(r, [at |-> "create.insert", q |-> q, new |-> NewQuote(config)])
    /\ UNCHANGED store

CreateInsert(r) ==
    /\ At(r, "create.insert")
    /\ quotation' = [quotation EXCEPT ![request[r].q] = request[r].new]
    /\ Finish(r)
    /\ UNCHANGED <<approval, order, config>>

(* GET /quotations/:id by the builder, which keeps what it loaded.         *)
Load(r, q) ==
    /\ At(r, "idle")
    /\ Exists(q)
    /\ Goto(r, [at |-> "tab", q |-> q, held |-> quotation[q]])
    /\ UNCHANGED store

(* Fault: the version the tab sends is not compared.                       *)
PatchRead_AnyVersion(r) ==
    LET tab == request[r]
        quote == quotation[tab.q]
    IN  /\ At(r, "tab")
        /\ Cardinality(Busy) < Concurrency
        /\ UNCHANGED store
        /\ MayWrite(tab.q)
        /\ quote.stage = "DRAFT"
        /\ Goto(r, [at |-> "patch.save", q |-> tab.q, held |-> tab.held,
                    snap |-> quote, new |-> Bumped(quote), assigned |-> {}])

(* PATCH /quotations/:id with the version the tab holds.                   *)
PatchRead(r) ==
    LET tab == request[r]
        quote == quotation[tab.q]
    IN  /\ At(r, "tab")
        /\ Cardinality(Busy) < Concurrency
        /\ UNCHANGED store
        /\ IF quote.version # tab.held.version \/ quote.stage # "DRAFT"
           THEN Finish(r)
           ELSE /\ MayWrite(tab.q)
                /\ \/ \E t \in AllTerms :
                         Goto(r, [at |-> "patch.score", q |-> tab.q, held |-> tab.held,
                                  snap |-> quote, terms |-> t])
                   \/ Goto(r, [at |-> "patch.save", q |-> tab.q, held |-> tab.held,
                               snap |-> quote, new |-> Bumped(quote), assigned |-> {}])

PatchScore(r) ==
    LET h == request[r]
    IN  /\ At(r, "patch.score")
        /\ Goto(r, [at |-> "patch.save", q |-> h.q, held |-> h.held, snap |-> h.snap,
                    new |-> Edited(h.snap, h.terms, config),
                    assigned |-> {"terms", "risk"}])
        /\ UNCHANGED store

PatchSave(r) ==
    LET h == request[r]
    IN  /\ At(r, "patch.save")
        /\ \E touched \in SUBSET h.assigned :
             quotation' = [quotation EXCEPT ![h.q] = QuoteWritten(@, h.snap, h.new, touched)]
        /\ Finish(r)
        /\ UNCHANGED <<approval, order, config>>

---------------------------------------------------------------------------
(* POST /quotations/:id/submit and POST /portal/q/:number/counter: read    *)
(* the quotation, read the configuration, find the approval, save it, save *)
(* the quotation.                                                          *)

SubmitRead(r, q) ==
    /\ MayStart(r)
    /\ MayWrite(q)
    /\ RoomForApproval
    /\ quotation[q].stage = "DRAFT"
    /\ quotation[q].terms # NoLines
    /\ Goto(r, [at |-> "score", by |-> "rep", q |-> q, snap |-> quotation[q],
                terms |-> quotation[q].terms])
    /\ UNCHANGED store

CounterRead(r, q, t) ==
    /\ MayStart(r)
    /\ MayWrite(q)
    /\ RoomForApproval
    /\ quotation[q].stage \notin ClosedToCustomer
    /\ t \in IF quotation[q].terms = NoLines THEN {NoLines} ELSE Terms
    /\ Goto(r, [at |-> "score", by |-> "customer", q |-> q, snap |-> quotation[q], terms |-> t])
    /\ UNCHANGED store

(* A counter-offer within the limits needs no approval document.           *)
Score(r) ==
    LET h == request[r]
    IN  /\ At(r, "score")
        /\ IF h.by = "customer" /\ IsAutoApproved(Assess[config][h.terms])
           THEN Goto(r, [at |-> "saveQuote", q |-> h.q, snap |-> h.snap,
                         new |-> Countered(h.snap, h.terms, None, config)])
           ELSE Goto(r, [at |-> "find", by |-> h.by, q |-> h.q, snap |-> h.snap,
                         terms |-> h.terms, cfg |-> config])
        /\ UNCHANGED store

(* The approval the quotation refers to is used again by a counter-offer,  *)
(* and by a submission if it was returned; doc = None for a new one.       *)
Find(r) ==
    LET h == request[r]
        a == h.snap.approval
        again == a # None /\ (h.by = "customer" \/ approval[a].status = "RETURNED")
    IN  /\ At(r, "find")
        /\ Goto(r, [at |-> "saveApproval", by |-> h.by, q |-> h.q, snap |-> h.snap,
                    terms |-> h.terms, cfg |-> h.cfg, a |-> IF again THEN a ELSE None,
                    doc |-> IF again THEN approval[a] ELSE None])
        /\ UNCHANGED store

SaveApproval(r) ==
    LET h == request[r]
        risk == Assess[h.cfg][h.terms]
        Filled(doc) == IF h.by = "rep" THEN SubmittedApproval(doc, risk)
                                       ELSE ReopenedApproval(doc, risk)
        Quoted(a) == IF h.by = "rep" THEN Submitted(h.snap, a, h.cfg)
                                     ELSE Countered(h.snap, h.terms, a, h.cfg)
    IN  /\ At(r, "saveApproval")
        /\ \E a \in Approvals :
              /\ IF h.doc = None
                 THEN /\ approval[a] = None
                      /\ approval' = [approval EXCEPT ![a] = Filled(NewApproval(h.q, risk))]
                 ELSE /\ a = h.a
                      /\ \E touched \in SUBSET {"risk"} :
                           approval' = [approval EXCEPT ![a] =
                                           ApprovalWritten(@, h.doc, Filled(h.doc), touched)]
              /\ Goto(r, [at |-> "saveQuote", q |-> h.q, snap |-> h.snap, new |-> Quoted(a)])
        /\ UNCHANGED <<quotation, order, config>>

SaveQuote(r) ==
    LET h == request[r]
    IN  /\ At(r, "saveQuote")
        /\ \E touched \in SUBSET {"terms", "risk"} :
             quotation' = [quotation EXCEPT ![h.q] = QuoteWritten(@, h.snap, h.new, touched)]
        /\ Finish(r)
        /\ UNCHANGED <<approval, order, config>>

---------------------------------------------------------------------------
(* POST /approvals/:id/approve, /return and /reject: read the approval,    *)
(* save it, write the quotation's stage with an updateOne that has no      *)
(* condition on the stage.                                                 *)

MovesQuote(verb, doc) == verb # "approve" \/ IsLastStep(doc)

Decision(verb, doc) ==
    CASE verb = "approve" -> ApprovedStep(doc)
      [] verb = "return" -> ReturnedStep(doc)
      [] verb = "reject" -> RejectedStep(doc)

StageAfter(verb) ==
    CASE verb = "approve" -> "APPROVED"
      [] verb = "return" -> "DRAFT"
      [] verb = "reject" -> "REJECTED"

(* A step without a role fails the validation that save() runs first.      *)
Valid(doc) == \A i \in DOMAIN doc.steps : doc.steps[i].role # None

DecideRead(r, a, role, verb) ==
    /\ MayStart(r)
    /\ approval[a] # None
    /\ MayDecide(approval[a], role)
    /\ Valid(approval[a])
    /\ MovesQuote(verb, approval[a]) => MayWrite(approval[a].quotation)
    /\ Goto(r, [at |-> "decide.approval", verb |-> verb, a |-> a, doc |-> approval[a]])
    /\ UNCHANGED store

(* Fault: the decision stops at the approval.                              *)
DecideSave_NoQuote(r) ==
    LET h == request[r]
    IN  /\ At(r, "decide.approval")
        /\ approval' = [approval EXCEPT ![h.a] =
                           DecisionWritten(@, h.doc, Decision(h.verb, h.doc))]
        /\ Finish(r)
        /\ UNCHANGED <<quotation, order, config>>

DecideSave(r) ==
    LET h == request[r]
    IN  /\ At(r, "decide.approval")
        /\ approval' = [approval EXCEPT ![h.a] =
                           DecisionWritten(@, h.doc, Decision(h.verb, h.doc))]
        /\ IF MovesQuote(h.verb, h.doc)
           THEN Goto(r, [at |-> "decide.quote", q |-> h.doc.quotation,
                         stage |-> StageAfter(h.verb)])
           ELSE Finish(r)
        /\ UNCHANGED <<quotation, order, config>>

DecideQuote(r) ==
    LET h == request[r]
    IN  /\ At(r, "decide.quote")
        /\ quotation' = [quotation EXCEPT ![h.q] = Decided(@, h.stage)]
        /\ Finish(r)
        /\ UNCHANGED <<approval, order, config>>

---------------------------------------------------------------------------
(* createOrderFromQuotation: read the quotation, insert the order, save    *)
(* the quotation.                                                          *)

ConvertRead(r, q) ==
    /\ MayStart(r)
    /\ MayWrite(q)
    /\ RoomForOrder
    /\ quotation[q].order = None
    /\ quotation[q].stage \in ConvertibleStages
    /\ quotation[q].terms # NoLines
    /\ Goto(r, [at |-> "order.create", q |-> q, snap |-> quotation[q]])
    /\ UNCHANGED store

(* Fault: the reference is saved without the order having been inserted.   *)
ConvertCreate_NotInserted(r, o) ==
    LET h == request[r]
    IN  /\ At(r, "order.create")
        /\ order[o] = None
        /\ Goto(r, [at |-> "order.quote", q |-> h.q, snap |-> h.snap,
                    new |-> Confirmed(h.snap, o)])
        /\ UNCHANGED store

ConvertCreate(r, o) ==
    LET h == request[r]
    IN  /\ At(r, "order.create")
        /\ order[o] = None
        /\ order' = [order EXCEPT ![o] = [quotation |-> h.q, terms |-> h.snap.terms]]
        /\ Goto(r, [at |-> "order.quote", q |-> h.q, snap |-> h.snap,
                    new |-> Confirmed(h.snap, o)])
        /\ UNCHANGED <<quotation, approval, config>>

ConvertSave(r) ==
    LET h == request[r]
    IN  /\ At(r, "order.quote")
        /\ quotation' = [quotation EXCEPT ![h.q] = QuoteWritten(@, h.snap, h.new, {})]
        /\ Finish(r)
        /\ UNCHANGED <<approval, order, config>>

---------------------------------------------------------------------------
(* PUT /config: save the configuration, find the open quotations, and for  *)
(* each whose score moved write its pending approval, then save it.        *)

Moved(c) ==
    {q \in Quotations : /\ Exists(q)
                        /\ quotation[q].stage \in OpenStages
                        /\ ScoreMoved(quotation[q], c)}

ConfigSave(r, c) ==
    /\ MayStart(r)
    /\ RoomForRescoring
    /\ config' = c
    /\ Goto(r, [at |-> "config.find", cfg |-> c])
    /\ UNCHANGED <<quotation, approval, order>>

ConfigNext(r, c, todo) ==
    IF DOMAIN todo = {} THEN Finish(r)
    ELSE Goto(r, [at |-> "config.approval", cfg |-> c, todo |-> todo])

ConfigFind(r) ==
    LET c == request[r].cfg
    IN  /\ At(r, "config.find")
        /\ ConfigNext(r, c, [q \in Moved(c) |-> quotation[q]])
        /\ UNCHANGED store

PendingOf(q) ==
    {a \in Approvals : /\ approval[a] # None
                       /\ approval[a].quotation = q
                       /\ approval[a].status = "PENDING"}

(* updateOne writes one of the quotation's pending approvals, if any.      *)
ConfigApproval(r, q) ==
    LET h == request[r]
        risk == Assess[h.cfg][h.todo[q].terms]
    IN  /\ At(r, "config.approval")
        /\ q \in DOMAIN h.todo
        /\ \/ /\ PendingOf(q) = {}
              /\ UNCHANGED approval
           \/ \E a \in PendingOf(q) :
                approval' = [approval EXCEPT ![a] =
                    IF Waived(h.todo[q], risk) THEN WaivedApproval(@, risk) ELSE RescoredApproval(@, risk)]
        /\ Goto(r, [at |-> "config.quote", cfg |-> h.cfg, todo |-> h.todo, q |-> q])
        /\ UNCHANGED <<quotation, order, config>>

ConfigQuote(r) ==
    LET h == request[r]
        q == h.q
    IN  /\ At(r, "config.quote")
        /\ quotation' = [quotation EXCEPT ![q] =
                            QuoteWritten(@, h.todo[q], Reconfigured(h.todo[q], h.cfg), {})]
        /\ ConfigNext(r, h.cfg, [p \in DOMAIN h.todo \ {q} |-> h.todo[p]])
        /\ UNCHANGED <<approval, order, config>>

---------------------------------------------------------------------------
(* The process restarts or the database connection fails: the handler is   *)
(* gone, what it wrote stays.                                              *)
Fail(r) ==
    /\ Failures
    /\ r \in Busy
    /\ Finish(r)
    /\ UNCHANGED store

(* The user closes the tab.                                                *)
CloseTab(r) ==
    /\ At(r, "tab")
    /\ Finish(r)
    /\ UNCHANGED store

Init ==
    /\ quotation = [q \in Quotations |-> None]
    /\ approval = [a \in Approvals |-> None]
    /\ order = [o \in Orders |-> None]
    /\ config \in Configs
    /\ request = [r \in Requests |-> Idle]

Start(r) ==
    \/ \E q \in Quotations :
          \/ CreateScore(r, q) \/ SubmitRead(r, q) \/ ConvertRead(r, q)
          \/ \E t \in AllTerms : CounterRead(r, q, t)
    \/ \E a \in Approvals, role \in DecisionRoles, verb \in {"approve", "return", "reject"} :
          DecideRead(r, a, role, verb)
    \/ \E c \in Configs : ConfigSave(r, c)
    \/ PatchRead(r)

(* The database accesses that follow once a handler is under way.          *)
Continue(r) ==
    \/ CreateInsert(r)
    \/ PatchScore(r) \/ PatchSave(r)
    \/ Score(r) \/ Find(r) \/ SaveApproval(r) \/ SaveQuote(r)
    \/ DecideSave(r) \/ DecideQuote(r)
    \/ (\E o \in Orders : ConvertCreate(r, o)) \/ ConvertSave(r)
    \/ ConfigFind(r) \/ (\E q \in Quotations : ConfigApproval(r, q)) \/ ConfigQuote(r)

Tab(r) == (\E q \in Quotations : Load(r, q)) \/ CloseTab(r)

Next == \E r \in Requests : Start(r) \/ Continue(r) \/ Tab(r) \/ Fail(r)

Spec == Init /\ [][Next]_vars

(* Node always runs the continuation of an access that was answered.       *)
FairSpec == Spec /\ \A r \in Requests : WF_vars(Continue(r))

---------------------------------------------------------------------------
(* The stored documents keep their shape whatever is interleaved, and a    *)
(* handler is always at one of its accesses.                               *)
Labels ==
    {"idle", "tab", "create.insert", "patch.score", "patch.save", "score", "find",
     "saveApproval", "saveQuote", "decide.approval", "decide.quote", "order.create",
     "order.quote", "config.find", "config.approval", "config.quote"}

TypeOK ==
    /\ quotation \in [Quotations -> Quote \cup {None}]
    /\ approval \in [Approvals -> PaddedApproval \cup {None}]
    /\ order \in [Orders -> Order \cup {None}]
    /\ config \in Configs
    /\ DOMAIN request = Requests /\ \A r \in Requests : request[r].at \in Labels

(* A reference is stored only after the document it names, so whatever is  *)
(* interleaved and wherever a handler dies, no quotation refers to an      *)
(* approval or an order that is missing or belongs to another quotation.   *)
NoDanglingReference ==
    /\ \A q \in Quotations :
          Exists(q) =>
              LET quote == quotation[q]
              IN  /\ quote.approval # None =>
                        approval[quote.approval] # None /\ approval[quote.approval].quotation = q
                  /\ quote.order # None =>
                        order[quote.order] # None /\ order[quote.order].quotation = q
    /\ \A a \in Approvals : approval[a] # None => Exists(approval[a].quotation)

(* A stage and the document it stands on are stored together: a quotation  *)
(* that waits names the approval it waits on and a confirmed one names its *)
(* order, whatever handlers overwrite and wherever they die.               *)
StageHasItsDocument ==
    \A q \in Quotations :
        Exists(q) =>
            /\ quotation[q].stage = "PENDING_APPROVAL" => quotation[q].approval # None
            /\ quotation[q].stage = "CONFIRMED" => quotation[q].order # None

(* Whatever is interleaved and wherever a handler dies, documents keep     *)
(* their types, references lead to their documents and stages have theirs. *)
ReferencesHold == TypeOK /\ NoDanglingReference /\ StageHasItsDocument

(* approvals.routes.ts:141, "an Admin may act on any step": a quotation    *)
(* that waits, with no handler under way, waits on an approval whose       *)
(* current step an administrator can decide and save.                      *)
AdminMayActOnPending ==
    Busy = {} =>
        \A q \in Quotations :
            (Exists(q) /\ quotation[q].stage = "PENDING_APPROVAL") =>
                /\ quotation[q].approval # None
                /\ MayDecide(approval[quotation[q].approval], "ADMIN")
                /\ Valid(approval[quotation[q].approval])

(* DECISIONS.md:156, D-023: "it stops two reps silently overwriting each   *)
(* other".  An edit that is saved replaces exactly the quotation its       *)
(* author was looking at.                                                  *)
EditReplacesWhatWasSeen ==
    [][\A r \in Requests :
          PatchSave(r) => quotation[request[r].q] = request[r].held]_vars

(* orders.service.ts:70, "Idempotent: a second call (e.g. a retried        *)
(* request) returns what already exists".                                  *)
OneOrderEach ==
    \A o, p \in Orders :
        (order[o] # None /\ order[p] # None /\ order[o].quotation = order[p].quotation) => o = p

(* BUSINESS_RULES.md:423, "Approve activates the next step, or finishes    *)
(* the approval and moves the quotation to APPROVED": a quotation does not *)
(* stay waiting on an approval that is finished.                           *)
DecidedButWaiting(q) ==
    /\ Exists(q)
    /\ quotation[q].stage = "PENDING_APPROVAL"
    /\ quotation[q].approval # None
    /\ approval[quotation[q].approval].status \in {"APPROVED", "REJECTED", "RETURNED"}

DecisionReachesQuotation ==
    \A q \in Quotations : DecidedButWaiting(q) ~> ~DecidedButWaiting(q)
=============================================================================
