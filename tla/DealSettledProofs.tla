-------------------------- MODULE DealSettledProofs --------------------------
(***************************************************************************)
(* Proofs about DealRequests and DealSettled.                              *)
(*                                                                         *)
(* First, about DealRequests: whatever handlers are interleaved, in any    *)
(* number, and wherever they die, the documents keep their types, every    *)
(* reference leads to its document and every stage has the document it     *)
(* stands on.  The operators of this part take the collections as          *)
(* parameters - Q, A and O for quotations, approvals and orders - so that  *)
(* the lemmas relate what is stored before and after a step.               *)
(*                                                                         *)
(* Then, about DealSettled: handlers that do not overlap and do not die    *)
(* implement Deal.  The invariant says, for each access a handler is at,   *)
(* how what is stored by then and what the handler holds differ from the   *)
(* settled collections: by a part of the one step of Deal that it takes.   *)
(***************************************************************************)
EXTENDS DealSettled, DealRecordsProofs, WellFoundedInduction, FiniteSetTheorems

(* A quotation as it may be stored under q, or in a handler's memory:      *)
(* typed, referring to documents of its own, at a stage it has the         *)
(* document for.                                                           *)
Sound(quote, q, A, O) ==
    /\ quote \in Quote
    /\ quote.approval # None => A[quote.approval] # None /\ A[quote.approval].quotation = q
    /\ quote.order # None => O[quote.order] # None /\ O[quote.order].quotation = q
    /\ quote.stage = "PENDING_APPROVAL" => quote.approval # None
    /\ quote.stage = "CONFIRMED" => quote.order # None

(* References are replaced, never cleared.                                 *)
KeepsReferences(old, new) ==
    /\ old.approval # None => new.approval # None
    /\ old.order # None => new.order # None

(* A copy of quotation q that a handler read.                              *)
Held(quote, q, Q, A, O) ==
    /\ q \in Quotations
    /\ Q[q] # None
    /\ Sound(quote, q, A, O)
    /\ KeepsReferences(quote, Q[q])

(* What a handler made of a copy it read.                                  *)
Made(new, snap, q, A, O) == Sound(new, q, A, O) /\ KeepsReferences(snap, new)

(* A copy of approval a, which belongs to quotation q.                     *)
Found(doc, a, q, A) ==
    /\ a \in Approvals
    /\ doc \in PaddedApproval
    /\ A[a] # None
    /\ A[a].quotation = q
    /\ doc.quotation = q

ReadQuotation ==
    {"patch.score", "patch.save", "score", "find", "saveApproval", "saveQuote",
     "order.create", "order.quote"}

(* What a handler holds in memory at each of its accesses.                 *)
Stands(h, Q, A, O) ==
    /\ h.at \in Labels
    /\ h.at = "create.insert" =>
          /\ h.q \in Quotations /\ Q[h.q] = None
          /\ h.new \in Quote /\ h.new.approval = None /\ h.new.order = None
          /\ h.new.stage = "DRAFT"
    /\ h.at = "tab" => h.q \in Quotations /\ Q[h.q] # None
    /\ h.at \in ReadQuotation => Held(h.snap, h.q, Q, A, O)
    /\ h.at \in {"patch.save", "saveQuote", "order.quote"} => Made(h.new, h.snap, h.q, A, O)
    /\ h.at = "patch.save" => h.assigned \subseteq {"terms", "risk"}
    /\ h.at \in {"patch.score", "score", "find", "saveApproval"} => h.terms \in AllTerms
    /\ h.at \in {"find", "saveApproval", "config.find", "config.approval", "config.quote"} =>
          h.cfg \in Configs
    /\ h.at = "saveApproval" /\ h.doc # None => Found(h.doc, h.a, h.q, A)
    /\ h.at = "decide.approval" =>
          /\ Found(h.doc, h.a, h.doc.quotation, A)
          /\ h.verb \in {"approve", "return", "reject"}
          /\ h.doc.active \in DOMAIN h.doc.steps
    /\ h.at = "decide.quote" =>
          /\ h.q \in Quotations /\ Q[h.q] # None
          /\ h.stage \in {"APPROVED", "DRAFT", "REJECTED"}
    /\ h.at \in {"config.approval", "config.quote"} =>
          \A q \in DOMAIN h.todo : Held(h.todo[q], q, Q, A, O)
    /\ h.at = "config.quote" => h.q \in DOMAIN h.todo

(* The stored documents.                                                   *)
Stored(Q, A, O, c) ==
    /\ Q \in [Quotations -> Quote \cup {None}]
    /\ A \in [Approvals -> PaddedApproval \cup {None}]
    /\ O \in [Orders -> Order \cup {None}]
    /\ c \in Configs
    /\ \A q \in Quotations : Q[q] # None => Sound(Q[q], q, A, O)
    /\ \A a \in Approvals : A[a] # None => Q[A[a].quotation] # None

(* No two handlers insert under the same id.                               *)
DistinctInserts(R) ==
    \A r, p \in Requests :
        (R[r].at = "create.insert" /\ R[p].at = "create.insert" /\ R[r].q = R[p].q) => r = p

RequestsInv ==
    /\ Stored(quotation, approval, order, config)
    /\ DOMAIN request = Requests
    /\ request = [r \in Requests |-> request[r]]
    /\ \A r \in Requests : Stands(request[r], quotation, approval, order)
    /\ DistinctInserts(request)

(* Documents are never removed, and go on belonging where they belong.     *)
Grows(Q, A, O, Q2, A2, O2) ==
    /\ \A q \in Quotations : Q[q] # None => Q2[q] # None /\ KeepsReferences(Q[q], Q2[q])
    /\ \A a \in Approvals : A[a] # None => A2[a] # None /\ A2[a].quotation = A[a].quotation
    /\ \A o \in Orders : O[o] # None => O2[o] # None /\ O2[o].quotation = O[o].quotation

---------------------------------------------------------------------------
(* The invariant says what the property says.                              *)
LEMMA InvImplies == RequestsInv => ReferencesHold
<1>. SUFFICES ASSUME RequestsInv PROVE ReferencesHold
    OBVIOUS
<1>1. TypeOK
    BY DEF RequestsInv, Stored, TypeOK, Stands
<1>2. \A q \in Quotations : Exists(q) => Sound(quotation[q], q, approval, order)
    BY DEF RequestsInv, Stored, Exists
<1>3. NoDanglingReference
    BY <1>2 DEF RequestsInv, Stored, NoDanglingReference, Sound, Exists
<1>4. StageHasItsDocument
    BY <1>2 DEF StageHasItsDocument, Sound
<1>. QED
    BY <1>1, <1>3, <1>4 DEF ReferencesHold

(* Nobody has started and nothing is stored.                               *)
LEMMA InitRequestsInv == Init => RequestsInv
<1>. SUFFICES ASSUME Init PROVE RequestsInv
    OBVIOUS
<1>1. Stored(quotation, approval, order, config)
    BY DEF Init, Stored
<1>2. \A r \in Requests : request[r] = Idle /\ request[r].at = "idle"
    BY DEF Init, Idle
<1>3. \A r \in Requests : Stands(request[r], quotation, approval, order)
    BY <1>2 DEF Stands, Labels, ReadQuotation
<1>4. DistinctInserts(request)
    BY <1>2 DEF DistinctInserts
<1>. QED
    BY <1>1, <1>3, <1>4 DEF RequestsInv, Init

---------------------------------------------------------------------------
(* What a handler holds stays true of collections that only grew.          *)

LEMMA SoundStays ==
    ASSUME NEW Q, NEW A, NEW O, NEW Q2, NEW A2, NEW O2, Grows(Q, A, O, Q2, A2, O2),
           NEW quote, NEW q, Sound(quote, q, A, O)
    PROVE  Sound(quote, q, A2, O2)
BY DEF Grows, Sound, Quote

LEMMA HeldStays ==
    ASSUME NEW Q, NEW A, NEW O, NEW Q2, NEW A2, NEW O2, Grows(Q, A, O, Q2, A2, O2),
           NEW quote, NEW q, Held(quote, q, Q, A, O)
    PROVE  Held(quote, q, Q2, A2, O2)
<1>1. Sound(quote, q, A2, O2)
    BY SoundStays DEF Held
<1>. QED
    BY <1>1 DEF Grows, Held, KeepsReferences

LEMMA FoundStays ==
    ASSUME NEW Q, NEW A, NEW O, NEW Q2, NEW A2, NEW O2, Grows(Q, A, O, Q2, A2, O2),
           NEW doc, NEW a, NEW q, Found(doc, a, q, A)
    PROVE  Found(doc, a, q, A2)
BY DEF Grows, Found

LEMMA StandsStays ==
    ASSUME NEW Q, NEW A, NEW O, NEW Q2, NEW A2, NEW O2, Grows(Q, A, O, Q2, A2, O2),
           NEW h, Stands(h, Q, A, O),
           h.at = "create.insert" => Q2[h.q] = None
    PROVE  Stands(h, Q2, A2, O2)
<1>1. h.at \in ReadQuotation => Held(h.snap, h.q, Q2, A2, O2)
    BY HeldStays DEF Stands
<1>2. h.at \in {"patch.save", "saveQuote", "order.quote"} => Made(h.new, h.snap, h.q, A2, O2)
    BY SoundStays DEF Stands, Made
<1>3. h.at = "saveApproval" /\ h.doc # None => Found(h.doc, h.a, h.q, A2)
    BY FoundStays DEF Stands
<1>4. h.at = "decide.approval" => Found(h.doc, h.a, h.doc.quotation, A2)
    BY FoundStays DEF Stands
<1>5. h.at \in {"config.approval", "config.quote"} =>
          \A q \in DOMAIN h.todo : Held(h.todo[q], q, Q2, A2, O2)
    BY HeldStays DEF Stands
<1>6. /\ h.at = "tab" => Q2[h.q] # None
      /\ h.at = "decide.quote" => Q2[h.q] # None
    BY DEF Stands, Grows
<1>. QED
    BY <1>1, <1>2, <1>3, <1>4, <1>5, <1>6 DEF Stands

---------------------------------------------------------------------------
(* A step of handler r, which then holds h, keeps the invariant if what it *)
(* stored is sound and h stands on it.                                     *)
LEMMA HandlerStep ==
    ASSUME RequestsInv, NEW r \in Requests, NEW h, Goto(r, h),
           Stored(quotation', approval', order', config'),
           Grows(quotation, approval, order, quotation', approval', order'),
           Stands(h, quotation', approval', order'),
           \A p \in Requests \ {r} :
              At(p, "create.insert") =>
                 /\ quotation'[request[p].q] = None
                 /\ h.at = "create.insert" => request[p].q # h.q
    PROVE  RequestsInv'
<1>1. /\ DOMAIN request' = Requests
      /\ request' = [p \in Requests |-> request'[p]]
      /\ request'[r] = h
      /\ \A p \in Requests \ {r} : request'[p] = request[p]
    BY DEF RequestsInv, Goto
<1>2. ASSUME NEW p \in Requests
      PROVE  Stands(request'[p], quotation', approval', order')
    <2>1. CASE p = r
        BY <1>1, <2>1
    <2>2. CASE p # r
        <3>1. Stands(request[p], quotation, approval, order) /\ request'[p] = request[p]
            BY <1>1, <2>2 DEF RequestsInv
        <3>2. request[p].at = "create.insert" => quotation'[request[p].q] = None
            BY <2>2 DEF At
        <3>. QED
            BY <3>1, <3>2, StandsStays
    <2>. QED
        BY <2>1, <2>2
<1>3. DistinctInserts(request')
    <2>1. DistinctInserts(request)
        BY DEF RequestsInv
    <2>. QED
        BY <2>1, <1>1 DEF DistinctInserts, At
<1>. QED
    BY <1>1, <1>2, <1>3 DEF RequestsInv

(* A step that stores nothing and does not go on to insert a quotation.    *)
LEMMA ReadStep ==
    ASSUME RequestsInv, NEW r \in Requests, NEW h, Goto(r, h), UNCHANGED store,
           Stands(h, quotation, approval, order), h.at # "create.insert"
    PROVE  RequestsInv'
<1>1. Stored(quotation', approval', order', config')
    BY DEF RequestsInv, store
<1>2. Grows(quotation, approval, order, quotation', approval', order')
    BY DEF Grows, KeepsReferences, store
<1>3. Stands(h, quotation', approval', order')
    BY DEF store
<1>4. \A p \in Requests : At(p, "create.insert") => quotation'[request[p].q] = None
    BY DEF RequestsInv, Stands, At, store
<1>. QED
    BY <1>1, <1>2, <1>3, <1>4, HandlerStep

(* A step that saves one quotation.                                        *)
LEMMA QuotationStep ==
    ASSUME RequestsInv, NEW r \in Requests, NEW h, Goto(r, h),
           NEW q \in Quotations, NEW quote, quotation[q] # None,
           Sound(quote, q, approval, order), KeepsReferences(quotation[q], quote),
           quotation' = [quotation EXCEPT ![q] = quote],
           UNCHANGED <<approval, order, config>>,
           Stands(h, quotation, approval, order), h.at # "create.insert"
    PROVE  RequestsInv'
<1>1. quote \in Quote /\ quote # None
    BY NoneIsNoDocument DEF Sound
<1>2. \A p \in Quotations : quotation'[p] = IF p = q THEN quote ELSE quotation[p]
    BY DEF RequestsInv, Stored
<1>3. Stored(quotation', approval', order', config')
    <2>1. quotation' \in [Quotations -> Quote \cup {None}]
        BY <1>1 DEF RequestsInv, Stored
    <2>. QED
        BY <1>1, <1>2, <2>1, NoneIsNoPaddedDocument DEF RequestsInv, Stored, PaddedApproval
<1>4. Grows(quotation, approval, order, quotation', approval', order')
    BY <1>1, <1>2 DEF Grows, KeepsReferences
<1>5. Stands(h, quotation', approval', order')
    BY <1>4, StandsStays
<1>6. \A p \in Requests : At(p, "create.insert") => quotation'[request[p].q] = None
    BY <1>2 DEF RequestsInv, Stands, At
<1>. QED
    BY <1>3, <1>4, <1>5, <1>6, HandlerStep

(* A step that inserts or saves one approval.                              *)
LEMMA ApprovalStep ==
    ASSUME RequestsInv, NEW r \in Requests, NEW h, Goto(r, h),
           NEW a \in Approvals, NEW doc \in PaddedApproval,
           quotation[doc.quotation] # None,
           approval[a] # None => approval[a].quotation = doc.quotation,
           approval' = [approval EXCEPT ![a] = doc],
           UNCHANGED <<quotation, order, config>>,
           Stands(h, quotation, approval', order), h.at # "create.insert"
    PROVE  RequestsInv'
<1>1. doc # None
    BY NoneIsNoPaddedDocument
<1>2. \A b \in Approvals : approval'[b] = IF b = a THEN doc ELSE approval[b]
    BY DEF RequestsInv, Stored
<1>3. Grows(quotation, approval, order, quotation', approval', order')
    BY <1>1, <1>2 DEF Grows, KeepsReferences
<1>4. Stored(quotation', approval', order', config')
    <2>1. approval' \in [Approvals -> PaddedApproval \cup {None}]
        BY DEF RequestsInv, Stored
    <2>2. \A q \in Quotations : quotation[q] # None => Sound(quotation[q], q, approval', order')
        BY <1>3, SoundStays DEF RequestsInv, Stored
    <2>. QED
        BY <1>1, <1>2, <2>1, <2>2 DEF RequestsInv, Stored
<1>5. Stands(h, quotation', approval', order')
    OBVIOUS
<1>6. \A p \in Requests : At(p, "create.insert") => quotation'[request[p].q] = None
    BY DEF RequestsInv, Stands, At
<1>. QED
    BY <1>3, <1>4, <1>5, <1>6, HandlerStep

(* A step that inserts one order.                                          *)
LEMMA OrderStep ==
    ASSUME RequestsInv, NEW r \in Requests, NEW h, Goto(r, h),
           NEW o \in Orders, NEW doc \in Order, order[o] = None,
           order' = [order EXCEPT ![o] = doc],
           UNCHANGED <<quotation, approval, config>>,
           Stands(h, quotation, approval, order'), h.at # "create.insert"
    PROVE  RequestsInv'
<1>1. doc # None
    BY NoneIsNoDocument
<1>2. \A b \in Orders : order'[b] = IF b = o THEN doc ELSE order[b]
    BY DEF RequestsInv, Stored
<1>3. Grows(quotation, approval, order, quotation', approval', order')
    BY <1>1, <1>2 DEF Grows, KeepsReferences
<1>4. Stored(quotation', approval', order', config')
    <2>1. order' \in [Orders -> Order \cup {None}]
        BY DEF RequestsInv, Stored
    <2>2. \A q \in Quotations : quotation[q] # None => Sound(quotation[q], q, approval, order')
        BY <1>3, SoundStays DEF RequestsInv, Stored
    <2>. QED
        BY <2>1, <2>2 DEF RequestsInv, Stored
<1>5. Stands(h, quotation', approval', order')
    OBVIOUS
<1>6. \A p \in Requests : At(p, "create.insert") => quotation'[request[p].q] = None
    BY DEF RequestsInv, Stands, At
<1>. QED
    BY <1>3, <1>4, <1>5, <1>6, HandlerStep

(* A handler that ends, or a tab that is closed, holds nothing.            *)
LEMMA IdleStands ==
    \A Q, A, O : Stands(Idle, Q, A, O) /\ Idle.at # "create.insert"
BY DEF Stands, Idle, Labels, ReadQuotation

---------------------------------------------------------------------------
(* What save() leaves stored.                                              *)

(* A save writes a reference only when it was changed, and it is never     *)
(* changed to none; so whatever was written meanwhile, stage and reference *)
(* go together.                                                            *)
LEMMA QuoteWrittenIsSound ==
    ASSUME NEW q, NEW A, NEW O, NEW cur, NEW snap, NEW new, NEW touched,
           Sound(cur, q, A, O), Sound(snap, q, A, O), KeepsReferences(snap, cur),
           Made(new, snap, q, A, O), touched \subseteq {"terms", "risk"}
    PROVE  /\ Sound(QuoteWritten(cur, snap, new, touched), q, A, O)
           /\ KeepsReferences(cur, QuoteWritten(cur, snap, new, touched))
<1>. DEFINE w == QuoteWritten(cur, snap, new, touched)
<1>1. /\ w.stage = IF new.stage # snap.stage THEN new.stage ELSE cur.stage
      /\ w.approval = IF new.approval # snap.approval THEN new.approval ELSE cur.approval
      /\ w.order = IF new.order # snap.order THEN new.order ELSE cur.order
    BY DEF QuoteWritten
<1>2. w \in Quote
    BY DEF QuoteWritten, Sound, Made, Quote
<1>. HIDE DEF w
<1>3. KeepsReferences(cur, w)
    BY <1>1 DEF KeepsReferences, Made
<1>4. /\ w.approval # None => A[w.approval] # None /\ A[w.approval].quotation = q
      /\ w.order # None => O[w.order] # None /\ O[w.order].quotation = q
    BY <1>1 DEF Sound, Made
<1>5. /\ w.stage = "PENDING_APPROVAL" => w.approval # None
      /\ w.stage = "CONFIRMED" => w.order # None
    BY <1>1 DEF Sound, Made, KeepsReferences
<1>. QED
    BY <1>2, <1>3, <1>4, <1>5 DEF Sound, w

(* submit and counter save whole approvals.                                *)
LEMMA ApprovalWrittenType ==
    ASSUME NEW cur \in PaddedApproval, NEW snap, NEW new \in PaddedApproval, NEW touched
    PROVE  /\ ApprovalWritten(cur, snap, new, touched) \in PaddedApproval
           /\ ApprovalWritten(cur, snap, new, touched).quotation = cur.quotation
BY DEF ApprovalWritten, PaddedApproval

(* A bounded set of numbers has a maximum.                                 *)
LEMMA MaximumExists ==
    ASSUME NEW n \in Nat, NEW S \in SUBSET (0..n), S # {}
    PROVE  \E x \in S : \A y \in S : y <= x
<1>. DEFINE T == {n - k : k \in S}
            R == OpToRel(<, Nat)
<1>1. T \subseteq Nat /\ T # {}
    <2>1. \A k \in S : n - k \in Nat
        OBVIOUS
    <2>. QED
        BY <2>1, Zenon
<1>2. IsWellFoundedOn(R, Nat)
    BY NatLessThanWellFounded
<1>3. \A x, y \in Nat : x < y => <<x, y>> \in R
    BY DEF OpToRel
<1>. HIDE DEF R
<1>4. PICK x \in T : \A y \in T : ~(<<y, x>> \in R)
    BY <1>1, <1>2, WFMin
<1>5. PICK k \in S : x = n - k
    BY <1>4
<1>6. ASSUME NEW j \in S PROVE j <= k
    <2>1. n - j \in T /\ n - j \in Nat /\ n - k \in Nat
        OBVIOUS
    <2>2. ~(n - j < n - k)
        BY <2>1, <1>3, <1>4, <1>5
    <2>. QED
        BY <2>2
<1>. QED
    BY <1>6

(* A decision writes statuses into the steps that are stored, and may make *)
(* the array longer.                                                       *)
LEMMA StepsWrittenType ==
    ASSUME NEW cur \in Seq(PaddedStep), NEW snap, NEW new \in Seq(PaddedStep)
    PROVE  StepsWritten(cur, snap, new) \in Seq(PaddedStep)
<1>. DEFINE changed == {i \in DOMAIN new : new[i] # snap[i]}
            S == {Len(cur)} \cup changed
            length == CHOOSE n \in S : \A i \in S : i <= n
            stored(i) == IF i \in DOMAIN cur THEN cur[i] ELSE NoStep
            step(i) == IF i \in changed THEN [stored(i) EXCEPT !.status = new[i].status]
                                        ELSE stored(i)
<1>1. /\ Len(cur) \in Nat /\ Len(new) \in Nat /\ DOMAIN new = 1..Len(new)
      /\ cur \in [1..Len(cur) -> PaddedStep] /\ new \in [1..Len(new) -> PaddedStep]
    OBVIOUS
<1>2. length \in Nat
    <2>1. S \in SUBSET (0..(Len(cur) + Len(new))) /\ S # {} /\ Len(cur) + Len(new) \in Nat
        BY <1>1
    <2>. HIDE DEF S, changed
    <2>2. \E n \in S : \A i \in S : i <= n
        BY <2>1, MaximumExists
    <2>3. length \in S
        BY <2>2, Zenon
    <2>. HIDE DEF length
    <2>. QED
        BY <2>1, <2>3
<1>3. \A i : stored(i) \in PaddedStep
    BY <1>1 DEF NoStep, PaddedStep
<1>4. ASSUME NEW i \in 1..length PROVE step(i) \in PaddedStep
    <2>1. CASE i \in changed
        <3>1. new[i].status \in StepStatus \cup {None}
            BY <1>1, <2>1 DEF PaddedStep
        <3>. HIDE DEF stored, changed
        <3>2. [stored(i) EXCEPT !.status = new[i].status] \in PaddedStep
            BY <1>3, <3>1 DEF PaddedStep
        <3>. QED
            BY <2>1, <3>2
    <2>2. CASE i \notin changed
        BY <1>3, <2>2
    <2>. QED
        BY <2>1, <2>2
<1>5. StepsWritten(cur, snap, new) = [i \in 1..length |-> step(i)]
    BY DEF StepsWritten
<1>. HIDE DEF length, step
<1>6. [i \in 1..length |-> step(i)] \in [1..length -> PaddedStep]
    BY <1>4
<1>. QED
    BY <1>2, <1>5, <1>6, FunctionIsSequence

(* The elements without a role are steps like the others.                  *)
LEMMA PaddedApprovals ==
    /\ PaddedApproval = ApprovalOver(PaddedStep) /\ StepsLike(PaddedStep)
    /\ Approval \subseteq PaddedApproval
<1>1. Step \subseteq PaddedStep
    BY DEF Step, PaddedStep
<1>2. \A e \in PaddedStep : \A st \in StepStatus \cup {e.status} :
         [e EXCEPT !.status = st] \in PaddedStep
    BY DEF PaddedStep
<1>3. \A doc \in Approval : doc.steps \in Seq(PaddedStep)
    BY <1>1, MoreSteps DEF Approval
<1>4. Approval \subseteq PaddedApproval
    BY <1>3 DEF Approval, PaddedApproval
<1>. QED
    BY <1>1, <1>2, <1>4 DEF PaddedApproval, ApprovalOver, StepsLike

LEMMA DecisionWrittenType ==
    ASSUME NEW cur \in PaddedApproval, NEW snap, NEW new \in PaddedApproval
    PROVE  /\ DecisionWritten(cur, snap, new) \in PaddedApproval
           /\ DecisionWritten(cur, snap, new).quotation = cur.quotation
<1>. DEFINE steps == StepsWritten(cur.steps, snap.steps, new.steps)
            status == IF new.status # snap.status THEN new.status ELSE cur.status
            active == IF new.active # snap.active THEN new.active ELSE cur.active
<1>1. steps \in Seq(PaddedStep)
    BY StepsWrittenType DEF PaddedApproval
<1>2. status \in ApprovalStatus /\ active \in Nat
    BY DEF PaddedApproval
<1>3. DecisionWritten(cur, snap, new) =
          Closed(cur, steps, status, active)
    <2>1. DecisionWritten(cur, snap, new) =
              [cur EXCEPT !.status = status, !.active = active, !.steps = steps]
        BY DEF DecisionWritten
    <2>. HIDE DEF steps, status, active
    <2>. QED
        BY <2>1 DEF Closed, PaddedApproval
<1>. HIDE DEF steps, status, active
<1>. QED
    BY ONLY <1>1, <1>2, <1>3, ClosedApproval, PaddedApprovals, cur \in PaddedApproval

---------------------------------------------------------------------------
(* What the handlers make of a quotation they read refers to documents     *)
(* that exist.                                                             *)

LEMMA EditsAreMade ==
    ASSUME NEW q, NEW A, NEW O, NEW snap, Sound(snap, q, A, O),
           NEW t \in AllTerms, NEW c \in Configs
    PROVE  /\ Made(Bumped(snap), snap, q, A, O)
           /\ Made(Edited(snap, t, c), snap, q, A, O)
           /\ Made(Reconfigured(snap, c), snap, q, A, O)
           /\ IsAutoApproved(Assess[c][t]) => Made(Countered(snap, t, None, c), snap, q, A, O)
<1>1. snap \in Quote
    BY DEF Sound
<1>2. Made(Bumped(snap), snap, q, A, O)
    BY <1>1, BumpedFields DEF QuoteFields, Made, Sound, KeepsReferences
<1>3. Made(Edited(snap, t, c), snap, q, A, O)
    BY <1>1, EditedFields DEF QuoteFields, Made, Sound, KeepsReferences
<1>4. Made(Reconfigured(snap, c), snap, q, A, O)
    BY <1>1, ReconfiguredFields DEF QuoteFields, Made, Sound, KeepsReferences
<1>5. ASSUME IsAutoApproved(Assess[c][t])
      PROVE  Made(Countered(snap, t, None, c), snap, q, A, O)
    BY <1>1, <1>5, CounteredWithinFields DEF QuoteFields, Made, Sound, KeepsReferences
<1>. QED
    BY <1>2, <1>3, <1>4, <1>5

LEMMA ReviewedIsMade ==
    ASSUME NEW q, NEW A, NEW O, NEW snap, Sound(snap, q, A, O),
           NEW t \in AllTerms, NEW c \in Configs,
           NEW a \in Approvals, A[a] # None, A[a].quotation = q
    PROVE  /\ Made(Submitted(snap, a, c), snap, q, A, O)
           /\ Made(Countered(snap, t, a, c), snap, q, A, O)
<1>1. snap \in Quote /\ a # None
    BY NoneIsNoId DEF Sound
<1>2. Made(Submitted(snap, a, c), snap, q, A, O)
    BY <1>1, SubmittedFields DEF QuoteFields, Made, Sound, KeepsReferences
<1>3. CASE IsAutoApproved(Assess[c][t])
    BY <1>1, <1>2, <1>3, CounteredWithinFields DEF QuoteFields, Made, Sound, KeepsReferences
<1>4. CASE ~IsAutoApproved(Assess[c][t])
    BY <1>1, <1>2, <1>4, CounteredOverFields DEF QuoteFields, Made, Sound, KeepsReferences
<1>. QED
    BY <1>3, <1>4

LEMMA ConfirmedIsMade ==
    ASSUME NEW q, NEW A, NEW O, NEW snap, Sound(snap, q, A, O),
           NEW o \in Orders, O[o] # None, O[o].quotation = q
    PROVE  Made(Confirmed(snap, o), snap, q, A, O)
<1>1. snap \in Quote /\ o # None
    BY NoneIsNoId DEF Sound
<1>. QED
    BY <1>1, ConfirmedFields DEF QuoteFields, Made, Sound, KeepsReferences

---------------------------------------------------------------------------
(* The steps, one access at a time.                                        *)

(* What the collections and the handlers offer a step.                     *)
LEMMA InvGives ==
    ASSUME RequestsInv
    PROVE  /\ \A q \in Quotations :
                 quotation[q] # None => Held(quotation[q], q, quotation, approval, order)
           /\ \A a \in Approvals :
                 approval[a] # None =>
                     /\ approval[a] \in PaddedApproval
                     /\ Found(approval[a], a, approval[a].quotation, approval)
                     /\ approval[a].quotation \in Quotations
                     /\ quotation[approval[a].quotation] # None
           /\ \A r \in Requests : Stands(request[r], quotation, approval, order)
           /\ config \in Configs
<1>1. \A q \in Quotations :
         quotation[q] # None => Held(quotation[q], q, quotation, approval, order)
    BY DEF RequestsInv, Stored, Held, KeepsReferences
<1>2. \A a \in Approvals : approval[a] # None => approval[a] \in PaddedApproval
    BY DEF RequestsInv, Stored
<1>3. \A a \in Approvals :
         approval[a] # None =>
             /\ Found(approval[a], a, approval[a].quotation, approval)
             /\ approval[a].quotation \in Quotations
             /\ quotation[approval[a].quotation] # None
    BY <1>2 DEF RequestsInv, Stored, Found, PaddedApproval
<1>. QED
    BY <1>1, <1>2, <1>3 DEF RequestsInv, Stored

LEMMA CreateKeeps ==
    ASSUME RequestsInv, NEW r \in Requests, NEW q \in Quotations, CreateScore(r, q)
    PROVE  RequestsInv'
<1>. DEFINE h == [at |-> "create.insert", q |-> q, new |-> NewQuote(config)]
<1>1. /\ NewQuote(config) \in Quote
      /\ NewQuote(config).approval = None /\ NewQuote(config).order = None
      /\ NewQuote(config).stage = "DRAFT"
    BY InvGives, NewQuoteType DEF NewQuote
<1>2. quotation[q] = None
    BY DEF CreateScore, Exists
<1>3. Stands(h, quotation, approval, order)
    BY <1>1, <1>2 DEF Stands, Labels, ReadQuotation
<1>4. /\ Goto(r, h) /\ h.q = q
      /\ quotation' = quotation /\ approval' = approval /\ order' = order /\ config' = config
      /\ \A p \in Requests : At(p, "create.insert") => request[p].q # q
    BY DEF CreateScore, store
<1>. HIDE DEF h
<1>5. Grows(quotation, approval, order, quotation', approval', order')
    BY <1>4 DEF Grows, KeepsReferences
<1>6. \A p \in Requests : At(p, "create.insert") => quotation'[request[p].q] = None
    BY <1>4 DEF RequestsInv, Stands, At
<1>7. Stored(quotation', approval', order', config')
    BY <1>4 DEF RequestsInv
<1>. QED
    BY <1>3, <1>4, <1>5, <1>6, <1>7, HandlerStep

LEMMA InsertKeeps ==
    ASSUME RequestsInv, NEW r \in Requests, CreateInsert(r)
    PROVE  RequestsInv'
<1>. DEFINE q == request[r].q
            new == request[r].new
<1>1. /\ q \in Quotations /\ quotation[q] = None
      /\ new \in Quote /\ new.approval = None /\ new.order = None /\ new.stage = "DRAFT"
    BY InvGives DEF CreateInsert, At, Stands
<1>2. /\ Goto(r, Idle) /\ quotation' = [quotation EXCEPT ![q] = new]
      /\ approval' = approval /\ order' = order /\ config' = config
    BY DEF CreateInsert, Finish
<1>. HIDE DEF new
<1>3. /\ quotation' \in [Quotations -> Quote \cup {None}]
      /\ \A p \in Quotations : quotation'[p] = IF p = q THEN new ELSE quotation[p]
    BY <1>1, <1>2 DEF RequestsInv, Stored
<1>4. new # None
    BY <1>1, NoneIsNoDocument
<1>5. Sound(new, q, approval, order)
    BY <1>1 DEF Sound
<1>6. Grows(quotation, approval, order, quotation', approval', order')
    BY <1>1, <1>2, <1>3 DEF Grows, KeepsReferences
<1>7. Stored(quotation', approval', order', config')
    BY <1>2, <1>3, <1>4, <1>5 DEF RequestsInv, Stored, PaddedApproval
<1>8. Stands(Idle, quotation', approval', order') /\ Idle.at # "create.insert"
    BY IdleStands
<1>9. \A p \in Requests \ {r} : At(p, "create.insert") => quotation'[request[p].q] = None
    <2>. SUFFICES ASSUME NEW p \in Requests \ {r}, At(p, "create.insert")
                  PROVE  quotation'[request[p].q] = None
        OBVIOUS
    <2>1. request[p].q \in Quotations /\ quotation[request[p].q] = None
        BY InvGives DEF At, Stands
    <2>2. request[p].q # q
        BY DEF CreateInsert, At, RequestsInv, DistinctInserts
    <2>. QED
        BY <2>1, <2>2, <1>3
<1>. QED
    BY <1>2, <1>6, <1>7, <1>8, <1>9, HandlerStep

(* A tab is opened or closed, a handler dies.                              *)
LEMMA TabKeeps ==
    ASSUME RequestsInv, NEW r \in Requests,
           (\E q \in Quotations : Load(r, q)) \/ CloseTab(r) \/ Fail(r)
    PROVE  RequestsInv'
<1>1. CASE CloseTab(r) \/ Fail(r)
    <2>1. Goto(r, Idle) /\ UNCHANGED store
        BY <1>1 DEF CloseTab, Fail, Finish
    <2>. QED
        BY <2>1, IdleStands, ReadStep
<1>2. ASSUME NEW q \in Quotations, Load(r, q)
      PROVE  RequestsInv'
    <2>. DEFINE h == [at |-> "tab", q |-> q, held |-> quotation[q]]
    <2>1. Goto(r, h) /\ UNCHANGED store /\ h.at # "create.insert"
        BY <1>2 DEF Load
    <2>2. Stands(h, quotation, approval, order)
        BY <1>2 DEF Load, Exists, Stands, Labels, ReadQuotation
    <2>. HIDE DEF h
    <2>. QED
        BY <2>1, <2>2, ReadStep
<1>. QED
    BY <1>1, <1>2

(* The PATCH handler reads the quotation, then the configuration.          *)
LEMMA PatchReadKeeps ==
    ASSUME RequestsInv, NEW r \in Requests, PatchRead(r)
    PROVE  RequestsInv'
<1>. DEFINE q == request[r].q
            held == request[r].held
            quote == quotation[q]
            scoring(t) == [at |-> "patch.score", q |-> q, held |-> held, snap |-> quote, terms |-> t]
            saving == [at |-> "patch.save", q |-> q, held |-> held, snap |-> quote,
                       new |-> Bumped(quote), assigned |-> {}]
<1>1. /\ UNCHANGED store
      /\ Goto(r, Idle) \/ Goto(r, saving) \/ \E t \in AllTerms : Goto(r, scoring(t))
    BY DEF PatchRead, Finish
<1>2. Held(quote, q, quotation, approval, order) /\ q \in Quotations
    BY InvGives DEF PatchRead, At, Stands
<1>3. Made(Bumped(quote), quote, q, approval, order)
    <2>1. config \in Configs /\ NoLines \in AllTerms
        BY InvGives DEF AllTerms
    <2>. QED
        BY <1>2, <2>1, EditsAreMade DEF Held
<1>4. CASE Goto(r, saving)
    <2>1. Stands(saving, quotation, approval, order) /\ saving.at # "create.insert"
        BY <1>2, <1>3 DEF Stands, Labels, ReadQuotation
    <2>. HIDE DEF saving
    <2>. QED
        BY <1>1, <1>4, <2>1, ReadStep
<1>5. ASSUME NEW t \in AllTerms, Goto(r, scoring(t)) PROVE RequestsInv'
    <2>1. Stands(scoring(t), quotation, approval, order) /\ scoring(t).at # "create.insert"
        BY <1>2 DEF Stands, Labels, ReadQuotation
    <2>. HIDE DEF scoring
    <2>. QED
        BY <1>1, <1>5, <2>1, ReadStep
<1>6. CASE Goto(r, Idle)
    BY <1>1, <1>6, IdleStands, ReadStep
<1>. HIDE DEF saving, scoring
<1>. QED
    BY <1>1, <1>4, <1>5, <1>6

LEMMA PatchScoreKeeps ==
    ASSUME RequestsInv, NEW r \in Requests, PatchScore(r)
    PROVE  RequestsInv'
<1>. DEFINE g == request[r]
            h == [at |-> "patch.save", q |-> g.q, held |-> g.held, snap |-> g.snap,
                  new |-> Edited(g.snap, g.terms, config), assigned |-> {"terms", "risk"}]
<1>1. Goto(r, h) /\ UNCHANGED store /\ h.at # "create.insert"
    BY DEF PatchScore
<1>2. /\ Held(g.snap, g.q, quotation, approval, order) /\ g.q \in Quotations
      /\ g.terms \in AllTerms /\ config \in Configs
    BY InvGives DEF PatchScore, At, Stands, ReadQuotation, Held
<1>3. Made(Edited(g.snap, g.terms, config), g.snap, g.q, approval, order)
    BY <1>2, EditsAreMade DEF Held
<1>. HIDE DEF g
<1>4. Stands(h, quotation, approval, order)
    BY <1>2, <1>3 DEF Stands, Labels, ReadQuotation
<1>. HIDE DEF h
<1>. QED
    BY <1>1, <1>4, ReadStep

(* Every save of a quotation, whatever was stored since it was read.       *)
LEMMA SaveKeeps ==
    ASSUME RequestsInv, NEW r \in Requests, NEW h, Goto(r, h),
           Stands(h, quotation, approval, order), h.at # "create.insert",
           NEW q \in Quotations, NEW snap, NEW new,
           Held(snap, q, quotation, approval, order), Made(new, snap, q, approval, order),
           NEW touched \in SUBSET {"terms", "risk"},
           quotation' = [quotation EXCEPT ![q] = QuoteWritten(@, snap, new, touched)],
           UNCHANGED <<approval, order, config>>
    PROVE  RequestsInv'
<1>. DEFINE w == QuoteWritten(quotation[q], snap, new, touched)
<1>1. quotation[q] # None /\ Sound(quotation[q], q, approval, order)
    BY InvGives DEF Held
<1>2. Sound(w, q, approval, order) /\ KeepsReferences(quotation[q], w)
    BY <1>1, QuoteWrittenIsSound DEF Held
<1>3. quotation' = [quotation EXCEPT ![q] = w]
    OBVIOUS
<1>. HIDE DEF w
<1>. QED
    BY <1>1, <1>2, <1>3, QuotationStep

LEMMA SavesKeep ==
    ASSUME RequestsInv, NEW r \in Requests, PatchSave(r) \/ SaveQuote(r) \/ ConvertSave(r)
    PROVE  RequestsInv'
<1>. DEFINE g == request[r]
<1>1. /\ Held(g.snap, g.q, quotation, approval, order) /\ g.q \in Quotations
      /\ Made(g.new, g.snap, g.q, approval, order)
      /\ At(r, "patch.save") => g.assigned \subseteq {"terms", "risk"}
    BY InvGives DEF PatchSave, SaveQuote, ConvertSave, At, Stands, ReadQuotation, Held
<1>2. /\ Goto(r, Idle) /\ UNCHANGED <<approval, order, config>>
      /\ \E touched \in SUBSET {"terms", "risk"} :
            quotation' = [quotation EXCEPT ![g.q] = QuoteWritten(@, g.snap, g.new, touched)]
    BY <1>1 DEF PatchSave, SaveQuote, ConvertSave, Finish
<1>. HIDE DEF g
<1>. QED
    BY <1>1, <1>2, IdleStands, SaveKeeps

(* A submission or a counter-offer is read, scored and finds its approval. *)
LEMMA SubmitReadKeeps ==
    ASSUME RequestsInv, NEW r \in Requests, NEW q \in Quotations,
           SubmitRead(r, q) \/ \E t \in AllTerms : CounterRead(r, q, t)
    PROVE  RequestsInv'
<1>. DEFINE h(by, t) == [at |-> "score", by |-> by, q |-> q, snap |-> quotation[q], terms |-> t]
<1>1. /\ UNCHANGED store /\ quotation[q] # None
      /\ \E by \in {"rep", "customer"}, t \in AllTerms : Goto(r, h(by, t))
    <2>1. CASE SubmitRead(r, q)
        <3>1. quotation[q].terms \in AllTerms
            BY <2>1, InvGives DEF SubmitRead, MayWrite, Exists, Held, Sound, Quote
        <3>. QED
            BY <2>1, <3>1 DEF SubmitRead, MayWrite, Exists
    <2>2. CASE \E t \in AllTerms : CounterRead(r, q, t)
        BY <2>2 DEF CounterRead, MayWrite, Exists
    <2>. QED
        BY <2>1, <2>2
<1>2. Held(quotation[q], q, quotation, approval, order)
    BY <1>1, InvGives
<1>3. ASSUME NEW by \in {"rep", "customer"}, NEW t \in AllTerms, Goto(r, h(by, t))
      PROVE  RequestsInv'
    <2>1. Stands(h(by, t), quotation, approval, order) /\ h(by, t).at # "create.insert"
        BY <1>2 DEF Stands, Labels, ReadQuotation
    <2>. HIDE DEF h
    <2>. QED
        BY <1>1, <1>3, <2>1, ReadStep
<1>. HIDE DEF h
<1>. QED
    BY <1>1, <1>3

LEMMA ScoreKeeps ==
    ASSUME RequestsInv, NEW r \in Requests, Score(r)
    PROVE  RequestsInv'
<1>. DEFINE g == request[r]
            within == [at |-> "saveQuote", q |-> g.q, snap |-> g.snap,
                       new |-> Countered(g.snap, g.terms, None, config)]
            over == [at |-> "find", by |-> g.by, q |-> g.q, snap |-> g.snap,
                     terms |-> g.terms, cfg |-> config]
<1>1. /\ UNCHANGED store
      /\ Goto(r, over) \/ (IsAutoApproved(Assess[config][g.terms]) /\ Goto(r, within))
    BY DEF Score
<1>2. /\ Held(g.snap, g.q, quotation, approval, order) /\ g.q \in Quotations
      /\ g.terms \in AllTerms /\ config \in Configs
    BY InvGives DEF Score, At, Stands, ReadQuotation, Held
<1>3. CASE Goto(r, over)
    <2>. HIDE DEF g
    <2>1. Stands(over, quotation, approval, order) /\ over.at # "create.insert"
        BY <1>2 DEF Stands, Labels, ReadQuotation
    <2>. HIDE DEF over
    <2>. QED
        BY <1>1, <1>3, <2>1, ReadStep
<1>4. CASE IsAutoApproved(Assess[config][g.terms]) /\ Goto(r, within)
    <2>1. Made(Countered(g.snap, g.terms, None, config), g.snap, g.q, approval, order)
        BY <1>2, <1>4, EditsAreMade DEF Held
    <2>. HIDE DEF g
    <2>2. Stands(within, quotation, approval, order) /\ within.at # "create.insert"
        BY <1>2, <2>1 DEF Stands, Labels, ReadQuotation
    <2>. HIDE DEF within
    <2>. QED
        BY <1>1, <1>4, <2>2, ReadStep
<1>. QED
    BY <1>1, <1>3, <1>4

LEMMA FindKeeps ==
    ASSUME RequestsInv, NEW r \in Requests, Find(r)
    PROVE  RequestsInv'
<1>. DEFINE g == request[r]
            a == g.snap.approval
            again == a # None /\ (g.by = "customer" \/ approval[a].status = "RETURNED")
            h == [at |-> "saveApproval", by |-> g.by, q |-> g.q, snap |-> g.snap,
                  terms |-> g.terms, cfg |-> g.cfg, a |-> IF again THEN a ELSE None,
                  doc |-> IF again THEN approval[a] ELSE None]
<1>1. Goto(r, h) /\ UNCHANGED store
    BY DEF Find
<1>2. /\ Held(g.snap, g.q, quotation, approval, order) /\ g.q \in Quotations
      /\ g.terms \in AllTerms /\ g.cfg \in Configs
    BY InvGives DEF Find, At, Stands, ReadQuotation, Held
<1>3. again => a \in Approvals /\ approval[a] # None /\ approval[a].quotation = g.q
    BY <1>2 DEF Held, Sound, Quote
<1>4. again => Found(approval[a], a, g.q, approval)
    BY <1>3, InvGives
<1>. HIDE DEF again, g
<1>5. h.doc # None => Found(h.doc, h.a, h.q, approval)
    BY <1>4
<1>6. Stands(h, quotation, approval, order) /\ h.at # "create.insert"
    BY <1>2, <1>5 DEF Stands, Labels, ReadQuotation
<1>. HIDE DEF h
<1>. QED
    BY <1>1, <1>6, ReadStep

(* The approval is inserted, or saved over what is stored by then.         *)
LEMMA SaveApprovalKeeps ==
    ASSUME RequestsInv, NEW r \in Requests, SaveApproval(r)
    PROVE  RequestsInv'
<1>. DEFINE g == request[r]
            risk == Assess[g.cfg][g.terms]
            Filled(doc) == IF g.by = "rep" THEN SubmittedApproval(doc, risk)
                                           ELSE ReopenedApproval(doc, risk)
            Quoted(a) == IF g.by = "rep" THEN Submitted(g.snap, a, g.cfg)
                                         ELSE Countered(g.snap, g.terms, a, g.cfg)
            h(a) == [at |-> "saveQuote", q |-> g.q, snap |-> g.snap, new |-> Quoted(a)]
            Written(a, touched) == ApprovalWritten(approval[a], g.doc, Filled(g.doc), touched)
<1>1. PICK a \in Approvals :
         /\ Goto(r, h(a))
         /\ \/ /\ g.doc = None /\ approval[a] = None
               /\ approval' = [approval EXCEPT ![a] = Filled(NewApproval(g.q, risk))]
            \/ /\ g.doc # None /\ a = g.a
               /\ \E touched \in SUBSET {"risk"} :
                     approval' = [approval EXCEPT ![a] = Written(a, touched)]
    BY DEF SaveApproval
<1>2. /\ Held(g.snap, g.q, quotation, approval, order) /\ g.q \in Quotations
      /\ quotation[g.q] # None
      /\ g.terms \in AllTerms /\ g.cfg \in Configs /\ risk \in Risk
      /\ g.doc # None => Found(g.doc, g.a, g.q, approval)
    BY InvGives, AssessIsRisk DEF SaveApproval, At, Stands, ReadQuotation, Held
<1>3. UNCHANGED <<quotation, order, config>>
    BY DEF SaveApproval
<1>. HIDE DEF risk
<1>4. ASSUME NEW doc \in PaddedApproval
      PROVE  Filled(doc) \in PaddedApproval /\ Filled(doc).quotation = doc.quotation
    BY <1>2, PaddedApprovals, HandlersOver
<1>5. PICK doc \in PaddedApproval :
         /\ approval' = [approval EXCEPT ![a] = doc]
         /\ doc.quotation = g.q
         /\ approval[a] # None => approval[a].quotation = g.q
    <2>1. CASE g.doc = None
        <3>1. /\ NewApproval(g.q, risk) \in PaddedApproval
              /\ NewApproval(g.q, risk).quotation = g.q
            BY <1>2, NewApprovalType, PaddedApprovals DEF NewApproval
        <3>. HIDE DEF Filled, g
        <3>. QED
            BY <1>1, <1>4, <2>1, <3>1
    <2>2. CASE g.doc # None
        <3>1. PICK touched \in SUBSET {"risk"} :
                 approval' = [approval EXCEPT ![a] = Written(a, touched)] /\ a = g.a
            BY <1>1, <2>2
        <3>2. Found(g.doc, a, g.q, approval) /\ approval[a] \in PaddedApproval
            BY <1>2, <2>2, <3>1, InvGives DEF Found
        <3>3. Filled(g.doc) \in PaddedApproval
            BY <1>4, <3>2 DEF Found
        <3>. HIDE DEF Filled, g
        <3>4. /\ Written(a, touched) \in PaddedApproval
              /\ Written(a, touched).quotation = approval[a].quotation
            BY <3>2, <3>3, ApprovalWrittenType
        <3>. HIDE DEF Written
        <3>. QED
            BY <3>1, <3>2, <3>4 DEF Found
    <2>. QED
        BY <2>1, <2>2
<1>6. doc # None /\ approval'[a] = doc
    BY <1>5, NoneIsNoPaddedDocument DEF RequestsInv, Stored
<1>7. Grows(quotation, approval, order, quotation, approval', order)
    <2>1. \A b \in Approvals : b # a => approval'[b] = approval[b]
        BY <1>5 DEF RequestsInv, Stored
    <2>. QED
        BY <1>5, <1>6, <2>1 DEF Grows, KeepsReferences
<1>8. Held(g.snap, g.q, quotation, approval', order)
    BY <1>2, <1>7, HeldStays
<1>9. Made(Quoted(a), g.snap, g.q, approval', order)
    BY <1>2, <1>5, <1>6, <1>8, ReviewedIsMade DEF Held
<1>. HIDE DEF g, Quoted
<1>10. Stands(h(a), quotation, approval', order) /\ h(a).at # "create.insert"
    BY <1>8, <1>9 DEF Stands, Labels, ReadQuotation
<1>. HIDE DEF h
<1>. QED
    BY <1>1, <1>2, <1>3, <1>5, <1>10, ApprovalStep

(* A decision is read, saved, and carried to the quotation.                *)
LEMMA DecideReadKeeps ==
    ASSUME RequestsInv, NEW r \in Requests, NEW a \in Approvals, NEW role,
           NEW verb \in {"approve", "return", "reject"}, DecideRead(r, a, role, verb)
    PROVE  RequestsInv'
<1>. DEFINE h == [at |-> "decide.approval", verb |-> verb, a |-> a, doc |-> approval[a]]
<1>1. Goto(r, h) /\ UNCHANGED store /\ h.at # "create.insert"
    BY DEF DecideRead
<1>2. /\ Found(approval[a], a, approval[a].quotation, approval)
      /\ approval[a].active \in DOMAIN approval[a].steps
    BY InvGives DEF DecideRead, MayDecide
<1>3. Stands(h, quotation, approval, order)
    BY <1>2 DEF Stands, Labels, ReadQuotation
<1>. HIDE DEF h
<1>. QED
    BY <1>1, <1>3, ReadStep

(* A decision has the type of an approval.                                 *)
LEMMA DecisionType ==
    ASSUME NEW doc \in PaddedApproval, doc.active \in DOMAIN doc.steps,
           NEW verb \in {"approve", "return", "reject"}
    PROVE  Decision(verb, doc) \in PaddedApproval
<1>1. Decision(verb, doc) \in {ApprovedStep(doc), ReturnedStep(doc), RejectedStep(doc)}
    BY DEF Decision
<1>. HIDE DEF Decision
<1>. QED
    BY <1>1, DecisionsOver, PaddedApprovals

LEMMA DecideSaveKeeps ==
    ASSUME RequestsInv, NEW r \in Requests, DecideSave(r)
    PROVE  RequestsInv'
<1>. DEFINE g == request[r]
            w == DecisionWritten(approval[g.a], g.doc, Decision(g.verb, g.doc))
            h == [at |-> "decide.quote", q |-> g.doc.quotation, stage |-> StageAfter(g.verb)]
<1>1. /\ approval' = [approval EXCEPT ![g.a] = w]
      /\ UNCHANGED <<quotation, order, config>>
      /\ Goto(r, h) \/ Goto(r, Idle)
    BY DEF DecideSave, Finish
<1>2. /\ Found(g.doc, g.a, g.doc.quotation, approval)
      /\ g.verb \in {"approve", "return", "reject"} /\ g.doc.active \in DOMAIN g.doc.steps
    BY InvGives DEF DecideSave, At, Stands
<1>3. /\ approval[g.a] \in PaddedApproval /\ g.a \in Approvals
      /\ g.doc.quotation \in Quotations /\ quotation[g.doc.quotation] # None
      /\ approval[g.a].quotation = g.doc.quotation
    BY <1>2, InvGives DEF Found
<1>4. Decision(g.verb, g.doc) \in PaddedApproval
    BY <1>2, DecisionType DEF Found
<1>5. w \in PaddedApproval /\ w.quotation = g.doc.quotation
    BY <1>3, <1>4, DecisionWrittenType
<1>6. StageAfter(g.verb) \in {"APPROVED", "DRAFT", "REJECTED"}
    BY <1>2 DEF StageAfter
<1>. HIDE DEF w, g
<1>7. Stands(h, quotation, approval', order) /\ h.at # "create.insert"
    BY <1>3, <1>6 DEF Stands, Labels, ReadQuotation
<1>8. Stands(Idle, quotation, approval', order) /\ Idle.at # "create.insert"
    BY IdleStands
<1>. HIDE DEF h
<1>. QED
    BY <1>1, <1>3, <1>5, <1>7, <1>8, ApprovalStep

LEMMA DecideQuoteKeeps ==
    ASSUME RequestsInv, NEW r \in Requests, DecideQuote(r)
    PROVE  RequestsInv'
<1>. DEFINE q == request[r].q
            w == Decided(quotation[q], request[r].stage)
<1>1. /\ quotation' = [quotation EXCEPT ![q] = w]
      /\ UNCHANGED <<approval, order, config>> /\ Goto(r, Idle)
    BY DEF DecideQuote, Finish
<1>2. /\ q \in Quotations /\ quotation[q] # None
      /\ request[r].stage \in {"APPROVED", "DRAFT", "REJECTED"}
    BY InvGives DEF DecideQuote, At, Stands
<1>3. Sound(quotation[q], q, approval, order)
    BY <1>2, InvGives DEF Held
<1>4. Sound(w, q, approval, order) /\ KeepsReferences(quotation[q], w)
    BY <1>2, <1>3, DecidedFields DEF QuoteFields, Sound, KeepsReferences, Stage
<1>. HIDE DEF w
<1>. QED
    BY <1>1, <1>2, <1>4, IdleStands, QuotationStep

(* A conversion reads the quotation and inserts its order.                 *)
LEMMA ConvertReadKeeps ==
    ASSUME RequestsInv, NEW r \in Requests, NEW q \in Quotations, ConvertRead(r, q)
    PROVE  RequestsInv'
<1>. DEFINE h == [at |-> "order.create", q |-> q, snap |-> quotation[q]]
<1>1. Goto(r, h) /\ UNCHANGED store /\ h.at # "create.insert"
    BY DEF ConvertRead
<1>2. Held(quotation[q], q, quotation, approval, order)
    BY InvGives DEF ConvertRead, MayWrite, Exists
<1>3. Stands(h, quotation, approval, order)
    BY <1>2 DEF Stands, Labels, ReadQuotation
<1>. HIDE DEF h
<1>. QED
    BY <1>1, <1>3, ReadStep

LEMMA ConvertCreateKeeps ==
    ASSUME RequestsInv, NEW r \in Requests, NEW o \in Orders, ConvertCreate(r, o)
    PROVE  RequestsInv'
<1>. DEFINE g == request[r]
            doc == [quotation |-> g.q, terms |-> g.snap.terms]
            h == [at |-> "order.quote", q |-> g.q, snap |-> g.snap, new |-> Confirmed(g.snap, o)]
<1>1. /\ Goto(r, h) /\ order[o] = None /\ order' = [order EXCEPT ![o] = doc]
      /\ UNCHANGED <<quotation, approval, config>>
    BY DEF ConvertCreate
<1>2. Held(g.snap, g.q, quotation, approval, order) /\ g.q \in Quotations
    BY InvGives DEF ConvertCreate, At, Stands, ReadQuotation, Held
<1>. HIDE DEF g
<1>3. doc \in Order /\ doc # None /\ doc.quotation = g.q
    BY <1>2, NoneIsNoDocument DEF Order, Held, Sound, Quote
<1>. HIDE DEF doc
<1>4. \A p \in Orders : order'[p] = IF p = o THEN doc ELSE order[p]
    BY <1>1 DEF RequestsInv, Stored
<1>5. Grows(quotation, approval, order, quotation, approval, order')
    BY <1>1, <1>3, <1>4 DEF Grows, KeepsReferences
<1>6. Held(g.snap, g.q, quotation, approval, order')
    BY <1>2, <1>5, HeldStays
<1>7. Made(Confirmed(g.snap, o), g.snap, g.q, approval, order')
    BY <1>3, <1>4, <1>6, ConfirmedIsMade DEF Held
<1>8. Stands(h, quotation, approval, order') /\ h.at # "create.insert"
    BY <1>6, <1>7 DEF Stands, Labels, ReadQuotation
<1>. HIDE DEF h
<1>. QED
    BY <1>1, <1>3, <1>8, OrderStep

---------------------------------------------------------------------------
(* A change of the configuration is saved, and its loop runs.              *)
LEMMA ConfigSaveKeeps ==
    ASSUME RequestsInv, NEW r \in Requests, NEW c \in Configs, ConfigSave(r, c)
    PROVE  RequestsInv'
<1>. DEFINE h == [at |-> "config.find", cfg |-> c]
<1>1. /\ Goto(r, h) /\ config' = c
      /\ quotation' = quotation /\ approval' = approval /\ order' = order
    BY DEF ConfigSave
<1>2. Stored(quotation', approval', order', config')
    BY <1>1 DEF RequestsInv, Stored
<1>3. Grows(quotation, approval, order, quotation', approval', order')
    BY <1>1 DEF Grows, KeepsReferences
<1>4. Stands(h, quotation', approval', order') /\ h.at # "create.insert"
    BY DEF Stands, Labels, ReadQuotation
<1>. HIDE DEF h
<1>5. \A p \in Requests : At(p, "create.insert") => quotation'[request[p].q] = None
    BY <1>1 DEF RequestsInv, Stands, At
<1>. QED
    BY <1>1, <1>2, <1>3, <1>4, <1>5, HandlerStep

(* Going on with the quotations in todo is going on with copies of them.   *)
LEMMA ConfigNextStands ==
    ASSUME NEW r \in Requests, NEW c \in Configs, NEW todo, ConfigNext(r, c, todo),
           \A q \in DOMAIN todo : Held(todo[q], q, quotation, approval, order)
    PROVE  \E h : Goto(r, h) /\ Stands(h, quotation, approval, order) /\ h.at # "create.insert"
<1>. DEFINE h == [at |-> "config.approval", cfg |-> c, todo |-> todo]
<1>1. Stands(h, quotation, approval, order) /\ h.at # "create.insert"
    BY DEF Stands, Labels, ReadQuotation
<1>2. Goto(r, Idle) \/ Goto(r, h)
    BY DEF ConfigNext, Finish
<1>. HIDE DEF h
<1>. QED
    BY <1>1, <1>2, IdleStands

LEMMA ConfigFindKeeps ==
    ASSUME RequestsInv, NEW r \in Requests, ConfigFind(r)
    PROVE  RequestsInv'
<1>. DEFINE c == request[r].cfg
            todo == [q \in Moved(c) |-> quotation[q]]
<1>1. ConfigNext(r, c, todo) /\ UNCHANGED store
    BY DEF ConfigFind
<1>2. c \in Configs
    BY InvGives DEF ConfigFind, At, Stands
<1>3. \A q \in DOMAIN todo : Held(todo[q], q, quotation, approval, order)
    BY InvGives DEF Moved, Exists
<1>. HIDE DEF c, todo
<1>. QED
    BY <1>1, <1>2, <1>3, ConfigNextStands, ReadStep

LEMMA ConfigApprovalKeeps ==
    ASSUME RequestsInv, NEW r \in Requests, NEW q \in Quotations, ConfigApproval(r, q)
    PROVE  RequestsInv'
<1>. DEFINE g == request[r]
            risk == Assess[g.cfg][g.todo[q].terms]
            h == [at |-> "config.quote", cfg |-> g.cfg, todo |-> g.todo, q |-> q]
            w(a) == IF Waived(g.todo[q], risk) THEN WaivedApproval(approval[a], risk)
                                               ELSE RescoredApproval(approval[a], risk)
<1>1. /\ Goto(r, h) /\ q \in DOMAIN g.todo /\ UNCHANGED <<quotation, order, config>>
      /\ \/ UNCHANGED approval
         \/ \E a \in PendingOf(q) : approval' = [approval EXCEPT ![a] = w(a)]
    BY DEF ConfigApproval
<1>2. /\ g.cfg \in Configs
      /\ \A p \in DOMAIN g.todo : Held(g.todo[p], p, quotation, approval, order)
    BY InvGives DEF ConfigApproval, At, Stands
<1>3. risk \in Risk
    BY <1>1, <1>2, AssessIsRisk DEF Held, Sound, Quote
<1>. HIDE DEF g, risk
<1>4. CASE UNCHANGED approval
    <2>1. Stands(h, quotation, approval, order) /\ h.at # "create.insert"
        BY <1>1, <1>2 DEF Stands, Labels, ReadQuotation
    <2>. HIDE DEF h
    <2>. QED
        BY <1>1, <1>4, <2>1, ReadStep DEF store
<1>5. ASSUME NEW a \in PendingOf(q), approval' = [approval EXCEPT ![a] = w(a)]
      PROVE  RequestsInv'
    <2>1. /\ a \in Approvals /\ approval[a] # None /\ approval[a] \in PaddedApproval
          /\ approval[a].quotation = q /\ quotation[q] # None
        BY InvGives DEF PendingOf
    <2>2. w(a) \in PaddedApproval /\ w(a).quotation = q
        BY <1>3, <2>1, PaddedApprovals, HandlersOver
    <2>. HIDE DEF w
    <2>3. w(a) # None /\ \A b \in Approvals : approval'[b] = IF b = a THEN w(a) ELSE approval[b]
        BY <1>5, <2>1, <2>2, NoneIsNoPaddedDocument DEF RequestsInv, Stored
    <2>4. Grows(quotation, approval, order, quotation, approval', order)
        BY <2>1, <2>2, <2>3 DEF Grows, KeepsReferences
    <2>5. \A p \in DOMAIN g.todo : Held(g.todo[p], p, quotation, approval', order)
        BY <1>2, <2>4, HeldStays
    <2>6. Stands(h, quotation, approval', order) /\ h.at # "create.insert"
        BY <1>1, <1>2, <2>5 DEF Stands, Labels, ReadQuotation
    <2>. HIDE DEF h
    <2>. QED
        BY <1>1, <1>5, <2>1, <2>2, <2>6, ApprovalStep
<1>. QED
    BY <1>1, <1>4, <1>5

LEMMA ConfigQuoteKeeps ==
    ASSUME RequestsInv, NEW r \in Requests, ConfigQuote(r)
    PROVE  RequestsInv'
<1>. DEFINE g == request[r]
            q == g.q
            rest == [p \in DOMAIN g.todo \ {q} |-> g.todo[p]]
            new == Reconfigured(g.todo[q], g.cfg)
<1>1. /\ quotation' = [quotation EXCEPT ![q] = QuoteWritten(@, g.todo[q], new, {})]
      /\ ConfigNext(r, g.cfg, rest) /\ UNCHANGED <<approval, order, config>>
    BY DEF ConfigQuote
<1>2. /\ g.cfg \in Configs /\ q \in DOMAIN g.todo
      /\ \A p \in DOMAIN g.todo : Held(g.todo[p], p, quotation, approval, order)
    BY InvGives DEF ConfigQuote, At, Stands
<1>3. \A p \in DOMAIN rest : Held(rest[p], p, quotation, approval, order)
    BY <1>2
<1>4. /\ Held(g.todo[q], q, quotation, approval, order) /\ q \in Quotations
      /\ NoLines \in AllTerms
    BY <1>2 DEF Held, AllTerms
<1>5. Made(new, g.todo[q], q, approval, order)
    BY <1>2, <1>4, EditsAreMade DEF Held
<1>. HIDE DEF rest, new, g
<1>6. PICK h : Goto(r, h) /\ Stands(h, quotation, approval, order) /\ h.at # "create.insert"
    BY <1>1, <1>2, <1>3, ConfigNextStands
<1>. DEFINE snap == g.todo[q]
<1>. HIDE DEF q, snap
<1>7. /\ Held(snap, q, quotation, approval, order) /\ Made(new, snap, q, approval, order)
      /\ quotation' = [quotation EXCEPT ![q] = QuoteWritten(@, snap, new, {})]
      /\ {} \in SUBSET {"terms", "risk"}
    BY <1>1, <1>4, <1>5 DEF snap
<1>8. \E touched \in SUBSET {"terms", "risk"} :
         quotation' = [quotation EXCEPT ![q] = QuoteWritten(@, snap, new, touched)]
    BY <1>7
<1>. QED
    BY <1>1, <1>4, <1>6, <1>7, <1>8, SaveKeeps

---------------------------------------------------------------------------
LEMMA NextKeeps ==
    ASSUME RequestsInv, Next
    PROVE  RequestsInv'
<1>1. PICK r \in Requests : Start(r) \/ Continue(r) \/ Tab(r) \/ Fail(r)
    BY DEF Next
<1>2. CASE Start(r)
    BY <1>2, CreateKeeps, SubmitReadKeeps, ConvertReadKeeps, DecideReadKeeps,
       ConfigSaveKeeps, PatchReadKeeps DEF Start
<1>3. CASE Continue(r)
    BY <1>3, InsertKeeps, PatchScoreKeeps, SavesKeep, ScoreKeeps, FindKeeps,
       SaveApprovalKeeps, DecideSaveKeeps, DecideQuoteKeeps, ConvertCreateKeeps,
       ConfigFindKeeps, ConfigApprovalKeeps, ConfigQuoteKeeps DEF Continue
<1>4. CASE Tab(r) \/ Fail(r)
    BY <1>4, TabKeeps DEF Tab
<1>. QED
    BY <1>1, <1>2, <1>3, <1>4

LEMMA StepKeeps == RequestsInv /\ [Next]_vars => RequestsInv'
<1>1. CASE Next
    BY <1>1, NextKeeps
<1>2. CASE UNCHANGED vars
    BY <1>2 DEF vars, RequestsInv, Stands, Stored, DistinctInserts
<1>. QED
    BY <1>1, <1>2

(* RequestsInv - what is stored, and what every handler holds in memory -  *)
(* is inductive: it holds in every state the handlers of DealRequests can  *)
(* reach, in any number, under any interleaving and after any crash.       *)
THEOREM RequestsInvariant == Spec => []RequestsInv
BY InitRequestsInv, StepKeeps, PTL DEF Spec

(* Whatever is interleaved and wherever a handler dies, documents keep     *)
(* their types, references lead to their documents and stages have theirs. *)
THEOREM ReferencesAlwaysHold == Spec => []ReferencesHold
BY RequestsInvariant, InvImplies, PTL

---------------------------------------------------------------------------
(* Handlers that neither overlap nor die, against Deal.                    *)

(* S stands for the settled collections, Q, A, O and c for what is stored. *)
MayWriteIn(Q, q) == Q[q] # None /\ Q[q].version < MaxVersion

Untouched(S, Q, A, O, c) ==
    Q = S.quotation /\ A = S.approval /\ O = S.order /\ c = S.config

(* A submission or a counter-offer was allowed when it was read.           *)
SubmitAllowed(quote) == quote.stage = "DRAFT" /\ quote.terms # NoLines
CounterPossible(quote, t) ==
    /\ quote.stage \notin ClosedToCustomer
    /\ t \in IF quote.terms = NoLines THEN {NoLines} ELSE Terms

Reviewing(h, Q) ==
    /\ h.snap = Q[h.q] /\ MayWriteIn(Q, h.q)
    /\ \/ h.by = "rep" /\ SubmitAllowed(h.snap) /\ h.terms = h.snap.terms
       \/ h.by = "customer" /\ CounterPossible(h.snap, h.terms)

Reuses(h, A) ==
    h.snap.approval # None /\ (h.by = "customer" \/ A[h.snap.approval].status = "RETURNED")

(* The approval was saved, or is not needed, and h.new is still to be.     *)
Countering(h, S, A, c) ==
    /\ A = S.approval
    /\ \E t \in AllTerms :
          /\ CounterPossible(h.snap, t)
          /\ IsAutoApproved(Assess[c][t])
          /\ h.new = Countered(h.snap, t, None, c)

Submitting(h, S, A, c) ==
    LET risk == Assess[c][h.snap.terms]
        again == h.snap.approval # None /\ S.approval[h.snap.approval].status = "RETURNED"
    IN  /\ SubmitAllowed(h.snap)
        /\ \E a \in Approvals :
              /\ IF again THEN a = h.snap.approval ELSE S.approval[a] = None
              /\ A = [S.approval EXCEPT ![a] =
                         SubmittedApproval(IF again THEN S.approval[a] ELSE NewApproval(h.q, risk), risk)]
              /\ h.new = Submitted(h.snap, a, c)

Reopening(h, S, A, c) ==
    \E t \in AllTerms, a \in Approvals :
        LET risk == Assess[c][t]
            again == h.snap.approval # None
        IN  /\ CounterPossible(h.snap, t)
            /\ ~IsAutoApproved(risk)
            /\ IF again THEN a = h.snap.approval ELSE S.approval[a] = None
            /\ A = [S.approval EXCEPT ![a] =
                       ReopenedApproval(IF again THEN S.approval[a] ELSE NewApproval(h.q, risk), risk)]
            /\ h.new = Countered(h.snap, t, a, c)

(* The approval was decided and h.stage is still to be written.            *)
Deciding(h, S, Q, A) ==
    \E a \in Approvals, verb \in {"approve", "return", "reject"}, role \in DecisionRoles :
        LET doc == S.approval[a]
        IN  /\ doc # None /\ MayDecide(doc, role) /\ MovesQuote(verb, doc)
            /\ A = [S.approval EXCEPT ![a] = Decision(verb, doc)]
            /\ h.q = doc.quotation /\ MayWriteIn(Q, h.q)
            /\ h.stage = StageAfter(verb)

Convertible(h, Q) ==
    /\ h.snap = Q[h.q] /\ MayWriteIn(Q, h.q)
    /\ h.snap.order = None /\ h.snap.stage \in ConvertibleStages /\ h.snap.terms # NoLines

(* The loop over the open quotations has done those in W, or only their    *)
(* approvals.                                                              *)
MovedIn(Q, c) ==
    {q \in Quotations : Q[q] # None /\ Q[q].stage \in OpenStages /\ ScoreMoved(Q[q], c)}

PendingIn(A, q) ==
    {a \in Approvals : A[a] # None /\ A[a].quotation = q /\ A[a].status = "PENDING"}

Rescored(S, c, a) ==
    LET quote == S.quotation[S.approval[a].quotation]
        risk == Assess[c][quote.terms]
    IN  IF Waived(quote, risk) THEN WaivedApproval(S.approval[a], risk)
                               ELSE RescoredApproval(S.approval[a], risk)

QuotationsDone(W, S, Q, c) ==
    Q = [q \in Quotations |-> IF q \in W THEN Reconfigured(S.quotation[q], c) ELSE S.quotation[q]]

PicksIn(W, A, pick) ==
    \A q \in W : IF PendingIn(A, q) = {} THEN pick[q] = None ELSE pick[q] \in PendingIn(A, q)

ApprovalsDone(W, S, A, c) ==
    \E pick \in [W -> Approvals \cup {None}] :
        /\ PicksIn(W, S.approval, pick)
        /\ A = [a \in Approvals |-> IF \E q \in W : pick[q] = a THEN Rescored(S, c, a)
                                                               ELSE S.approval[a]]

Rescoring(h, S, Q, A) ==
    LET done == MovedIn(S.quotation, h.cfg) \ DOMAIN h.todo
    IN  /\ DOMAIN h.todo \subseteq MovedIn(S.quotation, h.cfg)
        /\ \A q \in DOMAIN h.todo : h.todo[q] = S.quotation[q]
        /\ \A q \in MovedIn(S.quotation, h.cfg) : S.quotation[q].version <= MaxVersion
        /\ QuotationsDone(done, S, Q, h.cfg)
        /\ ApprovalsDone(IF h.at = "config.quote" THEN done \cup {h.q} ELSE done, S, A, h.cfg)

ReadOnly ==
    {"create.insert", "patch.score", "patch.save", "score", "find", "saveApproval",
     "decide.approval", "order.create"}

(* How far the step of Deal is that the handler with h in memory takes.    *)
Progress(h, S, Q, A, O, c) ==
    /\ h.at \in ReadOnly => Untouched(S, Q, A, O, c)
    /\ h.at = "create.insert" => Q[h.q] = None /\ h.new = NewQuote(c)
    /\ h.at \in {"patch.score", "patch.save"} =>
          h.snap = Q[h.q] /\ h.held = h.snap /\ MayWriteIn(Q, h.q) /\ h.snap.stage = "DRAFT"
    /\ h.at = "patch.save" =>
          h.new = Bumped(h.snap) \/ \E t \in AllTerms : h.new = Edited(h.snap, t, c)
    /\ h.at \in {"score", "find", "saveApproval"} => Reviewing(h, Q)
    /\ h.at \in {"find", "saveApproval"} =>
          h.cfg = c /\ (h.by = "customer" => ~IsAutoApproved(Assess[c][h.terms]))
    /\ h.at = "saveApproval" =>
          IF Reuses(h, A) THEN h.a = h.snap.approval /\ h.doc = A[h.a] ELSE h.doc = None
    /\ h.at = "saveQuote" =>
          /\ Untouched(S, Q, S.approval, O, c)
          /\ h.snap = Q[h.q] /\ MayWriteIn(Q, h.q)
          /\ Countering(h, S, A, c) \/ Submitting(h, S, A, c) \/ Reopening(h, S, A, c)
    /\ h.at = "decide.approval" =>
          /\ h.doc = A[h.a]
          /\ \E role \in DecisionRoles : MayDecide(h.doc, role)
          /\ MovesQuote(h.verb, h.doc) => MayWriteIn(Q, h.doc.quotation)
    /\ h.at = "decide.quote" => Untouched(S, Q, S.approval, O, c) /\ Deciding(h, S, Q, A)
    /\ h.at \in {"order.create", "order.quote"} => Convertible(h, Q)
    /\ h.at = "order.quote" =>
          /\ Untouched(S, Q, A, S.order, c)
          /\ \E o \in Orders :
                /\ S.order[o] = None
                /\ O = [S.order EXCEPT ![o] = [quotation |-> h.q, terms |-> h.snap.terms]]
                /\ h.new = Confirmed(h.snap, o)
    /\ h.at \in {"config.find", "config.approval", "config.quote"} => c = h.cfg /\ O = S.order
    /\ h.at = "config.find" =>
          /\ Q = S.quotation /\ A = S.approval
          /\ \A q \in MovedIn(Q, c) : Q[q].version <= MaxVersion
    /\ h.at \in {"config.approval", "config.quote"} => Rescoring(h, S, Q, A)

SettledTyped ==
    /\ settled.quotation \in [Quotations -> Quote \cup {None}]
    /\ settled.approval \in [Approvals -> PaddedApproval \cup {None}]

SettledInv ==
    /\ RequestsInv
    /\ SettledTyped
    /\ \A r, p \in Busy : r = p
    /\ Busy = {} => settled = Collections
    /\ \A r \in Busy : Progress(request[r], settled, quotation, approval, order, config)

(* A copy that a tab holds is the quotation as it is, or an older version. *)
TabsAreOlder ==
    \A r \in Requests :
        At(r, "tab") =>
            LET tab == request[r]
            IN  /\ tab.held \in Quote
                /\ tab.held.version <= quotation[tab.q].version
                /\ tab.held.version = quotation[tab.q].version => tab.held = quotation[tab.q]

---------------------------------------------------------------------------
(* What save() stores when nothing was stored since the document was read. *)

LEMMA WrittenAsMade ==
    ASSUME NEW snap \in Quote, NEW new \in Quote, NEW touched
    PROVE  QuoteWritten(snap, snap, new, touched) = new
<1>1. QuoteWritten(snap, snap, new, touched) =
          [stage |-> new.stage, terms |-> new.terms, risk |-> new.risk,
           version |-> new.version, approval |-> new.approval, order |-> new.order]
    BY DEF QuoteWritten
<1>. QED
    BY <1>1 DEF Quote

LEMMA ApprovalAsMade ==
    ASSUME NEW snap \in PaddedApproval, NEW new \in PaddedApproval,
           new.quotation = snap.quotation, NEW touched
    PROVE  ApprovalWritten(snap, snap, new, touched) = new
<1>1. ApprovalWritten(snap, snap, new, touched) =
          [quotation |-> new.quotation, status |-> new.status, steps |-> new.steps,
           active |-> new.active, reEntered |-> new.reEntered, risk |-> new.risk]
    BY DEF ApprovalWritten
<1>. QED
    BY <1>1 DEF PaddedApproval

(* A status is all that changes in a step, so writing the statuses of the  *)
(* steps that changed writes those steps.                                  *)
LEMMA StepsAsMade ==
    ASSUME NEW old \in Seq(PaddedStep), NEW new \in Seq(PaddedStep), DOMAIN new = DOMAIN old,
           \A i \in DOMAIN old : new[i].role = old[i].role
    PROVE  StepsWritten(old, old, new) = new
<1>. DEFINE changed == {i \in DOMAIN new : new[i] # old[i]}
            S == {Len(old)} \cup changed
            length == CHOOSE n \in S : \A i \in S : i <= n
            step(i) == IF i \in changed
                       THEN [(IF i \in DOMAIN old THEN old[i] ELSE NoStep) EXCEPT !.status = new[i].status]
                       ELSE IF i \in DOMAIN old THEN old[i] ELSE NoStep
<1>1. /\ Len(old) \in Nat /\ DOMAIN old = 1..Len(old)
      /\ old \in [1..Len(old) -> PaddedStep] /\ new \in [1..Len(old) -> PaddedStep]
    OBVIOUS
<1>2. length = Len(old)
    <2>0. Len(old) \in Nat
        BY <1>1
    <2>1. S \subseteq 0..Len(old) /\ Len(old) \in S
        BY <1>1
    <2>. HIDE DEF S
    <2>2. \A i \in S : i <= Len(old)
        BY <1>1, <2>1
    <2>3. \E n \in S : \A i \in S : i <= n
        BY <2>1, <2>2
    <2>4. length \in S
        BY <2>3, Zenon
    <2>5. \A i \in S : i <= length
        BY <2>3, Zenon
    <2>. HIDE DEF length
    <2>. QED
        BY ONLY <2>0, <2>1, <2>2, <2>4, <2>5
<1>3. ASSUME NEW i \in 1..Len(old) PROVE step(i) = new[i]
    <2>1. old[i] \in PaddedStep /\ new[i] \in PaddedStep /\ new[i].role = old[i].role
        BY <1>1
    <2>2. CASE i \in changed
        <3>1. step(i) = [old[i] EXCEPT !.status = new[i].status]
            BY <1>1, <2>2
        <3>. QED
            BY <2>1, <3>1 DEF PaddedStep
    <2>3. CASE i \notin changed
        BY <1>1, <2>3
    <2>. QED
        BY <2>2, <2>3
<1>4. StepsWritten(old, old, new) = [i \in 1..length |-> step(i)]
    BY DEF StepsWritten
<1>. HIDE DEF length, step
<1>5. StepsWritten(old, old, new) = [i \in 1..Len(old) |-> new[i]]
    BY <1>2, <1>3, <1>4
<1>. QED
    BY <1>1, <1>5

(* A decision changes the statuses of steps, not their roles.              *)
LEMMA DecisionKeepsRoles ==
    ASSUME NEW doc \in PaddedApproval, doc.active \in DOMAIN doc.steps,
           NEW after \in {ApprovedStep(doc), ReturnedStep(doc), RejectedStep(doc)},
           NEW i \in DOMAIN doc.steps
    PROVE  after.steps[i].role = doc.steps[i].role
<1>. DEFINE s == WithStatus(doc.steps, doc.active, "APPROVED")
            u == WithStatus(s, doc.active + 1, "ACTIVE")
            r == WithStatus(doc.steps, doc.active, "RETURNED")
            x == [j \in DOMAIN doc.steps |->
                     [doc.steps[j] EXCEPT !.status = StatusAfterReject(doc, j)]]
<1>1. \A j \in DOMAIN doc.steps : doc.steps[j] \in PaddedStep
    BY DEF PaddedApproval
<1>2. /\ s[i].role = doc.steps[i].role /\ DOMAIN s = DOMAIN doc.steps
      /\ r[i].role = doc.steps[i].role /\ x[i].role = doc.steps[i].role
    BY <1>1 DEF WithStatus, PaddedStep
<1>3. ~IsLastStep(doc) => u[i].role = doc.steps[i].role
    <2>1. \A j \in DOMAIN s : s[j] = IF j = doc.active THEN [doc.steps[j] EXCEPT !.status = "APPROVED"]
                                                       ELSE doc.steps[j]
        BY <1>1 DEF WithStatus
    <2>2. \A j \in DOMAIN s : s[j] \in PaddedStep
        BY <1>1, <1>2, <2>1, ZenonT(40) DEF PaddedStep, StepStatus
    <2>. HIDE DEF s
    <2>. QED
        BY <1>1, <1>2, <2>2 DEF WithStatus, IsLastStep, PaddedStep
<1>. HIDE DEF s, u, r, x
<1>4. CASE after = ApprovedStep(doc) /\ IsLastStep(doc)
    <2>1. after = Closed(doc, s, "APPROVED", 0)
        BY <1>4 DEF ApprovedStep, Closed, s
    <2>. QED
        BY <2>1, <1>2 DEF Closed, PaddedApproval
<1>5. CASE after = ApprovedStep(doc) /\ ~IsLastStep(doc)
    <2>1. after = Advanced(doc, u, doc.active + 1)
        BY <1>5 DEF ApprovedStep, Advanced, s, u
    <2>. QED
        BY <2>1, <1>3, <1>5 DEF Advanced, PaddedApproval
<1>6. CASE after = ReturnedStep(doc)
    <2>1. after = Closed(doc, r, "RETURNED", 0)
        BY <1>6 DEF ReturnedStep, Closed, PaddedApproval, r
    <2>. QED
        BY <2>1, <1>2 DEF Closed, PaddedApproval
<1>7. CASE after = RejectedStep(doc)
    <2>1. after = Closed(doc, x, "REJECTED", 0)
        BY <1>7 DEF RejectedStep, Closed, PaddedApproval, x
    <2>. QED
        BY <2>1, <1>2 DEF Closed, PaddedApproval
<1>. QED
    BY <1>4, <1>5, <1>6, <1>7

LEMMA DecisionAsMade ==
    ASSUME NEW doc \in PaddedApproval, doc.active \in DOMAIN doc.steps,
           NEW verb \in {"approve", "return", "reject"}
    PROVE  DecisionWritten(doc, doc, Decision(verb, doc)) = Decision(verb, doc)
<1>. DEFINE new == Decision(verb, doc)
<1>1. new \in {ApprovedStep(doc), ReturnedStep(doc), RejectedStep(doc)}
    BY DEF Decision
<1>. HIDE DEF new
<1>2. /\ new \in PaddedApproval /\ DOMAIN new.steps = DOMAIN doc.steps
      /\ new.quotation = doc.quotation /\ new.risk = doc.risk /\ new.reEntered = doc.reEntered
    BY <1>1, DecisionsOver, PaddedApprovals
<1>3. \A i \in DOMAIN doc.steps : new.steps[i].role = doc.steps[i].role
    BY <1>1, DecisionKeepsRoles
<1>4. StepsWritten(doc.steps, doc.steps, new.steps) = new.steps
    BY <1>2, <1>3, StepsAsMade DEF PaddedApproval
<1>5. DecisionWritten(doc, doc, new) =
          [doc EXCEPT !.status = new.status, !.active = new.active, !.steps = new.steps]
    BY <1>4 DEF DecisionWritten
<1>6. DecisionWritten(doc, doc, new) = new
    BY <1>2, <1>5, ZenonT(40) DEF PaddedApproval
<1>. QED
    BY <1>6 DEF new

---------------------------------------------------------------------------
(* Handlers one at a time.                                                 *)

(* A handler starts only when none is under way.                           *)
LEMMA NobodyElse ==
    ASSUME SettledInv, Concurrency = 1, Cardinality(Busy) < Concurrency
    PROVE  Busy = {}
<1>. SUFFICES ASSUME NEW r \in Busy PROVE FALSE
    OBVIOUS
<1>1. Busy = {r}
    BY DEF SettledInv
<1>2. Cardinality(Busy) = 1
    BY <1>1, FS_Singleton
<1>. QED
    BY <1>2

(* What is seen of a step: nothing while a handler is under way.           *)
LEMMA WorkStep ==
    ASSUME RequestsInv, SettledTyped, RequestsInv', SettledNext,
           NEW r \in Requests, Busy \subseteq {r}, NEW h, Goto(r, h), h.at \notin {"idle", "tab"},
           Progress(h, settled, quotation', approval', order', config')
    PROVE  SettledInv' /\ settled' = settled
<1>1. request'[r] = h /\ \A p \in Requests : p # r => request'[p] = request[p]
    BY DEF Goto, RequestsInv
<1>2. Busy' = {r}
    BY <1>1 DEF Busy
<1>3. settled' = settled
    BY <1>2 DEF SettledNext
<1>4. Progress(h, settled', quotation', approval', order', config')
    BY <1>3
<1>. QED
    BY <1>1, <1>2, <1>3, <1>4 DEF SettledInv, SettledTyped

LEMMA FinishStep ==
    ASSUME RequestsInv, RequestsInv', SettledNext, NEW r \in Requests, Busy \subseteq {r},
           Goto(r, Idle)
    PROVE  /\ SettledInv'
           /\ settled'.quotation = quotation' /\ settled'.approval = approval'
           /\ settled'.order = order' /\ settled'.config = config'
<1>1. request'[r] = Idle /\ \A p \in Requests : p # r => request'[p] = request[p]
    BY DEF Goto, RequestsInv
<1>2. Busy' = {}
    BY <1>1 DEF Busy, Idle
<1>3. settled' = Collections'
    BY <1>2 DEF SettledNext
<1>4. SettledTyped'
    BY <1>3 DEF SettledTyped, Collections, RequestsInv, Stored
<1>5. SettledInv'
    BY <1>2, <1>3, <1>4 DEF SettledInv
<1>. QED
    BY <1>3, <1>5 DEF Collections

LEMMA TabStep ==
    ASSUME SettledInv, RequestsInv', SettledNext, NEW r \in Requests,
           request[r].at \in {"idle", "tab"},
           NEW h, Goto(r, h), h.at \in {"idle", "tab"}, UNCHANGED store
    PROVE  SettledInv' /\ settled' = settled
<1>1. request'[r] = h /\ \A p \in Requests : p # r => request'[p] = request[p]
    BY DEF Goto, SettledInv, RequestsInv
<1>2. Busy' = Busy
    BY <1>1 DEF Busy
<1>3. settled' = settled
    BY <1>2 DEF SettledNext, SettledInv, Collections, store
<1>4. \A p \in Busy : request'[p] = request[p]
    BY <1>1 DEF Busy
<1>. QED
    BY <1>2, <1>3, <1>4 DEF SettledInv, SettledTyped, Collections, store

(* While nobody is under way, what is settled is what is stored.           *)
LEMMA SettledWhenIdle ==
    ASSUME SettledInv, Busy = {}
    PROVE  Untouched(settled, quotation, approval, order, config)
BY DEF SettledInv, Collections, Untouched

(* A handler that is under way is the only one, and as far as its label.   *)
LEMMA UnderWay ==
    ASSUME SettledInv, NEW r \in Requests, ~At(r, "idle"), ~At(r, "tab")
    PROVE  /\ Busy \subseteq {r}
           /\ Progress(request[r], settled, quotation, approval, order, config)
           /\ Stands(request[r], quotation, approval, order)
<1>1. r \in Busy
    BY DEF Busy, At
<1>. QED
    BY <1>1, InvGives DEF SettledInv

(* The documents that are stored have their types.                         *)
LEMMA StoredTypes ==
    ASSUME SettledInv
    PROVE  /\ RequestsInv /\ SettledTyped
           /\ \A q \in Quotations : quotation[q] # None => quotation[q] \in Quote
           /\ \A a \in Approvals : approval[a] # None => approval[a] \in PaddedApproval
           /\ config \in Configs
BY InvGives DEF SettledInv, Held, Sound

---------------------------------------------------------------------------
(* Deal's handlers, reached through the instance, are the same handlers.   *)

LEMMA SameQuoteHandlers ==
    /\ \A risk : Serial!IsAutoApproved(risk) = IsAutoApproved(risk)
    /\ \A quote, a, c : Serial!Submitted(quote, a, c) = Submitted(quote, a, c)
    /\ \A quote, t, a, c : Serial!Countered(quote, t, a, c) = Countered(quote, t, a, c)
    /\ \A quote, o : Serial!Confirmed(quote, o) = Confirmed(quote, o)
    /\ \A quote, st : Serial!Decided(quote, st) = Decided(quote, st)
    /\ \A quote, risk : Serial!Waived(quote, risk) = Waived(quote, risk)
    /\ \A quote, c : Serial!ScoreMoved(quote, c) = ScoreMoved(quote, c)
    /\ \A quote, c : Serial!Reconfigured(quote, c) = Reconfigured(quote, c)
<1>1. \A risk : Serial!IsAutoApproved(risk) = IsAutoApproved(risk)
    BY DEF Serial!IsAutoApproved, IsAutoApproved
<1>2. ASSUME NEW quote, NEW a, NEW c
      PROVE  Serial!Submitted(quote, a, c) = Submitted(quote, a, c)
    BY DEF Serial!Submitted, Submitted, Serial!IsAutoApproved, IsAutoApproved
<1>3. ASSUME NEW quote, NEW t, NEW a, NEW c
      PROVE  Serial!Countered(quote, t, a, c) = Countered(quote, t, a, c)
    BY DEF Serial!Countered, Countered, Serial!IsAutoApproved, IsAutoApproved
<1>4. ASSUME NEW quote, NEW o PROVE Serial!Confirmed(quote, o) = Confirmed(quote, o)
    BY DEF Serial!Confirmed, Confirmed
<1>5. ASSUME NEW quote, NEW st PROVE Serial!Decided(quote, st) = Decided(quote, st)
    BY DEF Serial!Decided, Decided
<1>6. ASSUME NEW quote, NEW risk PROVE Serial!Waived(quote, risk) = Waived(quote, risk)
    BY DEF Serial!Waived, Waived, Serial!IsAutoApproved, IsAutoApproved
<1>7. ASSUME NEW quote, NEW c PROVE Serial!ScoreMoved(quote, c) = ScoreMoved(quote, c)
    BY DEF Serial!ScoreMoved, ScoreMoved
<1>8. ASSUME NEW quote, NEW c PROVE Serial!Reconfigured(quote, c) = Reconfigured(quote, c)
    BY DEF Serial!Reconfigured, Reconfigured, Serial!Waived, Waived,
           Serial!IsAutoApproved, IsAutoApproved
<1>. QED
    BY <1>1, <1>2, <1>3, <1>4, <1>5, <1>6, <1>7, <1>8

LEMMA SameApprovalHandlers ==
    /\ \A q, risk : Serial!NewApproval(q, risk) = NewApproval(q, risk)
    /\ \A a, risk : Serial!SubmittedApproval(a, risk) = SubmittedApproval(a, risk)
    /\ \A a, risk : Serial!ReopenedApproval(a, risk) = ReopenedApproval(a, risk)
    /\ \A a, risk : Serial!WaivedApproval(a, risk) = WaivedApproval(a, risk)
    /\ \A a, risk : Serial!RescoredApproval(a, risk) = RescoredApproval(a, risk)
    /\ \A a : Serial!ApprovedStep(a) = ApprovedStep(a)
    /\ \A a : Serial!ReturnedStep(a) = ReturnedStep(a)
    /\ \A a : Serial!RejectedStep(a) = RejectedStep(a)
    /\ \A a : Serial!IsLastStep(a) = IsLastStep(a)
    /\ \A a, role : Serial!MayDecide(a, role) = MayDecide(a, role)
<1>1. \A q, risk : Serial!NewApproval(q, risk) = NewApproval(q, risk)
    BY DEF Serial!NewApproval, NewApproval
<1>2. ASSUME NEW a, NEW risk
      PROVE  Serial!SubmittedApproval(a, risk) = SubmittedApproval(a, risk)
    BY DEF Serial!SubmittedApproval, SubmittedApproval, Serial!OpenSteps, OpenSteps,
           Serial!IsAutoApproved, IsAutoApproved
<1>3. ASSUME NEW a, NEW risk
      PROVE  Serial!ReopenedApproval(a, risk) = ReopenedApproval(a, risk)
    BY DEF Serial!ReopenedApproval, ReopenedApproval, Serial!OpenSteps, OpenSteps
<1>4. ASSUME NEW a, NEW risk PROVE Serial!WaivedApproval(a, risk) = WaivedApproval(a, risk)
    BY DEF Serial!WaivedApproval, WaivedApproval
<1>5. ASSUME NEW a, NEW risk PROVE Serial!RescoredApproval(a, risk) = RescoredApproval(a, risk)
    BY DEF Serial!RescoredApproval, RescoredApproval
<1>6. ASSUME NEW a PROVE Serial!ApprovedStep(a) = ApprovedStep(a)
    BY DEF Serial!ApprovedStep, ApprovedStep, Serial!IsLastStep, IsLastStep,
           Serial!WithStatus, WithStatus
<1>7. ASSUME NEW a PROVE Serial!ReturnedStep(a) = ReturnedStep(a)
    BY DEF Serial!ReturnedStep, ReturnedStep, Serial!WithStatus, WithStatus
<1>8. ASSUME NEW a PROVE Serial!RejectedStep(a) = RejectedStep(a)
    BY DEF Serial!RejectedStep, RejectedStep, Serial!StatusAfterReject, StatusAfterReject
<1>9. \A a : Serial!IsLastStep(a) = IsLastStep(a)
    BY DEF Serial!IsLastStep, IsLastStep
<1>10. ASSUME NEW a, NEW role PROVE Serial!MayDecide(a, role) = MayDecide(a, role)
    BY DEF Serial!MayDecide, MayDecide
<1>. QED
    BY <1>1, <1>2, <1>3, <1>4, <1>5, <1>6, <1>7, <1>8, <1>9, <1>10

---------------------------------------------------------------------------
(* The steps, one access at a time: each settles nothing, or what one      *)
(* action of Deal makes of the collections.                                *)

Seen == SettledInv' /\ (settled' = settled \/ Serial!Next)

LEMMA CreateSeen ==
    ASSUME SettledInv, RequestsInv', SettledNext, Concurrency = 1,
           NEW r \in Requests, NEW q \in Quotations, CreateScore(r, q)
    PROVE  Seen
<1>. DEFINE h == [at |-> "create.insert", q |-> q, new |-> NewQuote(config)]
<1>1. Busy = {}
    BY NobodyElse DEF CreateScore, MayStart
<1>2. /\ Goto(r, h) /\ quotation[q] = None
      /\ quotation' = quotation /\ approval' = approval /\ order' = order /\ config' = config
    BY DEF CreateScore, Exists, store
<1>3. Untouched(settled, quotation', approval', order', config')
    BY <1>1, <1>2, SettledWhenIdle
<1>4. h.q = q /\ h.new = NewQuote(config) /\ h.at = "create.insert"
    OBVIOUS
<1>. HIDE DEF h
<1>5. Progress(h, settled, quotation', approval', order', config')
    BY <1>2, <1>3, <1>4 DEF Progress, ReadOnly
<1>. QED
    BY <1>1, <1>2, <1>4, <1>5, StoredTypes, WorkStep DEF Seen

LEMMA InsertSeen ==
    ASSUME SettledInv, RequestsInv', SettledNext, NEW r \in Requests, CreateInsert(r)
    PROVE  Seen
<1>. DEFINE q == request[r].q
<1>1. /\ Busy \subseteq {r} /\ Untouched(settled, quotation, approval, order, config)
      /\ q \in Quotations /\ quotation[q] = None /\ request[r].new = NewQuote(config)
    BY UnderWay DEF CreateInsert, At, Progress, ReadOnly, Stands
<1>2. /\ Goto(r, Idle) /\ quotation' = [quotation EXCEPT ![q] = NewQuote(config)]
      /\ approval' = approval /\ order' = order /\ config' = config
    BY <1>1 DEF CreateInsert, Finish
<1>3. /\ SettledInv'
      /\ settled'.quotation = quotation' /\ settled'.approval = approval'
      /\ settled'.order = order' /\ settled'.config = config'
    BY <1>1, <1>2, StoredTypes, FinishStep
<1>4. Serial!Create(q)
    BY <1>1, <1>2, <1>3
    DEF Untouched, Serial!Create, Serial!Exists, Serial!NewQuote, NewQuote
<1>5. Serial!Next
    BY <1>1, <1>4 DEF Serial!Next
<1>. QED
    BY <1>3, <1>5 DEF Seen

LEMMA TabSeen ==
    ASSUME SettledInv, RequestsInv', SettledNext, NEW r \in Requests, Tab(r)
    PROVE  Seen
<1>1. ASSUME NEW q \in Quotations, Load(r, q) PROVE Seen
    <2>. DEFINE h == [at |-> "tab", q |-> q, held |-> quotation[q]]
    <2>1. Goto(r, h) /\ UNCHANGED store /\ request[r].at = "idle" /\ h.at = "tab"
        BY <1>1 DEF Load, At
    <2>. HIDE DEF h
    <2>. QED
        BY <2>1, TabStep DEF Seen
<1>2. CASE CloseTab(r)
    <2>1. Goto(r, Idle) /\ UNCHANGED store /\ request[r].at = "tab" /\ Idle.at = "idle"
        BY <1>2 DEF CloseTab, Finish, At, Idle
    <2>. QED
        BY <2>1, TabStep DEF Seen
<1>. QED
    BY <1>1, <1>2 DEF Tab

(* PATCH: an edit that is refused changes nothing; one that is not is an   *)
(* edit of the quotation as it is, which is the one the tab holds.         *)
LEMMA PatchReadSeen ==
    ASSUME SettledInv, TabsAreOlder, RequestsInv', SettledNext, Concurrency = 1,
           NEW r \in Requests, PatchRead(r)
    PROVE  Seen
<1>. DEFINE q == request[r].q
            held == request[r].held
            quote == quotation[q]
            scoring(t) == [at |-> "patch.score", q |-> q, held |-> held, snap |-> quote, terms |-> t]
            saving == [at |-> "patch.save", q |-> q, held |-> held, snap |-> quote,
                       new |-> Bumped(quote), assigned |-> {}]
<1>1. /\ Busy = {} /\ UNCHANGED store /\ request[r].at = "tab"
      /\ \/ Goto(r, Idle)
         \/ /\ quote.version = held.version /\ quote.stage = "DRAFT" /\ MayWriteIn(quotation, q)
            /\ Goto(r, saving) \/ \E t \in AllTerms : Goto(r, scoring(t))
    BY NobodyElse DEF PatchRead, Finish, At, MayWrite, Exists, MayWriteIn
<1>2. Untouched(settled, quotation', approval', order', config')
    BY <1>1, SettledWhenIdle DEF store
<1>3. quote.version = held.version => held = quote
    BY <1>1 DEF TabsAreOlder, At
<1>4. CASE Goto(r, Idle)
    <2>1. Idle.at = "idle"
        BY DEF Idle
    <2>. QED
        BY <1>1, <1>4, <2>1, TabStep DEF Seen
<1>5. ASSUME quote.version = held.version, quote.stage = "DRAFT", MayWriteIn(quotation, q),
             NEW h, h = saving \/ \E t \in AllTerms : h = scoring(t), Goto(r, h)
      PROVE  Seen
    <2>1. /\ h.at \in {"patch.save", "patch.score"} /\ h.q = q /\ h.held = held /\ h.snap = quote
          /\ h.at = "patch.save" => h.new = Bumped(quote)
        BY <1>5
    <2>. HIDE DEF saving, scoring
    <2>2. Progress(h, settled, quotation', approval', order', config')
        BY <1>1, <1>2, <1>3, <1>5, <2>1 DEF Progress, ReadOnly, store
    <2>. QED
        BY <1>1, <1>5, <2>1, <2>2, StoredTypes, WorkStep DEF Seen
<1>. HIDE DEF saving, scoring, quote, held
<1>. QED
    BY <1>1, <1>4, <1>5

LEMMA PatchScoreSeen ==
    ASSUME SettledInv, RequestsInv', SettledNext, NEW r \in Requests, PatchScore(r)
    PROVE  Seen
<1>. DEFINE g == request[r]
            h == [at |-> "patch.save", q |-> g.q, held |-> g.held, snap |-> g.snap,
                  new |-> Edited(g.snap, g.terms, config), assigned |-> {"terms", "risk"}]
<1>1. /\ Busy \subseteq {r} /\ Untouched(settled, quotation, approval, order, config)
      /\ g.snap = quotation[g.q] /\ g.held = g.snap /\ MayWriteIn(quotation, g.q)
      /\ g.snap.stage = "DRAFT" /\ g.terms \in AllTerms
    BY UnderWay DEF PatchScore, At, Progress, ReadOnly, Stands
<1>2. /\ Goto(r, h) /\ UNCHANGED store
      /\ h.at = "patch.save" /\ h.q = g.q /\ h.held = g.held /\ h.snap = g.snap
      /\ h.new = Edited(g.snap, g.terms, config)
    BY DEF PatchScore
<1>. HIDE DEF g, h
<1>3. Progress(h, settled, quotation', approval', order', config')
    BY <1>1, <1>2 DEF Progress, ReadOnly, store
<1>. QED
    BY <1>1, <1>2, <1>3, StoredTypes, WorkStep DEF Seen

LEMMA PatchSaveSeen ==
    ASSUME SettledInv, RequestsInv', SettledNext, NEW r \in Requests, PatchSave(r)
    PROVE  Seen
<1>. DEFINE g == request[r]
<1>1. /\ Busy \subseteq {r} /\ Untouched(settled, quotation, approval, order, config)
      /\ g.q \in Quotations /\ g.snap = quotation[g.q] /\ MayWriteIn(quotation, g.q)
      /\ g.snap.stage = "DRAFT" /\ g.new \in Quote
      /\ g.new = Bumped(g.snap) \/ \E t \in AllTerms : g.new = Edited(g.snap, t, config)
    BY UnderWay DEF PatchSave, At, Progress, ReadOnly, Stands, ReadQuotation, Held, Made, Sound
<1>2. PICK touched : quotation' = [quotation EXCEPT ![g.q] = QuoteWritten(@, g.snap, g.new, touched)]
    BY DEF PatchSave
<1>3. /\ Goto(r, Idle) /\ approval' = approval /\ order' = order /\ config' = config
    BY DEF PatchSave, Finish
<1>4. quotation[g.q] \in Quote
    BY <1>1, StoredTypes DEF MayWriteIn
<1>. HIDE DEF g
<1>5. quotation' = [quotation EXCEPT ![g.q] = g.new]
    <2>1. QuoteWritten(quotation[g.q], g.snap, g.new, touched) = g.new
        BY <1>1, <1>4, WrittenAsMade
    <2>. QED
        BY <1>2, <2>1
<1>6. /\ SettledInv'
      /\ settled'.quotation = quotation' /\ settled'.approval = approval'
      /\ settled'.order = order' /\ settled'.config = config'
    BY <1>1, <1>3, StoredTypes, FinishStep
<1>7. CASE g.new = Bumped(g.snap)
    <2>1. Serial!PatchNotes(g.q)
        BY <1>1, <1>3, <1>5, <1>6, <1>7
        DEF Untouched, MayWriteIn, Serial!PatchNotes, Serial!MayWrite, Serial!Exists,
            Serial!Bumped, Bumped
    <2>. QED
        BY <1>1, <1>6, <2>1 DEF Seen, Serial!Next
<1>8. ASSUME NEW t \in AllTerms, g.new = Edited(g.snap, t, config) PROVE Seen
    <2>1. Serial!PatchLines(g.q, t) /\ t \in Serial!AllTerms
        BY <1>1, <1>3, <1>5, <1>6, <1>8
        DEF Untouched, MayWriteIn, Serial!PatchLines, Serial!MayWrite, Serial!Exists,
            Serial!Edited, Edited, Serial!AllTerms, AllTerms
    <2>. QED
        BY <1>1, <1>6, <2>1 DEF Seen, Serial!Next
<1>. QED
    BY <1>1, <1>7, <1>8

(* A submission or a counter-offer.                                        *)
LEMMA ReviewReadSeen ==
    ASSUME SettledInv, RequestsInv', SettledNext, Concurrency = 1,
           NEW r \in Requests, NEW q \in Quotations,
           SubmitRead(r, q) \/ \E t \in AllTerms : CounterRead(r, q, t)
    PROVE  Seen
<1>. DEFINE H(by, t) == [at |-> "score", by |-> by, q |-> q, snap |-> quotation[q], terms |-> t]
<1>1. PICK by, t :
         /\ Goto(r, H(by, t)) /\ Cardinality(Busy) < Concurrency /\ UNCHANGED store
         /\ MayWriteIn(quotation, q)
         /\ \/ by = "rep" /\ SubmitAllowed(quotation[q]) /\ t = quotation[q].terms
            \/ by = "customer" /\ CounterPossible(quotation[q], t)
    BY DEF SubmitRead, CounterRead, MayStart, MayWrite, Exists, MayWriteIn, SubmitAllowed,
           CounterPossible
<1>. DEFINE h == H(by, t)
<1>2. /\ Goto(r, h) /\ h.at = "score" /\ h.by = by /\ h.q = q /\ h.snap = quotation[q]
      /\ h.terms = t
    BY <1>1
<1>3. Busy = {}
    BY <1>1, NobodyElse
<1>4. Untouched(settled, quotation', approval', order', config')
    BY <1>1, <1>3, SettledWhenIdle DEF store
<1>. HIDE DEF h, H
<1>5. Progress(h, settled, quotation', approval', order', config')
    BY <1>1, <1>2, <1>4 DEF Progress, ReadOnly, Reviewing, store
<1>. QED
    BY <1>2, <1>3, <1>5, StoredTypes, WorkStep DEF Seen

LEMMA ScoreSeen ==
    ASSUME SettledInv, RequestsInv', SettledNext, NEW r \in Requests, Score(r)
    PROVE  Seen
<1>. DEFINE g == request[r]
            within == [at |-> "saveQuote", q |-> g.q, snap |-> g.snap,
                       new |-> Countered(g.snap, g.terms, None, config)]
            over == [at |-> "find", by |-> g.by, q |-> g.q, snap |-> g.snap,
                     terms |-> g.terms, cfg |-> config]
            auto == g.by = "customer" /\ IsAutoApproved(Assess[config][g.terms])
<1>1. /\ Busy \subseteq {r} /\ Untouched(settled, quotation, approval, order, config)
      /\ Reviewing(g, quotation) /\ g.terms \in AllTerms
    BY UnderWay DEF Score, At, Progress, ReadOnly, Stands
<1>2. UNCHANGED store /\ IF auto THEN Goto(r, within) ELSE Goto(r, over)
    BY DEF Score
<1>3. Untouched(settled, quotation', approval', order', config')
    BY <1>1, <1>2 DEF store
<1>4. CASE auto
    <2>1. /\ Goto(r, within) /\ within.at = "saveQuote" /\ within.q = g.q /\ within.snap = g.snap
          /\ within.new = Countered(g.snap, g.terms, None, config)
        BY <1>2, <1>4
    <2>. HIDE DEF g, within
    <2>2. Countering(within, settled, approval', config')
        BY <1>1, <1>2, <1>3, <1>4, <2>1 DEF Countering, Reviewing, Untouched, store
    <2>3. Progress(within, settled, quotation', approval', order', config')
        BY <1>1, <1>2, <1>3, <2>1, <2>2 DEF Progress, ReadOnly, Reviewing, Untouched, store
    <2>. QED
        BY <1>1, <2>1, <2>3, StoredTypes, WorkStep DEF Seen
<1>5. CASE ~auto
    <2>1. /\ Goto(r, over) /\ over.at = "find" /\ over.by = g.by /\ over.q = g.q
          /\ over.snap = g.snap /\ over.terms = g.terms /\ over.cfg = config
        BY <1>2, <1>5
    <2>. HIDE DEF g, over
    <2>2. Progress(over, settled, quotation', approval', order', config')
        BY <1>1, <1>2, <1>3, <1>5, <2>1 DEF Progress, ReadOnly, Reviewing, store
    <2>. QED
        BY <1>1, <2>1, <2>2, StoredTypes, WorkStep DEF Seen
<1>. QED
    BY <1>4, <1>5

LEMMA FindSeen ==
    ASSUME SettledInv, RequestsInv', SettledNext, NEW r \in Requests, Find(r)
    PROVE  Seen
<1>. DEFINE g == request[r]
            a == g.snap.approval
            again == a # None /\ (g.by = "customer" \/ approval[a].status = "RETURNED")
            h == [at |-> "saveApproval", by |-> g.by, q |-> g.q, snap |-> g.snap,
                  terms |-> g.terms, cfg |-> g.cfg, a |-> IF again THEN a ELSE None,
                  doc |-> IF again THEN approval[a] ELSE None]
<1>1. /\ Busy \subseteq {r} /\ Untouched(settled, quotation, approval, order, config)
      /\ Reviewing(g, quotation) /\ g.cfg = config
      /\ g.by = "customer" => ~IsAutoApproved(Assess[config][g.terms])
    BY UnderWay DEF Find, At, Progress, ReadOnly
<1>2. /\ Goto(r, h) /\ UNCHANGED store
      /\ h.at = "saveApproval" /\ h.by = g.by /\ h.q = g.q /\ h.snap = g.snap
      /\ h.terms = g.terms /\ h.cfg = g.cfg
      /\ IF again THEN h.a = a /\ h.doc = approval[a] ELSE h.doc = None
    BY DEF Find
<1>3. Reuses(h, approval) <=> again
    BY <1>2 DEF Reuses
<1>. HIDE DEF h, again, g
<1>4. IF Reuses(h, approval) THEN h.a = h.snap.approval /\ h.doc = approval[h.a] ELSE h.doc = None
    BY <1>2, <1>3
<1>5. Progress(h, settled, quotation', approval', order', config')
    BY <1>1, <1>2, <1>4 DEF Progress, ReadOnly, Reviewing, store, Untouched
<1>. QED
    BY <1>1, <1>2, <1>5, StoredTypes, WorkStep DEF Seen

LEMMA SaveApprovalSeen ==
    ASSUME SettledInv, RequestsInv', SettledNext, NEW r \in Requests, SaveApproval(r)
    PROVE  Seen
<1>. DEFINE g == request[r]
            risk == Assess[g.cfg][g.terms]
            Filled(doc) == IF g.by = "rep" THEN SubmittedApproval(doc, risk)
                                           ELSE ReopenedApproval(doc, risk)
            Quoted(a) == IF g.by = "rep" THEN Submitted(g.snap, a, g.cfg)
                                         ELSE Countered(g.snap, g.terms, a, g.cfg)
            H(a) == [at |-> "saveQuote", q |-> g.q, snap |-> g.snap, new |-> Quoted(a)]
<1>1. /\ Busy \subseteq {r} /\ Untouched(settled, quotation, approval, order, config)
      /\ Reviewing(g, quotation) /\ g.cfg = config
      /\ g.by = "customer" => ~IsAutoApproved(Assess[config][g.terms])
      /\ IF Reuses(g, approval) THEN g.a = g.snap.approval /\ g.doc = approval[g.a] ELSE g.doc = None
      /\ g.terms \in AllTerms
      /\ g.doc # None => Found(g.doc, g.a, g.q, approval)
      /\ Held(g.snap, g.q, quotation, approval, order)
    BY UnderWay DEF SaveApproval, At, Progress, ReadOnly, Stands, ReadQuotation
<1>2. PICK a \in Approvals :
         /\ Goto(r, H(a))
         /\ \/ /\ g.doc = None /\ approval[a] = None
               /\ approval' = [approval EXCEPT ![a] = Filled(NewApproval(g.q, risk))]
            \/ /\ g.doc # None /\ a = g.a
               /\ \E touched :
                     approval' = [approval EXCEPT ![a] =
                                     ApprovalWritten(approval[a], g.doc, Filled(g.doc), touched)]
    BY DEF SaveApproval
<1>3. quotation' = quotation /\ order' = order /\ config' = config
    BY DEF SaveApproval
<1>4. risk \in Risk
    BY <1>1, StoredTypes, AssessIsRisk
<1>. DEFINE again == g.doc # None
            old == IF again THEN approval[a] ELSE NewApproval(g.q, risk)
<1>. HIDE DEF risk
<1>5. approval' = [approval EXCEPT ![a] = Filled(old)]
    <2>1. CASE g.doc = None
        BY <1>2, <2>1
    <2>2. CASE g.doc # None
        <3>1. /\ a = g.a /\ g.doc = approval[a] /\ g.doc \in PaddedApproval
              /\ \E touched :
                    approval' = [approval EXCEPT ![a] =
                                    ApprovalWritten(g.doc, g.doc, Filled(g.doc), touched)]
            BY <1>1, <1>2, <2>2 DEF Found
        <3>2. ASSUME NEW doc \in PaddedApproval
              PROVE  Filled(doc) \in PaddedApproval /\ Filled(doc).quotation = doc.quotation
            BY <1>4, PaddedApprovals, HandlersOver
        <3>. HIDE DEF Filled, g
        <3>3. \A touched : ApprovalWritten(g.doc, g.doc, Filled(g.doc), touched) = Filled(g.doc)
            BY <3>1, <3>2, ApprovalAsMade
        <3>. QED
            BY <2>2, <3>1, <3>3
    <2>. QED
        BY <2>1, <2>2
<1>6. /\ again <=> Reuses(g, approval)
      /\ IF again THEN a = g.snap.approval ELSE approval[a] = None
    <2>1. Reuses(g, approval) => approval[g.snap.approval] # None
        BY <1>1 DEF Reuses, Held, Sound
    <2>. QED
        BY <1>1, <1>2, <2>1
<1>. DEFINE h == H(a)
<1>7. /\ Goto(r, h) /\ h.at = "saveQuote" /\ h.q = g.q /\ h.snap = g.snap /\ h.new = Quoted(a)
    BY <1>2
<1>. HIDE DEF h, H
<1>8. CASE g.by = "rep"
    <2>1. /\ SubmitAllowed(h.snap) /\ risk = Assess[config][h.snap.terms]
          /\ again <=> (h.snap.approval # None /\ approval[h.snap.approval].status = "RETURNED")
        BY <1>1, <1>6, <1>7, <1>8 DEF Reviewing, Reuses, risk
    <2>2. Submitting(h, settled, approval', config')
        BY <1>1, <1>3, <1>5, <1>6, <1>7, <1>8, <2>1 DEF Submitting, Untouched
    <2>3. Progress(h, settled, quotation', approval', order', config')
        BY <1>1, <1>3, <1>7, <2>2 DEF Progress, ReadOnly, Reviewing, Untouched
    <2>. QED
        BY <1>1, <1>7, <2>3, StoredTypes, WorkStep DEF Seen
<1>9. CASE g.by = "customer"
    <2>1. /\ CounterPossible(h.snap, g.terms) /\ risk = Assess[config][g.terms]
          /\ ~IsAutoApproved(risk)
          /\ again <=> h.snap.approval # None
        BY <1>1, <1>6, <1>7, <1>9 DEF Reviewing, Reuses, risk
    <2>2. Reopening(h, settled, approval', config')
        BY <1>1, <1>3, <1>5, <1>6, <1>7, <1>9, <2>1 DEF Reopening, Untouched
    <2>3. Progress(h, settled, quotation', approval', order', config')
        BY <1>1, <1>3, <1>7, <2>2 DEF Progress, ReadOnly, Reviewing, Untouched
    <2>. QED
        BY <1>1, <1>7, <2>3, StoredTypes, WorkStep DEF Seen
<1>. QED
    BY <1>1, <1>8, <1>9 DEF Reviewing

(* The save of the quotation settles the whole submission or counter-offer. *)
LEMMA SaveQuoteSeen ==
    ASSUME SettledInv, RequestsInv', SettledNext, NEW r \in Requests, SaveQuote(r)
    PROVE  Seen
<1>. DEFINE g == request[r]
            q == g.q
<1>1. /\ Busy \subseteq {r}
      /\ Untouched(settled, quotation, settled.approval, order, config)
      /\ q \in Quotations /\ g.snap = quotation[q] /\ MayWriteIn(quotation, q) /\ g.new \in Quote
      /\ \/ Countering(g, settled, approval, config)
         \/ Submitting(g, settled, approval, config)
         \/ Reopening(g, settled, approval, config)
    BY UnderWay DEF SaveQuote, At, Progress, Stands, ReadQuotation, Held, Made, Sound
<1>2. PICK touched : quotation' = [quotation EXCEPT ![q] = QuoteWritten(@, g.snap, g.new, touched)]
    BY DEF SaveQuote
<1>3. /\ Goto(r, Idle) /\ approval' = approval /\ order' = order /\ config' = config
    BY DEF SaveQuote, Finish
<1>4. quotation[q] \in Quote
    BY <1>1, StoredTypes DEF MayWriteIn
<1>. HIDE DEF g
<1>5. quotation' = [quotation EXCEPT ![q] = g.new]
    <2>1. QuoteWritten(quotation[q], g.snap, g.new, touched) = g.new
        BY <1>1, <1>4, WrittenAsMade
    <2>. QED
        BY <1>2, <2>1
<1>6. /\ SettledInv'
      /\ settled'.quotation = quotation' /\ settled'.approval = approval'
      /\ settled'.order = order' /\ settled'.config = config'
    BY <1>1, <1>3, StoredTypes, FinishStep
<1>7. CASE Countering(g, settled, approval, config)
    <2>1. PICK t \in AllTerms :
             /\ approval = settled.approval /\ CounterPossible(g.snap, t)
             /\ IsAutoApproved(Assess[config][t])
             /\ g.new = Countered(g.snap, t, None, config)
        BY <1>7 DEF Countering
    <2>2. Serial!CounterWithin(q, t) /\ t \in Serial!AllTerms
        BY <1>1, <1>3, <1>5, <1>6, <2>1, SameQuoteHandlers
        DEF Untouched, MayWriteIn, CounterPossible, Serial!CounterWithin, Serial!CounterAllowed,
            Serial!Counters, Serial!MayWrite, Serial!Exists, Serial!ClosedToCustomer,
            ClosedToCustomer, Serial!AllTerms, AllTerms
    <2>. QED
        BY <1>1, <1>6, <2>2 DEF Seen, Serial!Next
<1>8. CASE Submitting(g, settled, approval, config)
    <2>. DEFINE risk == Assess[config][g.snap.terms]
                again == g.snap.approval # None /\ settled.approval[g.snap.approval].status = "RETURNED"
    <2>1. PICK a \in Approvals :
             /\ SubmitAllowed(g.snap)
             /\ IF again THEN a = g.snap.approval ELSE settled.approval[a] = None
             /\ approval = [settled.approval EXCEPT ![a] =
                   SubmittedApproval(IF again THEN settled.approval[a] ELSE NewApproval(q, risk), risk)]
             /\ g.new = Submitted(g.snap, a, config)
        BY <1>8 DEF Submitting
    <2>2. settled.quotation[q] = g.snap /\ settled.config = config /\ settled.order = order
        BY <1>1 DEF Untouched
    <2>3. Serial!IsResubmit(settled.quotation[q]) <=> again
        BY <2>2 DEF Serial!IsResubmit
    <2>. HIDE DEF again
    <2>4. /\ settled'.approval = [settled.approval EXCEPT ![a] =
                Serial!SubmittedApproval(IF Serial!IsResubmit(settled.quotation[q])
                                         THEN settled.approval[a]
                                         ELSE Serial!NewApproval(q, risk), risk)]
          /\ settled'.quotation =
                [settled.quotation EXCEPT ![q] = Serial!Submitted(g.snap, a, settled.config)]
        BY <1>1, <1>3, <1>5, <1>6, <2>1, <2>2, <2>3, SameQuoteHandlers, SameApprovalHandlers
        DEF Untouched
    <2>5. Serial!MayWrite(q) /\ settled'.order = settled.order /\ settled'.config = settled.config
        BY <1>1, <1>3, <1>6, <2>2 DEF Untouched, MayWriteIn, Serial!MayWrite, Serial!Exists
    <2>6. Serial!Submit(q, a)
        BY <2>1, <2>2, <2>3, <2>4, <2>5 DEF Serial!Submit, SubmitAllowed
    <2>. QED
        BY <1>1, <1>6, <2>6 DEF Seen, Serial!Next
<1>9. CASE Reopening(g, settled, approval, config)
    <2>. DEFINE again == g.snap.approval # None
    <2>1. PICK t \in AllTerms, a \in Approvals :
             LET risk == Assess[config][t]
             IN  /\ CounterPossible(g.snap, t) /\ ~IsAutoApproved(risk)
                 /\ IF again THEN a = g.snap.approval ELSE settled.approval[a] = None
                 /\ approval = [settled.approval EXCEPT ![a] =
                       ReopenedApproval(IF again THEN settled.approval[a] ELSE NewApproval(q, risk), risk)]
                 /\ g.new = Countered(g.snap, t, a, config)
        BY <1>9 DEF Reopening
    <2>. DEFINE risk == Assess[config][t]
    <2>2. settled.quotation[q] = g.snap /\ settled.config = config /\ settled.order = order
        BY <1>1 DEF Untouched
    <2>. HIDE DEF again
    <2>3. /\ settled'.approval = [settled.approval EXCEPT ![a] =
                Serial!ReopenedApproval(IF again THEN settled.approval[a]
                                                 ELSE Serial!NewApproval(q, risk), risk)]
          /\ settled'.quotation =
                [settled.quotation EXCEPT ![q] = Serial!Countered(g.snap, t, a, settled.config)]
          /\ ~Serial!IsAutoApproved(risk)
        BY <1>1, <1>3, <1>5, <1>6, <2>1, <2>2, SameQuoteHandlers, SameApprovalHandlers
        DEF Untouched
    <2>4. /\ Serial!MayWrite(q) /\ settled'.order = settled.order
          /\ settled'.config = settled.config
        BY <1>1, <1>3, <1>6, <2>2 DEF Untouched, MayWriteIn, Serial!MayWrite, Serial!Exists
    <2>5. Serial!CounterAllowed(q) /\ t \in Serial!Counters(q) /\ t \in Serial!AllTerms
        BY <2>1, <2>2, <2>4
        DEF CounterPossible, Serial!CounterAllowed, Serial!Counters, Serial!ClosedToCustomer,
            ClosedToCustomer, Serial!AllTerms, AllTerms
    <2>6. Serial!CounterOver(q, t, a)
        BY <2>1, <2>2, <2>3, <2>4, <2>5 DEF Serial!CounterOver, again
    <2>. QED
        BY <1>1, <1>6, <2>5, <2>6 DEF Seen, Serial!Next
<1>. QED
    BY <1>1, <1>7, <1>8, <1>9

(* A decision.                                                             *)
LEMMA DecideReadSeen ==
    ASSUME SettledInv, RequestsInv', SettledNext, Concurrency = 1,
           NEW r \in Requests, NEW a \in Approvals, NEW role \in DecisionRoles,
           NEW verb \in {"approve", "return", "reject"}, DecideRead(r, a, role, verb)
    PROVE  Seen
<1>. DEFINE h == [at |-> "decide.approval", verb |-> verb, a |-> a, doc |-> approval[a]]
<1>1. Busy = {}
    BY NobodyElse DEF DecideRead, MayStart
<1>2. /\ Goto(r, h) /\ UNCHANGED store /\ MayDecide(approval[a], role)
      /\ MovesQuote(verb, approval[a]) => MayWriteIn(quotation, approval[a].quotation)
      /\ h.at = "decide.approval" /\ h.verb = verb /\ h.a = a /\ h.doc = approval[a]
    BY DEF DecideRead, MayWrite, Exists, MayWriteIn
<1>3. Untouched(settled, quotation', approval', order', config')
    BY <1>1, <1>2, SettledWhenIdle DEF store
<1>. HIDE DEF h
<1>4. Progress(h, settled, quotation', approval', order', config')
    BY <1>2, <1>3 DEF Progress, ReadOnly, store
<1>. QED
    BY <1>1, <1>2, <1>4, StoredTypes, WorkStep DEF Seen

LEMMA DecideSaveSeen ==
    ASSUME SettledInv, RequestsInv', SettledNext, NEW r \in Requests, DecideSave(r)
    PROVE  Seen
<1>. DEFINE g == request[r]
            a == g.a
            h == [at |-> "decide.quote", q |-> g.doc.quotation, stage |-> StageAfter(g.verb)]
<1>1. /\ Busy \subseteq {r} /\ Untouched(settled, quotation, approval, order, config)
      /\ g.doc = approval[a] /\ a \in Approvals /\ g.doc \in PaddedApproval
      /\ approval[a] # None /\ g.doc.active \in DOMAIN g.doc.steps
      /\ g.verb \in {"approve", "return", "reject"}
      /\ \E role \in DecisionRoles : MayDecide(g.doc, role)
      /\ MovesQuote(g.verb, g.doc) => MayWriteIn(quotation, g.doc.quotation)
    BY UnderWay DEF DecideSave, At, Progress, ReadOnly, Stands, Found
<1>2. PICK role \in DecisionRoles : MayDecide(g.doc, role)
    BY <1>1
<1>3. /\ approval' = [approval EXCEPT ![a] = DecisionWritten(approval[a], g.doc, Decision(g.verb, g.doc))]
      /\ IF MovesQuote(g.verb, g.doc) THEN Goto(r, h) ELSE Goto(r, Idle)
      /\ quotation' = quotation /\ order' = order /\ config' = config
      /\ h.at = "decide.quote" /\ h.q = g.doc.quotation /\ h.stage = StageAfter(g.verb)
    BY DEF DecideSave, Finish
<1>. HIDE DEF g, h
<1>4. approval' = [approval EXCEPT ![a] = Decision(g.verb, g.doc)]
    BY <1>1, <1>3, DecisionAsMade
<1>5. CASE MovesQuote(g.verb, g.doc)
    <2>1. settled.approval = approval
        BY <1>1 DEF Untouched
    <2>2. Deciding(h, settled, quotation', approval')
        BY <1>1, <1>2, <1>3, <1>4, <1>5, <2>1, ZenonT(40) DEF Deciding
    <2>3. Progress(h, settled, quotation', approval', order', config')
        BY <1>1, <1>3, <2>2 DEF Progress, ReadOnly, Untouched
    <2>. QED
        BY <1>1, <1>3, <1>5, <2>3, StoredTypes, WorkStep DEF Seen
<1>6. CASE ~MovesQuote(g.verb, g.doc)
    <2>1. g.verb = "approve" /\ ~IsLastStep(g.doc) /\ Decision(g.verb, g.doc) = ApprovedStep(g.doc)
        BY <1>1, <1>6 DEF MovesQuote, Decision
    <2>2. /\ SettledInv'
          /\ settled'.quotation = quotation' /\ settled'.approval = approval'
          /\ settled'.order = order' /\ settled'.config = config'
        BY <1>1, <1>3, <1>6, StoredTypes, FinishStep
    <2>3. Serial!Approve(a, role)
        BY <1>1, <1>2, <1>3, <1>4, <2>1, <2>2, SameApprovalHandlers
        DEF Untouched, Serial!Approve, Serial!Decidable
    <2>4. role \in Serial!DecisionRoles
        BY DEF Serial!DecisionRoles, DecisionRoles
    <2>. QED
        BY <1>1, <2>2, <2>3, <2>4 DEF Seen, Serial!Next
<1>. QED
    BY <1>5, <1>6

LEMMA DecideQuoteSeen ==
    ASSUME SettledInv, RequestsInv', SettledNext, NEW r \in Requests, DecideQuote(r)
    PROVE  Seen
<1>. DEFINE g == request[r]
<1>1. /\ Busy \subseteq {r}
      /\ Untouched(settled, quotation, settled.approval, order, config)
      /\ Deciding(g, settled, quotation, approval)
    BY UnderWay DEF DecideQuote, At, Progress
<1>2. /\ quotation' = [quotation EXCEPT ![g.q] = Decided(quotation[g.q], g.stage)]
      /\ Goto(r, Idle) /\ approval' = approval /\ order' = order /\ config' = config
    BY DEF DecideQuote, Finish
<1>. HIDE DEF g
<1>3. PICK a \in Approvals, verb \in {"approve", "return", "reject"}, role \in DecisionRoles :
          /\ settled.approval[a] # None /\ MayDecide(settled.approval[a], role)
          /\ MovesQuote(verb, settled.approval[a])
          /\ approval = [settled.approval EXCEPT ![a] = Decision(verb, settled.approval[a])]
          /\ g.q = settled.approval[a].quotation /\ MayWriteIn(quotation, g.q)
          /\ g.stage = StageAfter(verb)
    BY <1>1 DEF Deciding
<1>4. /\ SettledInv'
      /\ settled'.quotation = quotation' /\ settled'.approval = approval'
      /\ settled'.order = order' /\ settled'.config = config'
    BY <1>1, <1>2, StoredTypes, FinishStep
<1>. DEFINE doc == settled.approval[a]
<1>5. /\ Serial!Decidable(a, role) /\ Serial!MayWrite(doc.quotation)
      /\ settled'.order = settled.order /\ settled'.config = settled.config
      /\ settled'.quotation =
            [settled.quotation EXCEPT ![doc.quotation] =
                Serial!Decided(settled.quotation[doc.quotation], StageAfter(verb))]
      /\ settled'.approval = [settled.approval EXCEPT ![a] = Decision(verb, doc)]
    BY <1>1, <1>2, <1>3, <1>4, SameApprovalHandlers, SameQuoteHandlers
    DEF Untouched, MayWriteIn, Serial!Decidable, Serial!MayWrite, Serial!Exists
<1>6. Serial!Approve(a, role) \/ Serial!Return(a, role) \/ Serial!Reject(a, role)
    <2>1. CASE verb = "approve"
        <3>1. StageAfter(verb) = "APPROVED" /\ Decision(verb, doc) = Serial!ApprovedStep(doc)
              /\ Serial!IsLastStep(doc)
            BY <1>3, <2>1, SameApprovalHandlers DEF StageAfter, Decision, MovesQuote
        <3>. QED
            BY <1>5, <3>1 DEF Serial!Approve
    <2>2. CASE verb = "return"
        <3>1. StageAfter(verb) = "DRAFT" /\ Decision(verb, doc) = Serial!ReturnedStep(doc)
            BY <2>2, SameApprovalHandlers DEF StageAfter, Decision
        <3>. QED
            BY <1>5, <3>1 DEF Serial!Return
    <2>3. CASE verb = "reject"
        <3>1. StageAfter(verb) = "REJECTED" /\ Decision(verb, doc) = Serial!RejectedStep(doc)
            BY <2>3, SameApprovalHandlers DEF StageAfter, Decision
        <3>. QED
            BY <1>5, <3>1 DEF Serial!Reject
    <2>. QED
        BY <2>1, <2>2, <2>3
<1>7. role \in Serial!DecisionRoles
    BY DEF Serial!DecisionRoles, DecisionRoles
<1>. QED
    BY <1>4, <1>6, <1>7 DEF Seen, Serial!Next

(* A conversion.                                                           *)
LEMMA ConvertReadSeen ==
    ASSUME SettledInv, RequestsInv', SettledNext, Concurrency = 1,
           NEW r \in Requests, NEW q \in Quotations, ConvertRead(r, q)
    PROVE  Seen
<1>. DEFINE h == [at |-> "order.create", q |-> q, snap |-> quotation[q]]
<1>1. Busy = {}
    BY NobodyElse DEF ConvertRead, MayStart
<1>2. /\ Goto(r, h) /\ UNCHANGED store /\ Convertible(h, quotation)
      /\ h.at = "order.create" /\ h.q = q /\ h.snap = quotation[q]
    BY DEF ConvertRead, MayWrite, Exists, MayWriteIn, Convertible
<1>3. Untouched(settled, quotation', approval', order', config')
    BY <1>1, <1>2, SettledWhenIdle DEF store
<1>. HIDE DEF h
<1>4. Progress(h, settled, quotation', approval', order', config')
    BY <1>2, <1>3 DEF Progress, ReadOnly, store
<1>. QED
    BY <1>1, <1>2, <1>4, StoredTypes, WorkStep DEF Seen

LEMMA ConvertCreateSeen ==
    ASSUME SettledInv, RequestsInv', SettledNext, NEW r \in Requests,
           NEW o \in Orders, ConvertCreate(r, o)
    PROVE  Seen
<1>. DEFINE g == request[r]
            h == [at |-> "order.quote", q |-> g.q, snap |-> g.snap, new |-> Confirmed(g.snap, o)]
<1>1. /\ Busy \subseteq {r} /\ Untouched(settled, quotation, approval, order, config)
      /\ Convertible(g, quotation)
    BY UnderWay DEF ConvertCreate, At, Progress, ReadOnly
<1>2. /\ Goto(r, h) /\ order[o] = None
      /\ order' = [order EXCEPT ![o] = [quotation |-> g.q, terms |-> g.snap.terms]]
      /\ quotation' = quotation /\ approval' = approval /\ config' = config
      /\ h.at = "order.quote" /\ h.q = g.q /\ h.snap = g.snap /\ h.new = Confirmed(g.snap, o)
    BY DEF ConvertCreate
<1>. HIDE DEF g, h
<1>3. Convertible(h, quotation')
    BY <1>1, <1>2 DEF Convertible
<1>4. Progress(h, settled, quotation', approval', order', config')
    BY <1>1, <1>2, <1>3 DEF Progress, ReadOnly, Untouched
<1>. QED
    BY <1>1, <1>2, <1>4, StoredTypes, WorkStep DEF Seen

LEMMA ConvertSaveSeen ==
    ASSUME SettledInv, RequestsInv', SettledNext, NEW r \in Requests, ConvertSave(r)
    PROVE  Seen
<1>. DEFINE g == request[r]
            q == g.q
<1>1. /\ Busy \subseteq {r} /\ Untouched(settled, quotation, approval, settled.order, config)
      /\ Convertible(g, quotation) /\ q \in Quotations /\ g.new \in Quote
      /\ \E o \in Orders :
            /\ settled.order[o] = None
            /\ order = [settled.order EXCEPT ![o] = [quotation |-> q, terms |-> g.snap.terms]]
            /\ g.new = Confirmed(g.snap, o)
    BY UnderWay DEF ConvertSave, At, Progress, Stands, ReadQuotation, Held, Made, Sound
<1>2. PICK o \in Orders :
          /\ settled.order[o] = None
          /\ order = [settled.order EXCEPT ![o] = [quotation |-> q, terms |-> g.snap.terms]]
          /\ g.new = Confirmed(g.snap, o)
    BY <1>1
<1>3. /\ quotation' = [quotation EXCEPT ![q] = QuoteWritten(quotation[q], g.snap, g.new, {})]
      /\ Goto(r, Idle) /\ approval' = approval /\ order' = order /\ config' = config
    BY DEF ConvertSave, Finish
<1>4. g.snap = quotation[q] /\ quotation[q] \in Quote
    BY <1>1, StoredTypes DEF Convertible, MayWriteIn
<1>. HIDE DEF g
<1>5. quotation' = [quotation EXCEPT ![q] = g.new]
    <2>1. QuoteWritten(quotation[q], g.snap, g.new, {}) = g.new
        BY <1>1, <1>4, WrittenAsMade
    <2>. QED
        BY <1>3, <2>1
<1>6. /\ SettledInv'
      /\ settled'.quotation = quotation' /\ settled'.approval = approval'
      /\ settled'.order = order' /\ settled'.config = config'
    BY <1>1, <1>3, StoredTypes, FinishStep
<1>7. Serial!Convert(q, o)
    BY <1>1, <1>2, <1>3, <1>4, <1>5, <1>6, SameQuoteHandlers
    DEF Untouched, Convertible, MayWriteIn, Serial!Convert, Serial!MayWrite, Serial!Exists,
        Serial!ConvertibleStages, ConvertibleStages
<1>. QED
    BY <1>1, <1>6, <1>7 DEF Seen, Serial!Next

---------------------------------------------------------------------------
(* PUT /config: the loop over the open quotations.                         *)

(* When the loop has done all that moved, it has done Deal's one step.     *)
LEMMA LoopIsSaveConfig ==
    ASSUME NEW c \in Configs, NEW W, W = MovedIn(settled.quotation, c),
           \A q \in W : settled.quotation[q].version <= MaxVersion,
           QuotationsDone(W, settled, settled'.quotation, c),
           ApprovalsDone(W, settled, settled'.approval, c),
           settled'.config = c, settled'.order = settled.order
    PROVE  Serial!Next
<1>1. Serial!Moved(c) = W
    BY SameQuoteHandlers
    DEF MovedIn, Serial!Moved, Serial!Exists, Serial!OpenStages, OpenStages
<1>2. \A q \in W : Serial!MayRescore(q)
    BY DEF MovedIn, Serial!MayRescore, Serial!Exists
<1>3. settled'.quotation =
          [q \in Quotations |-> IF q \in W THEN Serial!Reconfigured(settled.quotation[q], c)
                                           ELSE settled.quotation[q]]
    BY SameQuoteHandlers DEF QuotationsDone
<1>4. \A q : Serial!PendingOf(q) = PendingIn(settled.approval, q)
    BY DEF Serial!PendingOf, PendingIn
<1>5. PICK pick \in [W -> Approvals \cup {None}] :
          /\ PicksIn(W, settled.approval, pick)
          /\ settled'.approval = [a \in Approvals |-> IF \E q \in W : pick[q] = a
                                                      THEN Rescored(settled, c, a)
                                                      ELSE settled.approval[a]]
    BY DEF ApprovalsDone
<1>6. pick \in Serial!Matches(W)
    BY <1>4, <1>5 DEF Serial!Matches, PicksIn
<1>. DEFINE S(a) == LET q == settled.approval[a].quotation
                        risk == Assess[c][settled.quotation[q].terms]
                    IN  IF Serial!Waived(settled.quotation[q], risk)
                        THEN Serial!WaivedApproval(settled.approval[a], risk)
                        ELSE Serial!RescoredApproval(settled.approval[a], risk)
<1>7. \A a : Rescored(settled, c, a) = S(a)
    BY SameQuoteHandlers, SameApprovalHandlers DEF Rescored
<1>. HIDE DEF S
<1>8. settled'.approval = [a \in Approvals |-> IF \E q \in W : pick[q] = a
                                               THEN S(a) ELSE settled.approval[a]]
    BY <1>5, <1>7
<1>9. \E p \in Serial!Matches(Serial!Moved(c)) :
          settled'.approval = [a \in Approvals |-> IF \E q \in Serial!Moved(c) : p[q] = a
                                                   THEN S(a) ELSE settled.approval[a]]
    BY <1>1, <1>6, <1>8
<1>10. \A q \in Serial!Moved(c) : Serial!MayRescore(q)
    BY <1>1, <1>2
<1>11. settled'.quotation =
          [q \in Quotations |-> IF q \in Serial!Moved(c)
                                THEN Serial!Reconfigured(settled.quotation[q], c)
                                ELSE settled.quotation[q]]
    BY <1>1, <1>3
<1>12. Serial!SaveConfig(c)
    BY <1>9, <1>10, <1>11 DEF Serial!SaveConfig, S
<1>. QED
    BY <1>12 DEF Serial!Next

LEMMA ConfigSaveSeen ==
    ASSUME SettledInv, RequestsInv', SettledNext, Concurrency = 1,
           NEW r \in Requests, NEW c \in Configs, ConfigSave(r, c)
    PROVE  Seen
<1>. DEFINE h == [at |-> "config.find", cfg |-> c]
<1>1. Busy = {}
    BY NobodyElse DEF ConfigSave, MayStart
<1>2. /\ Goto(r, h) /\ config' = c /\ RoomForRescoring
      /\ quotation' = quotation /\ approval' = approval /\ order' = order
      /\ h.at = "config.find" /\ h.cfg = c
    BY DEF ConfigSave
<1>3. Untouched(settled, quotation', approval', order', config)
    BY <1>1, <1>2, SettledWhenIdle
<1>4. ASSUME NEW q \in MovedIn(quotation, c) PROVE quotation[q].version <= MaxVersion
    <2>1. q \in Quotations /\ quotation[q] \in Quote /\ quotation[q].version < MaxVersion
        BY <1>2, <1>4, StoredTypes DEF MovedIn, RoomForRescoring, Exists, MayWrite
    <2>. QED
        BY <2>1, MaxVersionType DEF Quote
<1>. HIDE DEF h
<1>5. Progress(h, settled, quotation', approval', order', config')
    BY <1>2, <1>3, <1>4 DEF Progress, ReadOnly, Untouched
<1>. QED
    BY <1>1, <1>2, <1>5, StoredTypes, WorkStep DEF Seen

LEMMA NothingDoneYet ==
    ASSUME SettledTyped, NEW c
    PROVE  /\ QuotationsDone({}, settled, settled.quotation, c)
           /\ ApprovalsDone({}, settled, settled.approval, c)
<1>1. QuotationsDone({}, settled, settled.quotation, c)
    BY DEF QuotationsDone, SettledTyped
<1>. DEFINE pick == [q \in {} |-> None]
<1>2. pick \in [{} -> Approvals \cup {None}]
    OBVIOUS
<1>3. PicksIn({}, settled.approval, pick)
    BY DEF PicksIn
<1>4. settled.approval = [a \in Approvals |-> IF \E q \in {} : pick[q] = a THEN Rescored(settled, c, a)
                                                                        ELSE settled.approval[a]]
    BY DEF SettledTyped
<1>. HIDE DEF pick
<1>. QED
    BY <1>1, <1>2, <1>3, <1>4 DEF ApprovalsDone

LEMMA ConfigFindSeen ==
    ASSUME SettledInv, RequestsInv', SettledNext, NEW r \in Requests, ConfigFind(r)
    PROVE  Seen
<1>. DEFINE g == request[r]
            todo == [q \in Moved(config) |-> quotation[q]]
            h == [at |-> "config.approval", cfg |-> config, todo |-> todo]
<1>1. /\ Busy \subseteq {r} /\ Untouched(settled, quotation, approval, order, settled.config)
      /\ config = g.cfg
      /\ \A q \in MovedIn(quotation, config) : quotation[q].version <= MaxVersion
    BY UnderWay DEF ConfigFind, At, Progress, Untouched
<1>2. Moved(config) = MovedIn(settled.quotation, config) /\ quotation = settled.quotation
    BY <1>1 DEF Moved, MovedIn, Exists, Untouched
<1>3. /\ IF DOMAIN todo = {} THEN Goto(r, Idle) ELSE Goto(r, h)
      /\ quotation' = quotation /\ approval' = approval /\ order' = order /\ config' = config
    BY <1>1 DEF ConfigFind, ConfigNext, Finish, store
<1>4. DOMAIN todo = Moved(config) /\ \A q \in DOMAIN todo : todo[q] = quotation[q]
    OBVIOUS
<1>5. h.at = "config.approval" /\ h.cfg = config /\ h.todo = todo
    OBVIOUS
<1>. HIDE DEF todo, h
<1>6. CASE DOMAIN todo = {}
    <2>1. /\ SettledInv'
          /\ settled'.quotation = quotation' /\ settled'.approval = approval'
          /\ settled'.order = order' /\ settled'.config = config'
        BY <1>1, <1>3, <1>6, StoredTypes, FinishStep
    <2>2. MovedIn(settled.quotation, config) = {} /\ config \in Configs /\ SettledTyped
        BY <1>2, <1>4, <1>6, StoredTypes
    <2>3. /\ settled'.quotation = settled.quotation /\ settled'.approval = settled.approval
          /\ settled'.config = config /\ settled'.order = settled.order
        BY <1>1, <1>3, <2>1 DEF Untouched
    <2>4. /\ QuotationsDone({}, settled, settled'.quotation, config)
          /\ ApprovalsDone({}, settled, settled'.approval, config)
        BY <2>2, <2>3, NothingDoneYet
    <2>5. Serial!Next
        BY <2>2, <2>3, <2>4, LoopIsSaveConfig
    <2>. QED
        BY <2>1, <2>5 DEF Seen
<1>7. CASE DOMAIN todo # {}
    <2>. DEFINE M == MovedIn(settled.quotation, h.cfg)
    <2>1. h.cfg = config /\ DOMAIN h.todo = M /\ M \ DOMAIN h.todo = {}
        BY <1>2, <1>4, <1>5
    <2>2. /\ QuotationsDone({}, settled, quotation', h.cfg)
          /\ ApprovalsDone({}, settled, approval', h.cfg)
        BY <1>1, <1>3, StoredTypes, NothingDoneYet DEF Untouched
    <2>3. \A q \in DOMAIN h.todo : h.todo[q] = settled.quotation[q]
        BY <1>2, <1>4, <1>5
    <2>4. \A q \in M : settled.quotation[q].version <= MaxVersion
        BY <1>1, <1>2, <2>1
    <2>5. Rescoring(h, settled, quotation', approval')
        BY <1>5, <2>1, <2>2, <2>3, <2>4 DEF Rescoring
    <2>6. Progress(h, settled, quotation', approval', order', config')
        BY <1>1, <1>3, <1>5, <2>5 DEF Progress, ReadOnly, Untouched
    <2>. QED
        BY <1>1, <1>3, <1>5, <1>7, <2>6, StoredTypes, WorkStep DEF Seen
<1>. QED
    BY <1>6, <1>7

(* An approval that the loop wrote belongs to a quotation it has done.     *)
LEMMA OthersPendingStays ==
    ASSUME SettledInv, NEW W, NEW c \in Configs, W \subseteq Quotations,
           ApprovalsDone(W, settled, approval, c), NEW q \in Quotations, q \notin W
    PROVE  /\ PendingOf(q) = PendingIn(settled.approval, q)
           /\ \A a \in PendingOf(q) : approval[a] = settled.approval[a]
<1>1. PICK pick \in [W -> Approvals \cup {None}] :
          /\ PicksIn(W, settled.approval, pick)
          /\ approval = [a \in Approvals |-> IF \E p \in W : pick[p] = a
                                             THEN Rescored(settled, c, a)
                                             ELSE settled.approval[a]]
    BY DEF ApprovalsDone
<1>2. ASSUME NEW a \in Approvals, NEW p \in W, pick[p] = a
      PROVE  a \notin PendingOf(q) /\ a \notin PendingIn(settled.approval, q)
    <2>1. a \in PendingIn(settled.approval, p)
        BY <1>1, <1>2, NoneIsNoId DEF PicksIn
    <2>2. settled.approval[a] # None /\ settled.approval[a].quotation = p /\ p # q
        BY <2>1 DEF PendingIn
    <2>3. settled.approval[a] \in PaddedApproval
        BY <2>2, StoredTypes DEF SettledTyped
    <2>4. approval[a] = Rescored(settled, c, a)
        BY <1>1, <1>2
    <2>5. Rescored(settled, c, a).quotation = p
        BY <2>2, <2>3 DEF Rescored, WaivedApproval, RescoredApproval, PaddedApproval
    <2>. QED
        BY <2>2, <2>4, <2>5 DEF PendingOf, PendingIn
<1>3. ASSUME NEW a \in Approvals, ~\E p \in W : pick[p] = a
      PROVE  approval[a] = settled.approval[a]
    BY <1>1, <1>3
<1>4. \A a \in Approvals : a \in PendingOf(q) <=> a \in PendingIn(settled.approval, q)
    BY <1>2, <1>3 DEF PendingOf, PendingIn
<1>5. \A a \in PendingOf(q) : approval[a] = settled.approval[a]
    BY <1>2, <1>3 DEF PendingOf
<1>. QED
    BY <1>4, <1>5 DEF PendingOf, PendingIn

(* Writing the approval of one more quotation.                             *)
LEMMA OneMoreApproval ==
    ASSUME SettledInv, NEW W, NEW c \in Configs, W \subseteq Quotations,
           ApprovalsDone(W, settled, approval, c), NEW q \in Quotations, q \notin W,
           \/ PendingOf(q) = {} /\ approval' = approval
           \/ \E a \in PendingOf(q) :
                 approval' = [approval EXCEPT ![a] = Rescored(settled, c, a)]
    PROVE  ApprovalsDone(W \cup {q}, settled, approval', c)
<1>1. PICK pick \in [W -> Approvals \cup {None}] :
          /\ PicksIn(W, settled.approval, pick)
          /\ approval = [a \in Approvals |-> IF \E p \in W : pick[p] = a
                                             THEN Rescored(settled, c, a)
                                             ELSE settled.approval[a]]
    BY DEF ApprovalsDone
<1>2. /\ PendingOf(q) = PendingIn(settled.approval, q)
      /\ PendingOf(q) \subseteq Approvals
    BY OthersPendingStays DEF PendingOf
<1>3. PICK x \in Approvals \cup {None} :
         /\ IF PendingOf(q) = {} THEN x = None ELSE x \in PendingOf(q)
         /\ approval' = [a \in Approvals |-> IF x = a THEN Rescored(settled, c, a) ELSE approval[a]]
    <2>1. CASE PendingOf(q) = {} /\ approval' = approval
        <3>1. approval = [a \in Approvals |-> approval[a]] /\ None \notin Approvals
            BY <1>1, NoneIsNoId
        <3>. QED
            BY <2>1, <3>1
    <2>2. ASSUME NEW x \in PendingOf(q),
                 approval' = [approval EXCEPT ![x] = Rescored(settled, c, x)]
          PROVE  /\ x \in Approvals
                 /\ approval' = [a \in Approvals |->
                        IF x = a THEN Rescored(settled, c, a) ELSE approval[a]]
        BY <1>1, <1>2, <2>2
    <2>. QED
        BY <2>1, <2>2
<1>. DEFINE pick2 == [p \in W \cup {q} |-> IF p = q THEN x ELSE pick[p]]
<1>4. /\ pick2 \in [W \cup {q} -> Approvals \cup {None}]
      /\ pick2[q] = x /\ \A p \in W : pick2[p] = pick[p]
    BY <1>1, <1>3
<1>. HIDE DEF pick2
<1>5. PicksIn(W \cup {q}, settled.approval, pick2)
    BY <1>1, <1>2, <1>3, <1>4 DEF PicksIn
<1>6. approval' = [a \in Approvals |-> IF \E p \in W \cup {q} : pick2[p] = a
                                       THEN Rescored(settled, c, a)
                                       ELSE settled.approval[a]]
    BY <1>1, <1>3, <1>4
<1>. QED
    BY <1>4, <1>5, <1>6 DEF ApprovalsDone

LEMMA ConfigApprovalSeen ==
    ASSUME SettledInv, RequestsInv', SettledNext, NEW r \in Requests,
           NEW q \in Quotations, ConfigApproval(r, q)
    PROVE  Seen
<1>. DEFINE g == request[r]
            c == g.cfg
            done == MovedIn(settled.quotation, c) \ DOMAIN g.todo
            risk == Assess[c][g.todo[q].terms]
            h == [at |-> "config.quote", cfg |-> c, todo |-> g.todo, q |-> q]
<1>1. /\ Busy \subseteq {r} /\ config = c /\ order = settled.order /\ c \in Configs
      /\ Rescoring(g, settled, quotation, approval) /\ g.at = "config.approval"
      /\ q \in DOMAIN g.todo
    BY UnderWay DEF ConfigApproval, At, Progress, Stands
<1>2. /\ \/ PendingOf(q) = {} /\ approval' = approval
         \/ \E a \in PendingOf(q) :
               approval' = [approval EXCEPT ![a] =
                   IF Waived(g.todo[q], risk) THEN WaivedApproval(approval[a], risk)
                                              ELSE RescoredApproval(approval[a], risk)]
      /\ Goto(r, h) /\ quotation' = quotation /\ order' = order /\ config' = config
    BY DEF ConfigApproval
<1>3. h.at = "config.quote" /\ h.cfg = c /\ h.todo = g.todo /\ h.q = q
    OBVIOUS
<1>4. /\ done \subseteq Quotations /\ q \notin done
      /\ ApprovalsDone(done, settled, approval, c) /\ g.todo[q] = settled.quotation[q]
    BY <1>1 DEF Rescoring, MovedIn
<1>. HIDE DEF g, h
<1>5. ASSUME NEW a \in PendingOf(q)
      PROVE  (IF Waived(g.todo[q], risk) THEN WaivedApproval(approval[a], risk)
                                         ELSE RescoredApproval(approval[a], risk))
                = Rescored(settled, c, a)
    <2>1. approval[a] = settled.approval[a]
        BY <1>1, <1>4, OthersPendingStays
    <2>2. approval[a].quotation = q
        BY DEF PendingOf
    <2>. QED
        BY <1>4, <2>1, <2>2 DEF Rescored
<1>6. ApprovalsDone(done \cup {q}, settled, approval', c)
    <2>1. \/ PendingOf(q) = {} /\ approval' = approval
          \/ \E a \in PendingOf(q) : approval' = [approval EXCEPT ![a] = Rescored(settled, c, a)]
        BY <1>2, <1>5
    <2>. QED
        BY <1>1, <1>4, <2>1, OneMoreApproval
<1>7. Rescoring(h, settled, quotation', approval')
    BY <1>1, <1>2, <1>3, <1>6 DEF Rescoring
<1>8. Progress(h, settled, quotation', approval', order', config')
    BY <1>1, <1>2, <1>3, <1>7 DEF Progress, ReadOnly
<1>. QED
    BY <1>1, <1>2, <1>3, <1>8, StoredTypes, WorkStep DEF Seen

LEMMA ConfigQuoteSeen ==
    ASSUME SettledInv, RequestsInv', SettledNext, NEW r \in Requests, ConfigQuote(r)
    PROVE  Seen
<1>. DEFINE g == request[r]
            c == g.cfg
            q == g.q
            M == MovedIn(settled.quotation, c)
            done == M \ DOMAIN g.todo
            rest == [p \in DOMAIN g.todo \ {q} |-> g.todo[p]]
            h == [at |-> "config.approval", cfg |-> c, todo |-> rest]
<1>1. /\ Busy \subseteq {r} /\ config = c /\ order = settled.order /\ c \in Configs
      /\ Rescoring(g, settled, quotation, approval) /\ g.at = "config.quote"
      /\ q \in DOMAIN g.todo
    BY UnderWay DEF ConfigQuote, At, Progress, Stands
<1>2. /\ quotation' = [quotation EXCEPT ![q] =
             QuoteWritten(quotation[q], g.todo[q], Reconfigured(g.todo[q], c), {})]
      /\ IF DOMAIN rest = {} THEN Goto(r, Idle) ELSE Goto(r, h)
      /\ approval' = approval /\ order' = order /\ config' = config
    BY DEF ConfigQuote, ConfigNext, Finish
<1>3. /\ DOMAIN rest = DOMAIN g.todo \ {q} /\ \A p \in DOMAIN rest : rest[p] = g.todo[p]
      /\ h.at = "config.approval" /\ h.cfg = c /\ h.todo = rest
    OBVIOUS
<1>. HIDE DEF g, h, rest
<1>4. /\ q \in M /\ q \notin done /\ q \in Quotations
      /\ settled.quotation[q] # None /\ g.todo[q] = settled.quotation[q]
      /\ QuotationsDone(done, settled, quotation, c)
      /\ ApprovalsDone(done \cup {q}, settled, approval, c)
    BY <1>1 DEF Rescoring, MovedIn
<1>5. settled.quotation[q] \in Quote /\ quotation[q] = settled.quotation[q]
    BY <1>4, StoredTypes DEF SettledTyped, QuotationsDone
<1>6. Reconfigured(settled.quotation[q], c) \in Quote
    BY <1>1, <1>5, ReconfiguredFields DEF QuoteFields
<1>7. quotation' = [quotation EXCEPT ![q] = Reconfigured(settled.quotation[q], c)]
    <2>1. QuoteWritten(quotation[q], g.todo[q], Reconfigured(g.todo[q], c), {})
             = Reconfigured(settled.quotation[q], c)
        BY <1>4, <1>5, <1>6, WrittenAsMade
    <2>. QED
        BY <1>2, <2>1
<1>8. QuotationsDone(done \cup {q}, settled, quotation', c)
    BY <1>4, <1>7 DEF QuotationsDone
<1>9. done \cup {q} = M \ DOMAIN rest
    BY <1>3, <1>4
<1>. HIDE DEF done, M
<1>10. CASE DOMAIN rest = {}
    <2>1. /\ SettledInv'
          /\ settled'.quotation = quotation' /\ settled'.approval = approval'
          /\ settled'.order = order' /\ settled'.config = config'
        BY <1>1, <1>2, <1>10, StoredTypes, FinishStep
    <2>2. M = done \cup {q} /\ \A p \in M : settled.quotation[p].version <= MaxVersion
        BY <1>1, <1>9, <1>10 DEF Rescoring, M
    <2>3. /\ QuotationsDone(M, settled, settled'.quotation, c)
          /\ ApprovalsDone(M, settled, settled'.approval, c)
          /\ settled'.config = c /\ settled'.order = settled.order
        BY <1>1, <1>2, <1>4, <1>8, <2>1, <2>2
    <2>4. M = MovedIn(settled.quotation, c)
        BY DEF M
    <2>. HIDE DEF c
    <2>5. Serial!Next
        BY ONLY <1>1, <2>2, <2>3, <2>4, LoopIsSaveConfig
    <2>. QED
        BY <2>1, <2>5 DEF Seen
<1>11. CASE DOMAIN rest # {}
    <2>1. Rescoring(h, settled, quotation', approval')
        <3>1. DOMAIN rest \subseteq M /\ \A p \in DOMAIN rest : rest[p] = settled.quotation[p]
            BY <1>1, <1>3 DEF Rescoring, M
        <3>2. \A p \in M : settled.quotation[p].version <= MaxVersion
            BY <1>1 DEF Rescoring, M
        <3>. QED
            BY <1>2, <1>3, <1>4, <1>8, <1>9, <3>1, <3>2 DEF Rescoring, M
    <2>2. Progress(h, settled, quotation', approval', order', config')
        BY <1>1, <1>2, <1>3, <2>1 DEF Progress, ReadOnly
    <2>. QED
        BY <1>1, <1>2, <1>3, <1>11, <2>2, StoredTypes, WorkStep DEF Seen
<1>. QED
    BY <1>10, <1>11

---------------------------------------------------------------------------
(* The whole next-state relation.                                          *)

LEMMA NextSeen ==
    ASSUME SettledInv, TabsAreOlder, SettledNext, Concurrency = 1, Failures = FALSE
    PROVE  Seen
<1>1. PICK r \in Requests : Start(r) \/ Continue(r) \/ Tab(r)
    BY DEF SettledNext, Next, Fail
<1>2. RequestsInv'
    BY NextKeeps DEF SettledInv, SettledNext
<1>3. CASE Start(r)
    BY <1>2, <1>3, CreateSeen, ReviewReadSeen, ConvertReadSeen, DecideReadSeen,
       ConfigSaveSeen, PatchReadSeen DEF Start
<1>4. CASE Continue(r)
    BY <1>2, <1>4, InsertSeen, PatchScoreSeen, PatchSaveSeen, ScoreSeen, FindSeen,
       SaveApprovalSeen, SaveQuoteSeen, DecideSaveSeen, DecideQuoteSeen, ConvertCreateSeen,
       ConvertSaveSeen, ConfigFindSeen, ConfigApprovalSeen, ConfigQuoteSeen DEF Continue
<1>5. CASE Tab(r)
    BY <1>2, <1>5, TabSeen
<1>. QED
    BY <1>1, <1>3, <1>4, <1>5

(* A stored quotation is only ever replaced by one with the next version.  *)
Bumps ==
    \A q \in Quotations :
        quotation[q] # None =>
            \/ quotation'[q] = quotation[q]
            \/ quotation'[q].version = quotation[q].version + 1

LEMMA NewVersions ==
    ASSUME NEW quote \in Quote, NEW c \in Configs
    PROVE  /\ Bumped(quote).version = quote.version + 1
           /\ \A t \in AllTerms : Edited(quote, t, c).version = quote.version + 1
           /\ \A a \in Approvals : Submitted(quote, a, c).version = quote.version + 1
           /\ \A t, a : Countered(quote, t, a, c).version = quote.version + 1
           /\ \A o : Confirmed(quote, o).version = quote.version + 1
           /\ \A s : Decided(quote, s).version = quote.version + 1
           /\ Reconfigured(quote, c).version = quote.version + 1
BY DEF Quote, Bumped, Edited, Submitted, Countered, Confirmed, Decided, Reconfigured

LEMMA WriteBumps ==
    ASSUME SettledInv, NEW q \in Quotations, quotation[q] \in Quote,
           NEW new \in Quote, new.version = quotation[q].version + 1, NEW touched,
           quotation' = [quotation EXCEPT ![q] =
                            QuoteWritten(quotation[q], quotation[q], new, touched)]
    PROVE  Bumps
<1>1. QuoteWritten(quotation[q], quotation[q], new, touched) = new
    BY WrittenAsMade
<1>. QED
    BY <1>1, StoredTypes DEF Bumps, RequestsInv, Stored

LEMMA ContinueBumps ==
    ASSUME SettledInv, NEW r \in Requests, Continue(r)
    PROVE  Bumps
<1>. DEFINE g == request[r]
<1>0. /\ config \in Configs /\ \A q \in Quotations : quotation[q] # None => quotation[q] \in Quote
      /\ DOMAIN quotation = Quotations
    BY StoredTypes DEF RequestsInv, Stored
<1>1. CASE quotation' = quotation
    BY <1>1 DEF Bumps
<1>2. CASE CreateInsert(r)
    <2>1. g.q \in Quotations /\ quotation[g.q] = None
        BY <1>2, UnderWay DEF CreateInsert, At, Stands
    <2>2. quotation' = [quotation EXCEPT ![g.q] = g.new]
        BY <1>2 DEF CreateInsert
    <2>. QED
        BY <1>0, <2>1, <2>2 DEF Bumps
<1>3. CASE PatchSave(r)
    <2>1. /\ g.q \in Quotations /\ quotation[g.q] # None /\ g.snap = quotation[g.q] /\ g.new \in Quote
          /\ g.new = Bumped(g.snap) \/ \E t \in AllTerms : g.new = Edited(g.snap, t, config)
        BY <1>3, UnderWay
        DEF PatchSave, At, Progress, ReadOnly, Stands, ReadQuotation, Held, Made, Sound
    <2>2. \E touched : quotation' = [quotation EXCEPT ![g.q] = QuoteWritten(quotation[g.q], g.snap, g.new, touched)]
        BY <1>3 DEF PatchSave
    <2>. HIDE DEF g
    <2>3. g.new.version = quotation[g.q].version + 1
        BY <1>0, <2>1, NewVersions
    <2>. QED
        BY <1>0, <2>1, <2>2, <2>3, WriteBumps, ZenonT(40)
<1>4. CASE SaveQuote(r)
    <2>1. /\ g.q \in Quotations /\ quotation[g.q] # None /\ g.snap = quotation[g.q] /\ g.new \in Quote
          /\ \/ Countering(g, settled, approval, config)
             \/ Submitting(g, settled, approval, config)
             \/ Reopening(g, settled, approval, config)
        BY <1>4, UnderWay DEF SaveQuote, At, Progress, Stands, ReadQuotation, Held, Made, Sound
    <2>2. \E touched : quotation' = [quotation EXCEPT ![g.q] = QuoteWritten(quotation[g.q], g.snap, g.new, touched)]
        BY <1>4 DEF SaveQuote
    <2>. HIDE DEF g
    <2>3. g.new.version = quotation[g.q].version + 1
        <3>. PICK h : h = g
            OBVIOUS
        <3>0. h.snap \in Quote /\ h.snap = quotation[h.q] /\ config \in Configs
            BY <1>0, <2>1
        <3>1. CASE Countering(h, settled, approval, config)
            <4>1. \E t \in AllTerms : h.new = Countered(h.snap, t, None, config)
                BY <3>1 DEF Countering
            <4>. QED
                BY <3>0, <4>1, NewVersions
        <3>2. CASE Submitting(h, settled, approval, config)
            <4>1. \E a \in Approvals : h.new = Submitted(h.snap, a, config)
                BY <3>2 DEF Submitting
            <4>. QED
                BY <3>0, <4>1, NewVersions
        <3>3. CASE Reopening(h, settled, approval, config)
            <4>1. \E t \in AllTerms, a \in Approvals : h.new = Countered(h.snap, t, a, config)
                BY <3>3 DEF Reopening
            <4>. QED
                BY <3>0, <4>1, NewVersions
        <3>. QED
            BY <2>1, <3>1, <3>2, <3>3
    <2>. QED
        BY <1>0, <2>1, <2>2, <2>3, WriteBumps
<1>5. CASE DecideQuote(r)
    <2>1. g.q \in Quotations /\ quotation[g.q] # None
        BY <1>5, UnderWay DEF DecideQuote, At, Stands
    <2>2. quotation' = [quotation EXCEPT ![g.q] = Decided(quotation[g.q], g.stage)]
        BY <1>5 DEF DecideQuote
    <2>. HIDE DEF g
    <2>. QED
        BY <1>0, <2>1, <2>2, NewVersions DEF Bumps
<1>6. CASE ConvertSave(r)
    <2>1. /\ g.q \in Quotations /\ quotation[g.q] # None /\ g.snap = quotation[g.q] /\ g.new \in Quote
          /\ \E o \in Orders : g.new = Confirmed(g.snap, o)
        BY <1>6, UnderWay
        DEF ConvertSave, At, Progress, Convertible, Stands, ReadQuotation, Held, Made, Sound
    <2>2. quotation' = [quotation EXCEPT ![g.q] = QuoteWritten(quotation[g.q], g.snap, g.new, {})]
        BY <1>6 DEF ConvertSave
    <2>. HIDE DEF g
    <2>3. g.new.version = quotation[g.q].version + 1
        BY <1>0, <2>1, NewVersions
    <2>. QED
        BY <1>0, <2>1, <2>2, <2>3, WriteBumps
<1>7. CASE ConfigQuote(r)
    <2>. DEFINE q == g.q
    <2>1. /\ q \in DOMAIN g.todo /\ g.cfg \in Configs
          /\ Rescoring(g, settled, quotation, approval)
        BY <1>7, UnderWay DEF ConfigQuote, At, Progress, Stands
    <2>2. quotation' = [quotation EXCEPT ![q] = QuoteWritten(quotation[q], g.todo[q], Reconfigured(g.todo[q], g.cfg), {})]
        BY <1>7 DEF ConfigQuote
    <2>. HIDE DEF g
    <2>3. q \in Quotations /\ g.todo[q] = quotation[q] /\ quotation[q] \in Quote
        BY <2>1, StoredTypes DEF Rescoring, MovedIn, QuotationsDone, SettledTyped
    <2>4. Reconfigured(quotation[q], g.cfg) \in Quote
        BY <2>1, <2>3, ReconfiguredFields DEF QuoteFields
    <2>5. Reconfigured(quotation[q], g.cfg).version = quotation[q].version + 1
        BY <2>1, <2>3, NewVersions
    <2>. QED
        BY <2>2, <2>3, <2>4, <2>5, WriteBumps
<1>. QED
    BY <1>1, <1>2, <1>3, <1>4, <1>5, <1>6, <1>7
    DEF Continue, PatchScore, Score, Find, SaveApproval, DecideSave, ConvertCreate, ConfigFind,
        ConfigApproval, store

(* A tab goes on holding what it loaded until it sends it.                 *)
LEMMA TabsStay ==
    ASSUME SettledInv, TabsAreOlder, RequestsInv', Bumps, NEW r \in Requests, NEW h, Goto(r, h),
           h.at = "tab" => h.q \in Quotations /\ h.held = quotation[h.q] /\ h.held \in Quote
    PROVE  TabsAreOlder'
<1>1. request'[r] = h /\ \A p \in Requests : p # r => request'[p] = request[p]
    BY DEF Goto, SettledInv, RequestsInv
<1>2. \A q \in Quotations : quotation[q] # None => quotation[q] \in Quote
    BY StoredTypes
<1>3. ASSUME NEW p \in Requests, request'[p].at = "tab"
      PROVE  /\ request'[p].q \in Quotations /\ quotation[request'[p].q] \in Quote
             /\ request'[p].held \in Quote
             /\ request'[p].held.version <= quotation[request'[p].q].version
             /\ request'[p].held.version = quotation[request'[p].q].version =>
                   request'[p].held = quotation[request'[p].q]
    <2>1. CASE p = r
        BY <1>1, <1>3, <2>1 DEF Quote
    <2>2. CASE p # r
        <3>1. request'[p] = request[p]
            BY <1>1, <2>2
        <3>2. At(p, "tab")
            BY <1>3, <3>1 DEF At
        <3>3. request[p].q \in Quotations /\ quotation[request[p].q] # None
            BY <3>2, InvGives DEF SettledInv, Stands, At
        <3>. QED
            BY <1>2, <3>1, <3>2, <3>3 DEF TabsAreOlder
    <2>. QED
        BY <2>1, <2>2
<1>4. ASSUME NEW q \in Quotations, quotation[q] \in Quote, NEW held \in Quote,
             held.version <= quotation[q].version,
             held.version = quotation[q].version => held = quotation[q]
      PROVE  /\ held.version <= quotation'[q].version
             /\ held.version = quotation'[q].version => held = quotation'[q]
    <2>1. /\ held.version \in Nat /\ quotation[q].version \in Nat
          /\ quotation[q] # None
        <3>1. \A quote \in Quote : quote.version \in Nat /\ quote # None
            BY NoneIsNoDocument DEF Quote
        <3>. QED
            BY <1>4, <3>1
    <2>2. quotation'[q] = quotation[q] \/ quotation'[q].version = quotation[q].version + 1
        BY <2>1 DEF Bumps
    <2>. QED
        BY <1>4, <2>1, <2>2
<1>. QED
    BY <1>3, <1>4 DEF TabsAreOlder, At

(* Nothing but Load makes a tab.                                           *)
Leaves(r) == \E h : Goto(r, h) /\ h.at # "tab"

LEMMA IdleLeaves == ASSUME NEW r, Finish(r) PROVE Leaves(r)
<1>1. Goto(r, Idle) /\ Idle.at # "tab"
    BY DEF Finish, Idle
<1>. QED
    BY <1>1 DEF Leaves

LEMMA StartLeaves == ASSUME NEW r, Start(r) PROVE Leaves(r)
<1>1. ASSUME NEW q, CreateScore(r, q) PROVE Leaves(r)
    BY <1>1 DEF CreateScore, Leaves
<1>2. ASSUME NEW q, SubmitRead(r, q) PROVE Leaves(r)
    BY <1>2 DEF SubmitRead, Leaves
<1>3. ASSUME NEW q, ConvertRead(r, q) PROVE Leaves(r)
    BY <1>3 DEF ConvertRead, Leaves
<1>4. ASSUME NEW q, NEW t, CounterRead(r, q, t) PROVE Leaves(r)
    BY <1>4 DEF CounterRead, Leaves
<1>5. ASSUME NEW a, NEW role, NEW verb, DecideRead(r, a, role, verb) PROVE Leaves(r)
    BY <1>5 DEF DecideRead, Leaves
<1>6. ASSUME NEW c, ConfigSave(r, c) PROVE Leaves(r)
    BY <1>6 DEF ConfigSave, Leaves
<1>7. CASE PatchRead(r)
    <2>. DEFINE g == request[r]
                scoring(t) == [at |-> "patch.score", q |-> g.q, held |-> g.held,
                               snap |-> quotation[g.q], terms |-> t]
                saving == [at |-> "patch.save", q |-> g.q, held |-> g.held,
                           snap |-> quotation[g.q], new |-> Bumped(quotation[g.q]), assigned |-> {}]
    <2>1. Finish(r) \/ Goto(r, saving) \/ \E t \in AllTerms : Goto(r, scoring(t))
        BY <1>7 DEF PatchRead
    <2>2. saving.at # "tab" /\ \A t : scoring(t).at # "tab"
        OBVIOUS
    <2>. QED
        BY <2>1, <2>2, IdleLeaves DEF Leaves
<1>. QED
    BY <1>1, <1>2, <1>3, <1>4, <1>5, <1>6, <1>7 DEF Start

LEMMA ContinueLeaves == ASSUME NEW r, Continue(r) PROVE Leaves(r)
<1>1. ASSUME NEW c, NEW todo, ConfigNext(r, c, todo) PROVE Leaves(r)
    BY <1>1, IdleLeaves DEF ConfigNext, Leaves
<1>2. CASE CreateInsert(r) \/ PatchSave(r) \/ SaveQuote(r) \/ DecideQuote(r) \/ ConvertSave(r)
    BY <1>2, IdleLeaves DEF CreateInsert, PatchSave, SaveQuote, DecideQuote, ConvertSave
<1>3. CASE PatchScore(r)
    BY <1>3 DEF PatchScore, Leaves
<1>4. CASE Score(r)
    BY <1>4 DEF Score, Leaves
<1>5. CASE Find(r)
    BY <1>5 DEF Find, Leaves
<1>6. CASE SaveApproval(r)
    <2>1. \E new : Goto(r, [at |-> "saveQuote", q |-> request[r].q, snap |-> request[r].snap, new |-> new])
        BY <1>6 DEF SaveApproval
    <2>. QED
        BY <2>1 DEF Leaves
<1>7. CASE DecideSave(r)
    BY <1>7, IdleLeaves DEF DecideSave, Leaves
<1>8. ASSUME NEW o, ConvertCreate(r, o) PROVE Leaves(r)
    BY <1>8 DEF ConvertCreate, Leaves
<1>9. CASE ConfigFind(r) \/ ConfigQuote(r)
    BY <1>1, <1>9 DEF ConfigFind, ConfigQuote
<1>10. ASSUME NEW q, ConfigApproval(r, q) PROVE Leaves(r)
    <2>1. Goto(r, [at |-> "config.quote", cfg |-> request[r].cfg, todo |-> request[r].todo, q |-> q])
        BY <1>10 DEF ConfigApproval
    <2>. QED
        BY <2>1 DEF Leaves
<1>. QED
    BY <1>2, <1>3, <1>4, <1>5, <1>6, <1>7, <1>8, <1>9, <1>10 DEF Continue

LEMMA TabsStayOlder ==
    ASSUME SettledInv, TabsAreOlder, SettledNext, Failures = FALSE
    PROVE  TabsAreOlder'
<1>1. PICK r \in Requests : Start(r) \/ Continue(r) \/ Tab(r)
    BY DEF SettledNext, Next, Fail
<1>2. RequestsInv'
    BY NextKeeps DEF SettledInv, SettledNext
<1>3. CASE Continue(r)
    BY <1>2, <1>3, ContinueBumps, ContinueLeaves, TabsStay DEF Leaves
<1>4. CASE Start(r)
    <2>1. quotation' = quotation
        BY <1>4
        DEF Start, CreateScore, SubmitRead, CounterRead, ConvertRead, DecideRead, ConfigSave,
            PatchRead, store
    <2>. QED
        BY <1>2, <1>4, <2>1, StartLeaves, TabsStay DEF Bumps, Leaves
<1>5. CASE Tab(r)
    <2>1. quotation' = quotation
        BY <1>5 DEF Tab, Load, CloseTab, store
    <2>2. ASSUME NEW q \in Quotations, Load(r, q) PROVE TabsAreOlder'
        <3>. DEFINE h == [at |-> "tab", q |-> q, held |-> quotation[q]]
        <3>1. Goto(r, h) /\ h.q = q /\ h.held = quotation[q] /\ quotation[q] \in Quote
            BY <2>2, StoredTypes DEF Load, Exists
        <3>. HIDE DEF h
        <3>. QED
            BY <1>2, <2>1, <3>1, TabsStay DEF Bumps
    <2>3. CASE CloseTab(r)
        <3>1. Goto(r, Idle) /\ Idle.at # "tab"
            BY <2>3 DEF CloseTab, Finish, Idle
        <3>. QED
            BY <1>2, <2>1, <3>1, TabsStay DEF Bumps
    <2>. QED
        BY <1>5, <2>2, <2>3 DEF Tab
<1>. QED
    BY <1>1, <1>3, <1>4, <1>5

---------------------------------------------------------------------------
(* The theorems.                                                           *)

LEMMA SettledInitially ==
    ASSUME SettledInit
    PROVE  SettledInv /\ TabsAreOlder /\ Serial!Init
<1>1. RequestsInv
    BY InitRequestsInv DEF SettledInit
<1>2. Busy = {} /\ TabsAreOlder
    BY DEF SettledInit, Init, Idle, Busy, TabsAreOlder, At
<1>3. /\ settled.quotation = quotation /\ settled.approval = approval
      /\ settled.order = order /\ settled.config = config
    BY DEF SettledInit, Collections
<1>4. SettledTyped
    BY <1>1, <1>3 DEF SettledTyped, RequestsInv, Stored
<1>5. SettledInv
    BY <1>1, <1>2, <1>4 DEF SettledInv, SettledInit
<1>6. Serial!Init
    BY <1>3 DEF Serial!Init, SettledInit, Init
<1>. QED
    BY <1>2, <1>5, <1>6

LEMMA SettledStutters ==
    ASSUME SettledInv, TabsAreOlder, UNCHANGED <<vars, settled, steady>>
    PROVE  SettledInv' /\ TabsAreOlder' /\ settled' = settled
<1>1. /\ quotation' = quotation /\ approval' = approval /\ order' = order /\ config' = config
      /\ request' = request /\ settled' = settled
    BY DEF vars
<1>2. RequestsInv'
    BY StepKeeps DEF SettledInv, vars
<1>3. Busy' = Busy
    BY <1>1 DEF Busy
<1>4. SettledInv'
    BY <1>1, <1>2, <1>3 DEF SettledInv, SettledTyped, Collections
<1>5. TabsAreOlder'
    BY <1>1 DEF TabsAreOlder, At
<1>. QED
    BY <1>1, <1>4, <1>5

LEMMA SettledStep ==
    ASSUME SettledInv, TabsAreOlder, [SettledNext]_<<vars, settled, steady>>,
           Concurrency = 1, Failures = FALSE
    PROVE  SettledInv' /\ TabsAreOlder' /\ [Serial!Next]_(Serial!vars)
<1>1. CASE SettledNext
    <2>1. Seen /\ TabsAreOlder'
        BY <1>1, NextSeen, TabsStayOlder
    <2>. QED
        BY <2>1 DEF Seen, Serial!vars
<1>2. CASE UNCHANGED <<vars, settled, steady>>
    BY <1>2, SettledStutters DEF Serial!vars
<1>. QED
    BY <1>1, <1>2

(* SettledInv - how far the handler that is under way has come with the    *)
(* one step of Deal that it takes - and TabsAreOlder are inductive when    *)
(* handlers neither overlap nor die.                                       *)
THEOREM SettledInvariant ==
    ASSUME Concurrency = 1, Failures = FALSE
    PROVE  SettledSpec => [](SettledInv /\ TabsAreOlder)
BY SettledInitially, SettledStep, PTL DEF SettledSpec

(* The three to five accesses of each handler, seen only between handlers, *)
(* are the one step that Deal takes for it: whatever is proved of Deal     *)
(* holds of the database whenever no request is being answered.            *)
THEOREM OneAtATimeIsDeal ==
    ASSUME Concurrency = 1, Failures = FALSE
    PROVE  SettledSpec => ImplementsDeal
BY SettledInitially, SettledStep, PTL DEF SettledSpec, ImplementsDeal, Serial!Spec

(* DECISIONS.md:156: one request at a time, an edit that is saved replaces *)
(* exactly the quotation its author was looking at, however many tabs hold *)
(* a copy and however old those are.                                       *)
THEOREM NoEditIsLost ==
    ASSUME Concurrency = 1, Failures = FALSE
    PROVE  SettledSpec => EditReplacesWhatWasSeen
<1>1. ASSUME SettledInv, NEW r \in Requests, PatchSave(r)
      PROVE  quotation[request[r].q] = request[r].held
    BY <1>1, UnderWay DEF PatchSave, At, Progress
<1>2. SettledInv =>
          [\A r \in Requests : PatchSave(r) => quotation[request[r].q] = request[r].held]_vars
    BY <1>1
<1>. QED
    BY <1>2, SettledInvariant, PTL DEF EditReplacesWhatWasSeen
---------------------------------------------------------------------------
(* What is proved of Deal is true of the settled collections.  DealProofs  *)
(* is instantiated for them, and its Deal is the one they implement.       *)
Facts == INSTANCE DealProofs WITH
    quotation <- settled.quotation, approval <- settled.approval,
    order <- settled.order, config <- settled.config

LEMMA FactsAssume ==
    /\ None \notin Facts!Quote \cup Facts!Approval \cup Facts!Order
    /\ NoLines \notin Terms
    /\ None \notin Roles
    /\ None \notin Quotations \cup Approvals \cup Orders \cup Configs
    /\ Assess \in [Configs -> [Facts!AllTerms -> Facts!Risk]]
<1>1. Facts!AllTerms = AllTerms /\ Facts!Risk = Risk /\ Facts!Step = Step /\ Facts!Stage = Stage
    BY DEF Facts!AllTerms, AllTerms, Facts!Risk, Risk, Facts!RiskLevel, RiskLevel, Facts!Step, Step,
           Facts!StepStatus, StepStatus, Facts!Stage, Stage
<1>2. Facts!Quote = Quote /\ Facts!Approval = Approval /\ Facts!Order = Order
    BY <1>1 DEF Facts!Quote, Quote, Facts!Approval, Approval, Facts!ApprovalStatus, ApprovalStatus,
                Facts!Order, Order
<1>. QED
    BY <1>1, <1>2, NoneIsNoDocument, NoneIsNoId, NoneIsNoRole, NoLinesIsNoTerms, AssessType

LEMMA SameQuotationActions ==
    ASSUME NEW q
    PROVE  /\ Serial!Create(q) => Facts!Create(q)
           /\ Serial!PatchNotes(q) => Facts!PatchNotes(q)
           /\ \A t : Serial!PatchLines(q, t) => Facts!PatchLines(q, t)
           /\ \A o : Serial!Convert(q, o) => Facts!Convert(q, o)
<1>1. Serial!Create(q) => Facts!Create(q)
    BY DEF Serial!Create, Facts!Create, Serial!Exists, Facts!Exists, Serial!NewQuote, Facts!NewQuote
<1>2. Serial!PatchNotes(q) => Facts!PatchNotes(q)
    BY DEF Serial!PatchNotes, Facts!PatchNotes, Serial!MayWrite, Facts!MayWrite,
           Serial!Exists, Facts!Exists, Serial!Bumped, Facts!Bumped
<1>3. ASSUME NEW t  PROVE  Serial!PatchLines(q, t) => Facts!PatchLines(q, t)
    BY DEF Serial!PatchLines, Facts!PatchLines, Serial!MayWrite, Facts!MayWrite,
           Serial!Exists, Facts!Exists, Serial!Edited, Facts!Edited
<1>4. ASSUME NEW o  PROVE  Serial!Convert(q, o) => Facts!Convert(q, o)
    BY DEF Serial!Convert, Facts!Convert, Serial!MayWrite, Facts!MayWrite, Serial!Exists, Facts!Exists,
           Serial!ConvertibleStages, Facts!ConvertibleStages, Serial!Confirmed, Facts!Confirmed
<1>. QED
    BY <1>1, <1>2, <1>3, <1>4

LEMMA SameReviewActions ==
    ASSUME NEW q
    PROVE  /\ \A a : Serial!Submit(q, a) => Facts!Submit(q, a)
           /\ \A t : Serial!CounterWithin(q, t) => Facts!CounterWithin(q, t)
           /\ \A t, a : Serial!CounterOver(q, t, a) => Facts!CounterOver(q, t, a)
<1>1. ASSUME NEW a  PROVE  Serial!Submit(q, a) <=> Facts!Submit(q, a)
    BY DEF Serial!Submit, Facts!Submit, Serial!MayWrite, Facts!MayWrite, Serial!Exists, Facts!Exists,
           Serial!IsResubmit, Facts!IsResubmit, Serial!NewApproval, Facts!NewApproval,
           Serial!SubmittedApproval, Facts!SubmittedApproval, Serial!IsAutoApproved, Facts!IsAutoApproved,
           Serial!OpenSteps, Facts!OpenSteps, Serial!Submitted, Facts!Submitted
<1>2. ASSUME NEW t  PROVE  Serial!CounterWithin(q, t) => Facts!CounterWithin(q, t)
    BY DEF Serial!CounterWithin, Facts!CounterWithin, Serial!CounterAllowed, Facts!CounterAllowed,
           Serial!MayWrite, Facts!MayWrite, Serial!Exists, Facts!Exists,
           Serial!ClosedToCustomer, Facts!ClosedToCustomer, Serial!Counters, Facts!Counters,
           Serial!IsAutoApproved, Facts!IsAutoApproved, Serial!Countered, Facts!Countered
<1>3. ASSUME NEW t, NEW a  PROVE  Serial!CounterOver(q, t, a) => Facts!CounterOver(q, t, a)
    BY DEF Serial!CounterOver, Facts!CounterOver, Serial!CounterAllowed, Facts!CounterAllowed,
           Serial!MayWrite, Facts!MayWrite, Serial!Exists, Facts!Exists,
           Serial!ClosedToCustomer, Facts!ClosedToCustomer, Serial!Counters, Facts!Counters,
           Serial!IsAutoApproved, Facts!IsAutoApproved, Serial!Countered, Facts!Countered,
           Serial!NewApproval, Facts!NewApproval, Serial!ReopenedApproval, Facts!ReopenedApproval,
           Serial!OpenSteps, Facts!OpenSteps
<1>. QED
    BY <1>1, <1>2, <1>3

LEMMA SameDecisions ==
    ASSUME NEW a, NEW role
    PROVE  /\ Serial!Approve(a, role) => Facts!Approve(a, role)
           /\ Serial!Return(a, role) => Facts!Return(a, role)
           /\ Serial!Reject(a, role) => Facts!Reject(a, role)
<1>1. Serial!Approve(a, role) => Facts!Approve(a, role)
    BY DEF Serial!Approve, Facts!Approve, Serial!Decidable, Facts!Decidable, Serial!MayDecide, Facts!MayDecide,
           Serial!ApprovedStep, Facts!ApprovedStep, Serial!IsLastStep, Facts!IsLastStep,
           Serial!WithStatus, Facts!WithStatus, Serial!MayWrite, Facts!MayWrite,
           Serial!Exists, Facts!Exists, Serial!Decided, Facts!Decided
<1>2. Serial!Return(a, role) => Facts!Return(a, role)
    BY DEF Serial!Return, Facts!Return, Serial!Decidable, Facts!Decidable, Serial!MayDecide, Facts!MayDecide,
           Serial!ReturnedStep, Facts!ReturnedStep, Serial!WithStatus, Facts!WithStatus,
           Serial!MayWrite, Facts!MayWrite, Serial!Exists, Facts!Exists, Serial!Decided, Facts!Decided
<1>3. Serial!Reject(a, role) => Facts!Reject(a, role)
    BY DEF Serial!Reject, Facts!Reject, Serial!Decidable, Facts!Decidable, Serial!MayDecide, Facts!MayDecide,
           Serial!RejectedStep, Facts!RejectedStep, Serial!StatusAfterReject, Facts!StatusAfterReject,
           Serial!MayWrite, Facts!MayWrite, Serial!Exists, Facts!Exists, Serial!Decided, Facts!Decided
<1>. QED
    BY <1>1, <1>2, <1>3

LEMMA SameConfigAction ==
    ASSUME NEW c
    PROVE  Serial!SaveConfig(c) <=> Facts!SaveConfig(c)
BY DEF Serial!SaveConfig, Facts!SaveConfig, Serial!Moved, Facts!Moved, Serial!Exists, Facts!Exists,
       Serial!OpenStages, Facts!OpenStages, Serial!ScoreMoved, Facts!ScoreMoved,
       Serial!MayRescore, Facts!MayRescore, Serial!Reconfigured, Facts!Reconfigured,
       Serial!Waived, Facts!Waived, Serial!IsAutoApproved, Facts!IsAutoApproved,
       Serial!Matches, Facts!Matches, Serial!PendingOf, Facts!PendingOf,
       Serial!WaivedApproval, Facts!WaivedApproval, Serial!RescoredApproval, Facts!RescoredApproval

LEMMA SameDeal ==
    /\ Serial!Init => Facts!Init
    /\ [Serial!Next]_(Serial!vars) => [Facts!Next]_(Facts!vars)
<1>1. Serial!Init => Facts!Init
    BY DEF Serial!Init, Facts!Init
<1>2. Serial!vars = Facts!vars /\ Serial!AllTerms = Facts!AllTerms
      /\ Serial!DecisionRoles = Facts!DecisionRoles
    BY DEF Serial!vars, Facts!vars, Serial!AllTerms, Facts!AllTerms, Serial!DecisionRoles, Facts!DecisionRoles
<1>3. Serial!vars' = Facts!vars'
    BY DEF Serial!vars, Facts!vars
<1>4. Serial!Next => Facts!Next
    BY <1>2, SameQuotationActions, SameReviewActions, SameDecisions, SameConfigAction
       DEF Serial!Next, Facts!Next
<1>. QED
    BY <1>1, <1>2, <1>3, <1>4

(* Deal's invariants of the settled collections, the last of them for as   *)
(* long as no other configuration was saved.                               *)
DealHolds ==
    /\ Facts!DealInv
    /\ Facts!PendingStepsInOrder
    /\ steady => settled.config = config /\ Facts!ReviewInv

LEMMA DealHoldsInitially ==
    ASSUME SettledInit
    PROVE  DealHolds
<1>1. Facts!Init
    BY SettledInitially, SameDeal
<1>2. Facts!DealInv
    BY <1>1, FactsAssume, Facts!InitInv
<1>3. Facts!PendingStepsInOrder /\ Facts!ReviewInv
    BY <1>1 DEF Facts!Init, Facts!PendingStepsInOrder, Facts!ReviewInv, Facts!Exists
<1>4. settled.config = config
    BY DEF SettledInit, Collections
<1>. QED
    BY <1>2, <1>3, <1>4 DEF DealHolds

LEMMA DealStaysHolding ==
    ASSUME SettledInv, TabsAreOlder, DealHolds, [SettledNext]_<<vars, settled, steady>>,
           Concurrency = 1, Failures = FALSE
    PROVE  DealHolds'
<1>1. [Facts!Next]_(Facts!vars)
    BY SettledStep, SameDeal
<1>2. Facts!DealInv'
    BY <1>1, FactsAssume, Facts!StepKeepsInv DEF DealHolds
<1>3. Facts!PendingStepsInOrder'
    BY <1>1, FactsAssume, Facts!StepKeepsOrder DEF DealHolds
<1>4. ASSUME steady'
      PROVE  settled'.config = config' /\ Facts!ReviewInv'
    <2>1. steady /\ config' = config
        BY <1>4 DEF SettledNext, vars
    <2>0. settled.config = config
        BY <2>1 DEF DealHolds
    <2>2. settled'.config = config' /\ settled'.config = settled.config
        <3>1. settled' = settled \/ settled' = Collections'
            BY DEF SettledNext
        <3>. QED
            BY <2>0, <2>1, <3>1 DEF Collections
    <2>3. Facts!ReviewInv'
        BY <1>1, <2>1, <2>2, FactsAssume, Facts!StepKeepsReview DEF DealHolds
    <2>. QED
        BY <2>2, <2>3
<1>. QED
    BY <1>2, <1>3, <1>4 DEF DealHolds

(* What Deal says of a quotation that waits or may be converted.           *)
LEMMA ReviewOfSettled ==
    ASSUME SettledInv, DealHolds
    PROVE  ReviewIsReal
<1>. SUFFICES ASSUME Busy = {}
              PROVE  ReviewIsReal
    BY DEF ReviewIsReal, AdminMayActOnPending, ApprovedMeansSignedOff
<1>1. settled.quotation = quotation /\ settled.approval = approval
    BY DEF SettledInv, Collections
<1>2. ASSUME NEW q \in Quotations, Exists(q), quotation[q].stage = "PENDING_APPROVAL"
      PROVE  /\ quotation[q].approval # None
             /\ MayDecide(approval[quotation[q].approval], "ADMIN")
             /\ Valid(approval[quotation[q].approval])
    <2>. PICK doc : doc = approval[quotation[q].approval]
        OBVIOUS
    <2>0. Facts!Exists(q)
        BY <1>1, <1>2 DEF Facts!Exists, Exists
    <2>1. quotation[q].approval # None /\ Facts!MayDecide(doc, "ADMIN")
        BY <1>1, <1>2, <2>0, FactsAssume, Facts!WaitingIsDecidable DEF DealHolds
    <2>2. doc \in Facts!Approval
        BY <1>1, <2>0, <2>1, FactsAssume, Facts!InvOf DEF DealHolds
    <2>3. \A i \in DOMAIN doc.steps : doc.steps[i].role \in Roles
        <3>1. doc.steps \in Seq(Facts!Step)
            BY <2>2 DEF Facts!Approval
        <3>2. \A i \in DOMAIN doc.steps : doc.steps[i] \in Facts!Step
            BY <3>1
        <3>. QED
            BY <3>2 DEF Facts!Step
    <2>. QED
        BY <2>1, <2>3, NoneIsNoRole DEF MayDecide, Facts!MayDecide, Valid
<1>3. ASSUME steady, NEW q \in Quotations, Exists(q), quotation[q].stage \in ConvertibleStages,
             ~IsAutoApproved(quotation[q].risk), NEW i \in DOMAIN quotation[q].risk.chain
      PROVE  LET steps == approval[quotation[q].approval].steps
             IN  /\ i \in DOMAIN steps
                 /\ steps[i] = [role |-> quotation[q].risk.chain[i], status |-> "APPROVED"]
    <2>1. /\ Facts!Exists(q) /\ quotation[q].stage \in Facts!ConvertibleStages
          /\ ~Facts!IsAutoApproved(quotation[q].risk)
        BY <1>1, <1>3 DEF Facts!Exists, Exists, Facts!ConvertibleStages, ConvertibleStages,
                          Facts!IsAutoApproved, IsAutoApproved
    <2>. QED
        BY <1>1, <1>3, <2>1, FactsAssume, Facts!ConvertibleIsSigned DEF DealHolds
<1>. QED
    BY <1>2, <1>3 DEF ReviewIsReal, AdminMayActOnPending, ApprovedMeansSignedOff

(* USER_FLOWS.md:1104 and approvals.routes.ts:141: one request at a time,  *)
(* a quotation that waits can be decided and saved by an administrator,    *)
(* and as long as the configuration stays what it is, what a customer may  *)
(* confirm has an approved step for each role that its terms need.         *)
THEOREM ReviewsAreReal ==
    ASSUME Concurrency = 1, Failures = FALSE
    PROVE  SettledSpec => []ReviewIsReal
<1>1. SettledInit => DealHolds
    BY DealHoldsInitially
<1>2. SettledInv /\ TabsAreOlder /\ DealHolds /\ [SettledNext]_<<vars, settled, steady>> => DealHolds'
    BY DealStaysHolding
<1>3. SettledInv /\ DealHolds => ReviewIsReal
    BY ReviewOfSettled
<1>. QED
    BY <1>1, <1>2, <1>3, SettledInvariant, PTL DEF SettledSpec
=============================================================================
