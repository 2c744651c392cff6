---------------------------- MODULE Negotiation ----------------------------
(***************************************************************************)
(* The customer's page of a quotation: what they type beside its lines,    *)
(* send as one request or answer with a confirmation, while colleagues     *)
(* send theirs, the sales team edits the lines, live frames reload the     *)
(* page and the switcher takes it to another quotation.  The requests and  *)
(* the answers of the page are steps of their own; a handler is one step   *)
(* (DealRequests has their overlaps).                                      *)
(***************************************************************************)
EXTENDS Naturals, Sequences, FiniteSets, SequencesExt, FiniteSetsExt, Functions

CONSTANTS
    Quotations, \* the company's quotations
    Moving,     \* those that are open; the others were rejected
    Products,   \* what a line can be of
    None,
    Asks,       \* texts that come with a counter discount, a set of numbers
    MaxTexts,   \* bound on the texts typed by anyone
    MaxMoves,   \* bound on the steps of others
    MaxEvents,  \* bound on the events of a quotation that more requests follow
    MaxLoads    \* bound on the loads under way

VARIABLES
    quote,   \* [Quotations -> the quotation and its negotiation events]
    route,   \* the quotation in the address of the page
    shown,   \* PortalStore.data, None before the first answer
    failed,  \* PortalStore.error is set
    loading, \* PortalStore.loading
    loads,   \* the GET requests under way
    drafts,  \* the page's comments and counters, by line id
    note,    \* the note for the account manager, None if empty
    request, \* the write under way and how far it is; None
    texts,   \* texts typed so far
    moves,   \* steps of others so far
    lost     \* has an answer to a write been lost?

negotiationVars ==
    <<quote, route, shown, failed, loading, loads, drafts, note, request, texts, moves, lost>>

---------------------------------------------------------------------------
(* The quotation.                                                          *)

(* A line id carries the number of its quotation.                          *)
Id(q, n) == <<q, n>>
LineIds(q) == {quote[q].lines[i].id : i \in DOMAIN quote[q].lines}

(* What is kept of a line, of what is typed beside lines and of a request. *)
Ids == Quotations \X (1 .. MaxMoves + 2)
Texts == 1 .. MaxTexts
LineDocs == [id : Ids, product : Products, terms : Asks \cup {0}]
Typed == UNION {[D -> Texts] : D \in SUBSET Ids}
Requests ==
    [kind : {"counter", "confirm"}, to : Quotations, lines : Typed, note : Texts \cup {None},
     seen : Seq(LineDocs) \cup {None}, step : {"sent", "handled", "loading", "listing"}]

NegotiationInit ==
    /\ \E product \in Products :
          quote = [q \in Quotations |->
                    [stage |-> IF q \in Moving THEN "APPROVED" ELSE "REJECTED", events |-> <<>>, order |-> None,
                     lines |-> [n \in 1 .. 2 |-> [id |-> Id(q, n), product |-> product, terms |-> 0]]]]
    /\ route = None /\ shown = None /\ failed = FALSE /\ loading = FALSE /\ loads = {}
    /\ drafts = <<>> /\ note = None /\ request = None
    /\ texts = 0 /\ moves = 0 /\ lost = FALSE

(* nextLineNumber: one above the highest of the lines there are.  Fault:   *)
(* it counts them.                                                         *)
NextLineNumber_Count(q) == Len(quote[q].lines) + 1
NextLineNumber(q) == Max({0} \cup {id[2] : id \in LineIds(q)}) + 1

(* The lines that have these ids, in their order.                          *)
WithIds(lines, ids) ==
    LET upTo[i \in 0 .. Len(lines)] ==
          IF i = 0 THEN <<>>
          ELSE upTo[i - 1] \o (IF lines[i].id \in ids THEN <<lines[i]>> ELSE <<>>)
    IN  upTo[Len(lines)]

(* PATCH of a draft: the builder sends the lines it kept, by their ids,    *)
(* and new ones without.                                                   *)
Edit(q) ==
    /\ quote[q].stage = "DRAFT"
    /\ moves < MaxMoves
    /\ moves' = moves + 1
    /\ \E kept \in SUBSET LineIds(q), added \in UNION {[1 .. k -> Products] : k \in 0 .. 1} :
          quote' = [quote EXCEPT ![q].lines =
                WithIds(@, kept)
                    \o [k \in DOMAIN added |->
                          [id |-> Id(q, NextLineNumber(q) + k - 1), product |-> added[k], terms |-> 0]]]
    /\ UNCHANGED <<route, shown, failed, loading, loads, drafts, note, request, texts, lost>>

(* The stages that a submit and the decisions lead to; a return opens the  *)
(* quotation for edits again.  Nothing without lines is submitted.         *)
StageMoves ==
    {<<"DRAFT", "PENDING_APPROVAL">>, <<"DRAFT", "APPROVED">>, <<"PENDING_APPROVAL", "APPROVED">>,
     <<"PENDING_APPROVAL", "DRAFT">>, <<"PENDING_APPROVAL", "REJECTED">>}
Review(q) ==
    /\ moves < MaxMoves
    /\ moves' = moves + 1
    /\ \E move \in StageMoves :
          /\ quote[q].stage = move[1]
          /\ move[1] = "DRAFT" => quote[q].lines # <<>>
          /\ quote' = [quote EXCEPT ![q].stage = move[2]]
    /\ UNCHANGED <<route, shown, failed, loading, loads, drafts, note, request, texts, lost>>

(* A line with its proposal, if that names a discount.                     *)
Proposed(line, lines) ==
    IF line.id \in DOMAIN lines /\ lines[line.id] \in Asks
    THEN [line EXCEPT !.terms = lines[line.id]]
    ELSE line

(* POST counter: the proposals of lines that exist change them and become  *)
(* events, the others are passed over; the note becomes an event; scored   *)
(* too high it goes back to review.                                        *)
Countered(quotation, lines, noteSent, over) ==
    LET hit == WithIds(quotation.lines, DOMAIN lines)
        said == [k \in DOMAIN hit |->
                    [line |-> hit[k].id, text |-> lines[hit[k].id], about |-> hit[k].product]]
        remark == IF noteSent = None THEN <<>>
                  ELSE <<[line |-> None, text |-> noteSent, about |-> None]>>
    IN  [stage |-> IF over THEN "PENDING_APPROVAL" ELSE "NEGOTIATION", order |-> quotation.order,
         lines |-> [i \in DOMAIN quotation.lines |-> Proposed(quotation.lines[i], lines)],
         events |-> quotation.events \o said \o remark]

OpenToCounter(q) == quote[q].stage \notin {"DRAFT", "CONFIRMED", "REJECTED"}

(* A colleague of the customer counters a line.                            *)
ColleagueCounters(q) ==
    /\ OpenToCounter(q)
    /\ texts < MaxTexts /\ moves < MaxMoves
    /\ texts' = texts + 1 /\ moves' = moves + 1
    /\ \E id \in LineIds(q), over \in BOOLEAN :
          quote' = [quote EXCEPT ![q] = Countered(@, [i \in {id} |-> texts + 1], None, over)]
    /\ UNCHANGED <<route, shown, failed, loading, loads, drafts, note, request, lost>>

---------------------------------------------------------------------------
(* The page.                                                               *)

(* load(): "Loading" covers the page until some load ends.                 *)
StartLoad(q, then) ==
    /\ Cardinality(loads) < MaxLoads
    /\ loads' = loads \cup {[of |-> q, then |-> then, at |-> "asked", got |-> None]}
    /\ loading' = TRUE
    /\ failed' = FALSE

(* ngOnInit and ngOnChanges: a quotation is opened, drafts start over.     *)
Open(q) ==
    /\ route # q
    /\ route' = q
    /\ drafts' = <<>>
    /\ note' = None
    /\ StartLoad(q, "nothing")
    /\ UNCHANGED <<quote, shown, request, texts, moves, lost>>

(* A live frame about the quotation shown reloads it; drafts stay.         *)
LiveReload ==
    /\ shown # None
    /\ StartLoad(shown.of, "nothing")
    /\ UNCHANGED <<quote, route, shown, drafts, note, request, texts, moves, lost>>

(* GET /q/:number; a draft is not the customer's to see, and any request   *)
(* may fail.                                                               *)
LoadAnswered(load) ==
    /\ load.at = "asked"
    /\ LET q == load.of
           answer == [of |-> q, stage |-> quote[q].stage,
                      lines |-> quote[q].lines, events |-> quote[q].events]
       IN  \/ loads' = (loads \ {load})
                         \cup {[of |-> q, then |-> load.then, at |-> "failed", got |-> None]}
           \/ /\ quote[q].stage # "DRAFT"
              /\ loads' = (loads \ {load})
                            \cup {[of |-> q, then |-> load.then, at |-> "read", got |-> answer]}
    /\ UNCHANGED <<quote, route, shown, failed, loading, drafts, note, request, texts, moves, lost>>

(* The answer of a load arrives.  The one that a write waits for lets it   *)
(* go on to the list.                                                      *)
LoadDone(load) ==
    /\ load.at # "asked"
    /\ loads' = loads \ {load}
    /\ loading' = FALSE
    /\ IF load.at = "failed"
       THEN failed' = TRUE /\ UNCHANGED shown
       ELSE shown' = load.got /\ UNCHANGED failed
    /\ request' = IF load.then = "write" THEN [request EXCEPT !.step = "listing"] ELSE request
    /\ UNCHANGED <<quote, route, drafts, note, texts, moves, lost>>

(* What the template shows: the quotation with its boxes, or "Loading" or  *)
(* the error in its place.                                                 *)
FormShown == shown # None /\ ~loading /\ ~failed

LinesShown == {shown.lines[i].id : i \in DOMAIN shown.lines}

(* A box beside a line, and the note.                                      *)
Type(id) ==
    /\ FormShown
    /\ id \in LinesShown
    /\ texts < MaxTexts
    /\ texts' = texts + 1
    /\ drafts' = [i \in DOMAIN drafts \cup {id} |-> IF i = id THEN texts + 1 ELSE drafts[i]]
    /\ UNCHANGED <<quote, route, shown, failed, loading, loads, note, request, moves, lost>>

TypeNote ==
    /\ FormShown
    /\ texts < MaxTexts
    /\ texts' = texts + 1
    /\ note' = texts + 1
    /\ UNCHANGED <<quote, route, shown, failed, loading, loads, drafts, request, moves, lost>>

HasAnyDraft == DOMAIN drafts # {} \/ note # None

(* submitRequest, up to the POST: the drafts of every id go to the         *)
(* quotation shown.  Fault: the button is not disabled meanwhile.          *)
MaySend_Busy == FormShown /\ HasAnyDraft
MaySend == FormShown /\ HasAnyDraft /\ request = None

Send ==
    /\ MaySend
    /\ Len(quote[shown.of].events) < MaxEvents
    /\ request' = [kind |-> "counter", to |-> shown.of, lines |-> drafts, note |-> note,
                   seen |-> None, step |-> "sent"]
    /\ UNCHANGED <<quote, route, shown, failed, loading, loads, drafts, note, texts, moves, lost>>

(* confirm(), offered in the stages that allow it.                         *)
Confirm ==
    /\ FormShown
    /\ request = None
    /\ shown.stage \in {"APPROVED", "NEGOTIATION"}
    /\ request' = [kind |-> "confirm", to |-> shown.of, lines |-> <<>>, note |-> None,
                   seen |-> shown.lines, step |-> "sent"]
    /\ UNCHANGED <<quote, route, shown, failed, loading, loads, drafts, note, texts, moves, lost>>

---------------------------------------------------------------------------
(* The handlers and their answers.                                         *)

CounterHandled ==
    /\ request # None /\ request.kind = "counter" /\ request.step = "sent"
    /\ OpenToCounter(request.to)
    /\ \E over \in BOOLEAN :
          quote' = [quote EXCEPT ![request.to] = Countered(@, request.lines, request.note, over)]
    /\ request' = [request EXCEPT !.step = "handled"]
    /\ UNCHANGED <<route, shown, failed, loading, loads, drafts, note, texts, moves, lost>>

(* The lines of the quotation become the order's.                          *)
ConfirmHandled ==
    /\ request # None /\ request.kind = "confirm" /\ request.step = "sent"
    /\ quote[request.to].stage \in {"APPROVED", "NEGOTIATION"}
    /\ LET lines == quote[request.to].lines
       IN  quote' = [quote EXCEPT ![request.to] =
                        [stage |-> "CONFIRMED", events |-> @.events, lines |-> lines,
                         order |-> [seen |-> request.seen, lines |-> lines]]]
    /\ request' = [request EXCEPT !.step = "handled"]
    /\ UNCHANGED <<route, shown, failed, loading, loads, drafts, note, texts, moves, lost>>

(* The handler refuses, or the request or its answer is lost: the page     *)
(* leaves everything as it is.                                             *)
WriteFails ==
    /\ request # None
    /\ request.step \in {"sent", "handled"}
    /\ request' = None
    /\ lost' = (lost \/ request.step = "handled")
    /\ UNCHANGED <<quote, route, shown, failed, loading, loads, drafts, note, texts, moves>>

(* The answer arrives: PortalStore reloads the quotation it wrote to ...   *)
WriteAnswered ==
    /\ request # None /\ request.step = "handled"
    /\ StartLoad(request.to, "write")
    /\ request' = [request EXCEPT !.step = "loading"]
    /\ UNCHANGED <<quote, route, shown, drafts, note, texts, moves, lost>>

(* ... and its list; then the page empties its boxes, the note and the     *)
(* date excepted.  Fault: it does not.                                     *)
Emptied_Kept == drafts
Emptied == IF request.kind = "counter" THEN <<>> ELSE drafts

Finish ==
    /\ request # None /\ request.step = "listing"
    /\ drafts' = Emptied
    /\ request' = None
    /\ UNCHANGED <<quote, route, shown, failed, loading, loads, note, texts, moves, lost>>

NegotiationNext ==
    \/ \E q \in Moving : Edit(q) \/ Review(q) \/ ColleagueCounters(q)
    \/ \E q \in Quotations : Open(q)
    \/ LiveReload
    \/ \E load \in loads : LoadAnswered(load) \/ LoadDone(load)
    \/ \E q \in Quotations, n \in 1 .. MaxMoves + 2 : shown # None /\ Type(Id(q, n))
    \/ TypeNote \/ Send \/ Confirm
    \/ CounterHandled \/ ConfirmHandled \/ WriteFails \/ WriteAnswered \/ Finish

---------------------------------------------------------------------------
(* The lines of a quotation have different ids, whatever was removed and   *)
(* added since (nextLineNumber), so that a proposal hits one line only.    *)
LinesAreTold ==
    \A q \in Quotations : Cardinality(LineIds(q)) = Len(quote[q].lines)

(* What a customer types beside a line is said once: no reload, switch or  *)
(* refusal makes the page send it twice.  An answer that is lost does.     *)
SaidOnce ==
    lost \/ \A q \in Quotations : \A i, j \in DOMAIN quote[q].events :
                (/\ quote[q].events[i].text = quote[q].events[j].text
                 /\ quote[q].events[i].line # None)
                    => i = j

---------------------------------------------------------------------------
(* What the comments say and the code does not do.                         *)

(* quotations.routes.ts:165, "Keeps new line ids monotonic and             *)
(* collision-free even after lines are removed": the id of the last line   *)
(* is given again in the edit after the one that removed it, and the new   *)
(* line inherits what was said about the old one.                          *)
ThreadsStayWithTheirLine ==
    \A q \in Quotations : \A i \in DOMAIN quote[q].lines, k \in DOMAIN quote[q].events :
        quote[q].events[k].line = quote[q].lines[i].id
            => quote[q].events[k].about = quote[q].lines[i].product

(* portal.routes.ts:552, "Confirmed the quotation as presented.": a        *)
(* confirmation carries no version, so it takes the terms of the moment.   *)
ConfirmedAsPresented ==
    \A q \in Quotations :
        quote[q].order # None => quote[q].order.seen = quote[q].order.lines

(* portal-quotation.page.ts:239-240, "the route parameter ... drives what  *)
(* is loaded": an answer that is late, the reload of a write included,     *)
(* brings the other quotation back and nothing corrects it.                *)
RouteDrivesThePage ==
    (loads = {} /\ FormShown) => shown.of = route

(* What is typed while a request is under way is dropped with the rest.    *)
NothingTypedIsDropped ==
    [][Finish => \A id \in DOMAIN drafts \ DOMAIN drafts' :
                    id \in DOMAIN request.lines /\ request.lines[id] = drafts[id]]_negotiationVars

(* A note is said once.  The boxes of the note and the date are not        *)
(* emptied, so the next request says it again.                             *)
NotesSaidOnce ==
    lost \/ \A q \in Quotations : \A i, j \in DOMAIN quote[q].events :
                (/\ quote[q].events[i].text = quote[q].events[j].text
                 /\ quote[q].events[i].line = None)
                    => i = j
=============================================================================
