------------------------------ MODULE ListPage ------------------------------
(***************************************************************************)
(* A list screen: the search box that waits for the typing to pause, the   *)
(* search, page and filter every list request carries (ListQuery), the     *)
(* paginator, and answers that replace the rows as they arrive, in any     *)
(* order, while rows come and go on the server.  Some screens have a form  *)
(* to add a row, in a dialog that may be part of the list they show.       *)
(***************************************************************************)
EXTENDS Naturals, FiniteSets

CONSTANTS
    Terms,     \* what may be searched
    NoTerm,    \* the empty search
    Pages,     \* bound on the pages a search finds
    MaxLoads,  \* bound on the requests
    MaxMoves,  \* bound on the changes of what a search finds
    FormInList \* is the form's dialog inside the table's branch of the page?

VARIABLES
    found,    \* pages each search finds on the server now, one row each
    box,      \* the term in the search box that is not searched yet, if any
    q,        \* ListQuery.q
    at,       \* ListQuery.page
    pages,    \* ListQuery.totalPages of the last answer's total
    rows,     \* what the table shows: the page of which search, and whether it has rows
    asked,    \* requests that have not been answered
    loads,    \* requests so far
    moves,    \* changes of the server's data so far
    loading,  \* the page's loading signal
    failed,   \* does the page show an error?
    form      \* the dialog: "closed", "open" or "saving"

listVars == <<found, box, q, at, pages, rows, asked, loads, moves, loading, failed, form>>

Searches == Terms \cup {NoTerm}
AtLeastOne(n) == IF n = 0 THEN 1 ELSE n

ListInit ==
    /\ found \in [Searches -> 0 .. Pages]
    /\ \A t \in Searches : found[t] <= found[NoTerm]
    /\ box = {} /\ q = NoTerm /\ at = 1 /\ pages = 1
    /\ rows = [q |-> NoTerm, page |-> 1, any |-> FALSE]
    /\ asked = {[id |-> 1, q |-> NoTerm, page |-> 1]}   \* ngOnInit
    /\ loads = 1 /\ moves = 0
    /\ loading = TRUE /\ failed = FALSE /\ form = "closed"

(* load(): no request is told from the ones before it.                     *)
Load(term, page) ==
    /\ loads < MaxLoads
    /\ loads' = loads + 1
    /\ asked' = asked \cup {[id |-> loads + 1, q |-> term, page |-> page]}
    /\ loading' = TRUE
    /\ failed' = FALSE

(* SearchBoxComponent.onInput: the pause starts again.                     *)
TypeTerm(t) ==
    /\ box' = {t}
    /\ UNCHANGED <<found, q, at, pages, rows, asked, loads, moves, loading, failed, form>>

(* setSearch: a new term starts on its first page, the old one changes     *)
(* nothing.                                                                *)
Searched(t) ==
    IF t = q
    THEN UNCHANGED <<q, at, asked, loads, loading, failed>>
    ELSE q' = t /\ at' = 1 /\ Load(t, 1)

(* The box emits after the pause ...                                       *)
Emitted ==
    /\ \E t \in box : Searched(t)
    /\ box' = {}
    /\ UNCHANGED <<found, pages, rows, moves, form>>

(* ... or at once, when it or the empty table's button clears it.          *)
Cleared ==
    /\ Searched(NoTerm)
    /\ box' = {}
    /\ UNCHANGED <<found, pages, rows, moves, form>>

(* goToPage: the page asked for, within the last total.                    *)
Target(page) == IF page < 1 THEN 1 ELSE IF page > pages THEN pages ELSE page

TableShows == ~loading /\ ~failed /\ rows.any

GoToPage(page) ==
    /\ TableShows
    /\ Target(page) # at
    /\ at' = Target(page)
    /\ Load(q, Target(page))
    /\ UNCHANGED <<found, box, q, pages, rows, moves, form>>

(* A filter or the other view of the screen: the first page of it.         *)
Filter ==
    /\ at' = 1
    /\ Load(q, 1)
    /\ UNCHANGED <<found, box, q, pages, rows, moves, form>>

(* liveRefresh and a retry.                                                *)
Refresh ==
    /\ Load(q, at)
    /\ UNCHANGED <<found, box, q, at, pages, rows, moves, form>>

(* Rows are written or removed, or stop or start to match.                 *)
Move(t, n) ==
    /\ moves < MaxMoves
    /\ found' = [found EXCEPT ![t] = n]
    /\ \A u \in Searches : found'[u] <= found'[NoTerm]
    /\ moves' = moves + 1
    /\ UNCHANGED <<box, q, at, pages, rows, asked, loads, loading, failed, form>>

(* Fault: the total moves and the page stays.                              *)
StepBack_No(page, last) == page
(* applyMeta: a page past the last one is left.                            *)
StepBack(page, last) == IF page > last THEN last ELSE page

(* An answer arrives; it was read at some time since it was asked for.     *)
Answer(request) ==
    /\ rows' = [q |-> request.q, page |-> request.page, any |-> request.page <= found[request.q]]
    /\ pages' = AtLeastOne(found[request.q])
    /\ at' = StepBack(at, AtLeastOne(found[request.q]))
    /\ asked' = asked \ {request}
    /\ loading' = FALSE
    /\ UNCHANGED <<found, box, q, loads, moves, failed, form>>

(* An error leaves the rows, which the page hides until the next request.  *)
Fail(request) ==
    /\ asked' = asked \ {request}
    /\ loading' = FALSE
    /\ failed' = TRUE
    /\ UNCHANGED <<found, box, q, at, pages, rows, loads, moves, form>>

(* The "+ New" button and the empty table's own button open the form; a    *)
(* reload takes the dialog away where it is part of the table.             *)
FormShows == form # "closed" /\ (FormInList => TableShows)

Dialog(from, to) ==
    /\ form = from
    /\ form' = to
    /\ UNCHANGED <<found, box, q, at, pages, rows, asked, loads, moves, loading, failed>>

Create == Dialog("closed", "open")
Close == FormShows /\ Dialog("open", "closed")
Save == FormShows /\ Dialog("open", "saving")
SaveFails == Dialog("saving", "open")

(* save, answered: the form closes and the list is loaded again.           *)
Saved ==
    /\ form = "saving"
    /\ form' = "closed"
    /\ Load(q, at)
    /\ UNCHANGED <<found, box, q, at, pages, rows, moves>>

ListNext ==
    \/ Emitted \/ Cleared \/ Filter \/ Refresh
    \/ Create \/ Close \/ Save \/ SaveFails \/ Saved
    \/ \E t \in Terms : TypeTerm(t)
    \/ \E page \in {at - 1, at + 1} : GoToPage(page)
    \/ \E t \in Searches, n \in 0 .. Pages : Move(t, n)
    \/ \E request \in asked : Answer(request) \/ Fail(request)

(* list-query.ts:41: the page is "Clamped, so a stale "Next" click can     *)
(* never strand the user past the end".  However searches, page clicks,    *)
(* refreshes and answers overtake each other, the page a screen is on is   *)
(* one that the paginator offers a way back from.                          *)
PageInRange == at \in 1 .. pages

---------------------------------------------------------------------------
(* What the code says and does not do.                                     *)

(* list-query.ts:50: "step back rather than render an empty table with     *)
(* rows behind it".  applyMeta steps back, and nothing loads that page.    *)
NoEmptyTable ==
    (asked = {} /\ moves = 0 /\ rows.q = q /\ rows.page > 1 /\ ~rows.any) => found[q] = 0

(* Nothing tells an answer from those to later requests: the table of an   *)
(* earlier search can replace the one of the search that is shown.         *)
TableMatchesSearch == (asked = {} /\ rows.any) => rows.q = q

(* warehouses.page.ts:45 and plans.page.ts:46 offer a button under an      *)
(* empty table to add its first row.  Their dialog is part of the branch   *)
(* that shows the table: pressed on an empty list, the button shows        *)
(* nothing, and no first row is ever added.                                *)
CreateShowsTheForm == (form = "open" /\ asked = {} /\ ~failed) => FormShows
=============================================================================
