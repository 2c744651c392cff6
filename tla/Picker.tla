------------------------------- MODULE Picker -------------------------------
(***************************************************************************)
(* The search-and-select box (df-search-select): a panel that shows the    *)
(* options of a search term page by page, searches again when the typing   *)
(* has paused and fetches the next page when the list is scrolled down,    *)
(* while the answers of earlier requests are still on their way.           *)
(***************************************************************************)
EXTENDS Naturals, Sequences, SequencesExt

CONSTANTS
    Terms,      \* what may be typed
    NoTerm,     \* the empty search, which lists everything
    Options,    \* [Terms \cup {NoTerm} -> sequence of options], what the server finds
    MaxQueries, \* bound on the requests
    NoOption    \* nothing picked

VARIABLES
    panel,    \* is the panel open?
    term,     \* the text of its filter
    timer,    \* is the pause after the last keystroke running?
    items,    \* the options listed
    total,    \* how many there are, as the last answer said
    page,     \* the last page fetched
    loading,  \* "Loading..." instead of the list
    more,     \* "Loading more..." under it
    active,   \* the option under the cursor, 0 for none
    value,    \* the option picked
    seq,      \* requestSeq
    sent      \* requests that have not been answered

pickerVars == <<panel, term, timer, items, total, page, loading, more, active, value, seq, sent>>

(* One option a page.                                                      *)
PageOf(t, p) == IF p \in DOMAIN Options[t] THEN <<Options[t][p]>> ELSE <<>>

PickerInit ==
    /\ panel = FALSE /\ timer = FALSE /\ loading = FALSE /\ more = FALSE
    /\ term = NoTerm /\ items = <<>> /\ total = 0 /\ page = 1
    /\ active = 0 /\ value = NoOption
    /\ seq = 0 /\ sent = {}

(* runQuery, up to the request.                                            *)
RunQuery(t, p) ==
    /\ seq < MaxQueries
    /\ seq' = seq + 1
    /\ sent' = sent \cup {[seq |-> seq + 1, term |-> t, page |-> p]}
    /\ loading' = (loading \/ p = 1)
    /\ more' = (more \/ p > 1)

(* toggle and the arrow key on the closed box: every opening starts over.  *)
OpenPanel ==
    /\ ~panel
    /\ panel' = TRUE
    /\ term' = NoTerm
    /\ active' = 0
    /\ RunQuery(NoTerm, 1)
    /\ UNCHANGED <<timer, items, total, page, value>>

(* toggle, the escape key and a click elsewhere.                           *)
ClosePanel ==
    /\ panel
    /\ panel' = FALSE
    /\ UNCHANGED <<term, timer, items, total, page, loading, more, active, value, seq, sent>>

(* onTermInput: the timer starts again.                                    *)
Type(t) ==
    /\ panel
    /\ t # term
    /\ term' = t
    /\ timer' = TRUE
    /\ active' = 0
    /\ UNCHANGED <<panel, items, total, page, loading, more, value, seq, sent>>

(* The typing has paused, whether or not the panel is still open.          *)
Debounced ==
    /\ timer
    /\ timer' = FALSE
    /\ RunQuery(term, 1)
    /\ UNCHANGED <<panel, term, items, total, page, active, value>>

HasMore == Len(items) < total

(* onScroll: the next page of the term in the filter, which may not be the *)
(* one whose options are listed.                                           *)
Scroll ==
    /\ panel
    /\ HasMore /\ ~loading /\ ~more
    /\ RunQuery(term, page + 1)
    /\ UNCHANGED <<panel, term, timer, items, total, page, active, value>>

(* moveActive, and the mouse over an option.                               *)
MoveTo(i) ==
    /\ panel /\ ~loading
    /\ i \in DOMAIN items
    /\ active' = i
    /\ UNCHANGED <<panel, term, timer, items, total, page, loading, more, value, seq, sent>>

(* pick, by a click or by the enter key.                                   *)
Pick ==
    /\ panel
    /\ active \in DOMAIN items
    /\ value' = items[active]
    /\ panel' = FALSE
    /\ UNCHANGED <<term, timer, items, total, page, loading, more, active, seq, sent>>

Clear ==
    /\ value # NoOption
    /\ value' = NoOption
    /\ UNCHANGED <<panel, term, timer, items, total, page, loading, more, active, seq, sent>>

(* Fault: an answer is shown whatever was asked since.                     *)
IsLatest_Any(request) == TRUE
IsLatest(request) == request.seq = seq

(* runQuery, the answer: dropped when a newer request was made.            *)
Answered(request) ==
    /\ sent' = sent \ {request}
    /\ IF IsLatest(request)
       THEN /\ items' = (IF request.page = 1 THEN <<>> ELSE items) \o PageOf(request.term, request.page)
            /\ total' = Len(Options[request.term])
            /\ page' = request.page
            /\ loading' = FALSE
            /\ more' = FALSE
       ELSE UNCHANGED <<items, total, page, loading, more>>
    /\ UNCHANGED <<panel, term, timer, active, value, seq>>

(* runQuery, an error: only a first page empties the list.                 *)
Failed(request) ==
    /\ sent' = sent \ {request}
    /\ IF IsLatest(request)
       THEN /\ IF request.page = 1 THEN items' = <<>> /\ total' = 0 ELSE UNCHANGED <<items, total>>
            /\ loading' = FALSE
            /\ more' = FALSE
       ELSE UNCHANGED <<items, total, loading, more>>
    /\ UNCHANGED <<panel, term, timer, page, active, value, seq>>

PickerNext ==
    \/ OpenPanel \/ ClosePanel \/ Debounced \/ Scroll \/ Pick \/ Clear
    \/ \E t \in Terms \cup {NoTerm} : Type(t)
    \/ \E i \in 1 .. 2 : MoveTo(i)
    \/ \E request \in sent : Answered(request) \/ Failed(request)

(* search-select.component.ts:28: the box "drops any response that is no   *)
(* longer the latest request, so a slow page-1 fetch can never clobber a   *)
(* faster page-2 (or a newer search)".  Once the typing has paused and the *)
(* latest request is answered, the list is the beginning of what the term  *)
(* in the filter finds and its total is that or, after an error, nothing;  *)
(* and it says that it loads just as long as that request is on its way.   *)
ListMatchesTerm ==
    LET waiting == \E request \in sent : request.seq = seq
    IN  /\ (loading \/ more) = waiting
        /\ (seq > 0 /\ ~waiting /\ ~timer) =>
              /\ IsPrefix(items, Options[term])
              /\ total = Len(Options[term]) \/ (total = 0 /\ items = <<>>)
=============================================================================
