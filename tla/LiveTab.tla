------------------------------- MODULE LiveTab ----------------------------
(***************************************************************************)
(* A browser tab on a deal - a page of the quotation builder or of an      *)
(* approval -, the store behind it, the socket that says "X changed" and   *)
(* the REST calls that fetch what changed.  Everybody else, other tabs of  *)
(* the same user included, acts on the server.                             *)
(*                                                                         *)
(* A page loads its document once, when it opens.  From then on it follows *)
(* the announcements of the server: liveRefresh gathers those of a burst   *)
(* and loads again, unless the builder holds edits, which it keeps and     *)
(* raises the "this quotation changed" dialog instead.  Calls are sent,    *)
(* served and answered in separate steps, in any order; announcements are  *)
(* emitted some time after the write they are about.                       *)
(*                                                                         *)
(* A deal is one document here, with the version and the stage that the    *)
(* quotation and its approval share; Deal tells them apart.                *)
(***************************************************************************)
EXTENDS Naturals, Sequences, SequencesExt

CONSTANTS
    Deals,
    None,          \* no page, no document
    MaxEvents,     \* bound: writes asked of the server and faults, together
    MaxVisits,     \* bound: pages opened or followed to
    MaxCalls       \* bound: calls of the tab in flight

ASSUME TabAssumption ==
    /\ None \notin Deals
    /\ MaxEvents \in Nat /\ MaxVisits \in Nat /\ MaxCalls \in Nat

VARIABLES
    deal,          \* the server's document of each deal
    asked,         \* how many writes were asked for
    pending,       \* writes that are saved and not yet announced
    announced,     \* the newest version that was announced, of each deal
    kind,          \* whose tab it is
    tab,           \* what it shows and holds
    calls,         \* its REST calls in flight, in the order they were sent
    wire,          \* the frames on the way to it
    visits, faults

vars == <<deal, asked, pending, announced, kind, tab, calls, wire, visits, faults>>

(* The builder of a representative who owns the deals, or of one who may only read them;
   the page of an approver.  Owners and approvers are in rooms that get every frame. *)
Kinds == {"owner", "reader", "approver"}

Authors == {"tab", "user", "other"}    \* this tab, another of the same user, anybody else

Stages == {"DRAFT", "IN_REVIEW", "DECIDED"}

Document == [deal : Deals, version : Nat, stage : Stages]

Frame == [deal : Deals, by : Authors]

Call == [op : {"get", "list", "patch", "submit", "decide"},
         deal : Deals,
         base : Nat,                                   \* the version a patch was made from
         then : BOOLEAN,                               \* a patch that a submission follows
         state : {"sent", "done", "stale", "refused"},
         doc : Document \cup {None}]

Tab == [page : Deals \cup {None},                      \* the id in the address bar
        shown : Document \cup {None},                  \* quotation() or current() of the store
        dirty : BOOLEAN,
        typed : BOOLEAN,                               \* edits no request has carried yet
        conflict : BOOLEAN,
        loading : BOOLEAN,
        saving : BOOLEAN,
        error : BOOLEAN,
        timer : BOOLEAN,                               \* the burst window is open
        online : BOOLEAN,
        room : Deals \cup {None},                      \* the quotation room it has joined
        joining : BOOLEAN,                             \* a subscription on its way
        told : BOOLEAN,                                \* dismissed the dialog since it loaded
                                                       \* what it shows
        missed : BOOLEAN,                              \* news of its page passed it by or was
                                                       \* withdrawn, or it was reached without
                                                       \* loading
        inOrder : BOOLEAN]                             \* no answer has overtaken another so far

NewTab == [page |-> None, shown |-> None, dirty |-> FALSE, typed |-> FALSE, conflict |-> FALSE,
           loading |-> FALSE, saving |-> FALSE, error |-> FALSE, timer |-> FALSE,
           online |-> TRUE, room |-> None, joining |-> FALSE,
           told |-> FALSE, missed |-> FALSE, inOrder |-> TRUE]

Init ==
    /\ deal = [d \in Deals |-> [deal |-> d, version |-> 1, stage |-> "DRAFT"]]
    /\ asked = 0
    /\ pending = {}
    /\ announced = [d \in Deals |-> 1]
    /\ kind \in Kinds
    /\ tab = NewTab
    /\ calls = <<>>
    /\ wire = <<>>
    /\ visits = 0 /\ faults = 0

-----------------------------------------------------------------------------
(* The client: pages and their stores.                                     *)

(* The room a builder asks for: the quotation it shows, or else the one in its address. *)
Watching(r) == IF r.page = None \/ r.shown = None THEN r.page ELSE r.shown.deal

(* The effect of watchQuotation: a new room is asked for when the target changes; an
   emit made without a connection waits in the socket's buffer. *)
Rewatched(r) ==
    IF kind = "approver" \/ Watching(r) = Watching(tab) THEN r
    ELSE [r EXCEPT !.joining = Watching(r) # None,
                   !.room = IF Watching(r) = None THEN None ELSE @]

Request(op, d) == [op |-> op, deal |-> d, base |-> 0, then |-> FALSE, state |-> "sent", doc |-> None]

Busy == Len(calls) >= MaxCalls

Sends(c) == calls' = Append(calls, c)

Loading(r) == [r EXCEPT !.loading = TRUE, !.error = FALSE]

(* The page is opened from a list or a link: a new component loads its document. *)
Open(d) ==
    /\ tab.page = None /\ ~Busy
    /\ tab' = Rewatched(Loading([tab EXCEPT !.page = d, !.typed = FALSE, !.told = FALSE, !.missed = FALSE]))
    /\ Sends(Request("get", d))
    /\ visits < MaxVisits /\ visits' = visits + 1
    /\ UNCHANGED <<kind, deal, asked, pending, announced, wire, faults>>

(* A click in the notification bell on a link to another deal's page of the same route:
   the router keeps the component and changes its id, and nothing loads. *)
Follow(d) ==
    /\ tab.page \notin {None, d}
    /\ tab' = Rewatched([tab EXCEPT !.page = d, !.missed = TRUE])
    /\ visits < MaxVisits /\ visits' = visits + 1
    /\ UNCHANGED <<kind, deal, asked, pending, announced, calls, wire, faults>>

(* Another page: the component goes, with its timer; the store and its calls stay. *)
Leave ==
    /\ tab.page # None
    /\ tab' = Rewatched([tab EXCEPT !.page = None, !.timer = FALSE])
    /\ UNCHANGED <<kind, deal, asked, pending, announced, calls, wire, visits, faults>>

Visible ==
    tab.page # None /\ tab.shown # None /\ ~tab.loading /\ ~tab.error

Editable ==
    kind # "approver" /\ Visible /\ tab.shown.stage = "DRAFT" /\ ~tab.conflict

Edit ==
    /\ Editable
    /\ ~tab.typed
    /\ tab' = [tab EXCEPT !.dirty = TRUE, !.typed = TRUE]
    /\ UNCHANGED <<kind, deal, asked, pending, announced, calls, wire, visits, faults>>

Asks(n) ==
    /\ asked + n + faults <= MaxEvents
    /\ asked' = asked + n

(* Save Draft, and Submit for Approval with unsaved edits, which saves first. *)
Save(thenSubmit) ==
    LET s == tab.shown IN
    /\ Editable /\ tab.dirty /\ ~tab.saving /\ ~Busy
    /\ Asks(IF thenSubmit THEN 2 ELSE 1)
    /\ tab' = [tab EXCEPT !.saving = TRUE, !.typed = FALSE]
    /\ Sends([Request("patch", s.deal) EXCEPT !.base = s.version, !.then = thenSubmit])
    /\ UNCHANGED <<kind, deal, pending, announced, wire, visits, faults>>

Submit ==
    LET s == tab.shown IN
    /\ Editable /\ ~tab.dirty /\ ~tab.saving /\ ~Busy
    /\ Asks(1)
    /\ tab' = [tab EXCEPT !.saving = TRUE]
    /\ Sends(Request("submit", s.deal))
    /\ UNCHANGED <<kind, deal, pending, announced, wire, visits, faults>>

(* "Keep editing" and "Reload latest" of the dialog. *)
KeepEditing ==
    /\ tab.conflict /\ Visible
    /\ tab' = [tab EXCEPT !.conflict = FALSE, !.told = TRUE]
    /\ UNCHANGED <<kind, deal, asked, pending, announced, calls, wire, visits, faults>>

ReloadLatest ==
    /\ tab.conflict /\ Visible /\ ~Busy
    /\ tab' = Loading([tab EXCEPT !.conflict = FALSE, !.told = FALSE, !.typed = FALSE])
    /\ Sends(Request("get", tab.shown.deal))
    /\ UNCHANGED <<kind, deal, asked, pending, announced, wire, visits, faults>>

(* What the buttons stand on is the document shown; what is posted is the page's id. *)
Decide ==
    /\ kind = "approver" /\ Visible /\ tab.shown.stage = "IN_REVIEW" /\ ~Busy
    /\ Asks(1)
    /\ Sends(Request("decide", tab.page))
    /\ UNCHANGED <<kind, deal, pending, announced, tab, wire, visits, faults>>

-----------------------------------------------------------------------------
(* The server: a handler reads and writes its document, and announces the  *)
(* write later.                                                            *)

Written(d, stage) == [deal |-> d, version |-> deal[d].version + 1, stage |-> stage]

Answered(i, outcome, doc) ==
    calls' = [calls EXCEPT ![i].state = outcome, ![i].doc = doc]

(* The order of the service is the order of the requests, for all the tab can tell. *)
NotesOrder(i) ==
    tab' = [tab EXCEPT !.inOrder =
                @ /\ \A j \in 1..(i - 1) : calls[j].state # "sent"]

Announces(d, by) ==
    pending' = pending \cup {[deal |-> d, by |-> by, version |-> deal[d].version + 1]}

ServeRead(i) ==
    LET c == calls[i] IN
    /\ c.state = "sent" /\ c.op \in {"get", "list"}
    /\ Answered(i, "done", IF c.op = "get" THEN deal[c.deal] ELSE None)
    /\ NotesOrder(i)
    /\ UNCHANGED <<kind, deal, asked, pending, announced, wire, visits, faults>>

(* PATCH writes and announces nothing. *)
ServePatch(i) ==
    LET c == calls[i]
        d == deal[c.deal] IN
    /\ c.state = "sent" /\ c.op = "patch"
    /\ \/ /\ c.base # d.version
          /\ Answered(i, "stale", None)
          /\ UNCHANGED deal
       \/ /\ c.base = d.version /\ d.stage # "DRAFT"
          /\ Answered(i, "refused", None)
          /\ UNCHANGED deal
       \/ /\ c.base = d.version /\ d.stage = "DRAFT"
          /\ deal' = [deal EXCEPT ![c.deal] = Written(c.deal, "DRAFT")]
          /\ Answered(i, "done", deal'[c.deal])
    /\ NotesOrder(i)
    /\ UNCHANGED <<kind, asked, pending, announced, wire, visits, faults>>

(* Mutant: the approval's status stored as the stage. *)
NextStages_ApprovalStatus(op) ==
    IF op = "submit" THEN {"IN_REVIEW", "DECIDED"} ELSE {"RETURNED", "DECIDED"}

(* A submission goes to the approvers or is approved at once; a decision returns the deal
   to its owner or settles it. *)
NextStages(op) == IF op = "submit" THEN {"IN_REVIEW", "DECIDED"} ELSE {"DRAFT", "DECIDED"}

Accepts(op, d) == d.stage = (IF op = "submit" THEN "DRAFT" ELSE "IN_REVIEW")

ServeMove(i) ==
    LET c == calls[i]
        d == deal[c.deal] IN
    /\ c.state = "sent" /\ c.op \in {"submit", "decide"}
    /\ \/ /\ ~Accepts(c.op, d)
          /\ Answered(i, "refused", None)
          /\ UNCHANGED <<deal, pending>>
       \/ /\ Accepts(c.op, d)
          /\ \E s \in NextStages(c.op) : deal' = [deal EXCEPT ![c.deal] = Written(c.deal, s)]
          /\ Answered(i, "done", deal'[c.deal])
          /\ Announces(c.deal, "tab")
    /\ NotesOrder(i)
    /\ UNCHANGED <<kind, asked, announced, wire, visits, faults>>

(* Everybody else: another builder saves, or somebody submits, decides or counters. *)
OthersPatch(d) ==
    /\ deal[d].stage = "DRAFT"
    /\ Asks(1)
    /\ deal' = [deal EXCEPT ![d] = Written(d, "DRAFT")]
    /\ UNCHANGED <<kind, pending, announced, tab, calls, wire, visits, faults>>

OthersMove(d, by) ==
    /\ Asks(1)
    /\ \E s \in IF deal[d].stage = "DRAFT" THEN NextStages("submit")
              ELSE {"IN_REVIEW"} \cup NextStages("decide") :
            /\ deal[d].stage = "DECIDED" => s = "IN_REVIEW"
            /\ deal' = [deal EXCEPT ![d] = Written(d, s)]
    /\ Announces(d, by)
    /\ UNCHANGED <<kind, announced, tab, calls, wire, visits, faults>>

Hears(d) == tab.online /\ (kind # "reader" \/ tab.room = d)

Emit(a) ==
    /\ a \in pending
    /\ pending' = pending \ {a}
    /\ announced' = [announced EXCEPT ![a.deal] = IF a.version > @ THEN a.version ELSE @]
    /\ wire' = IF Hears(a.deal) THEN Append(wire, [deal |-> a.deal, by |-> a.by]) ELSE wire
    /\ tab' = [tab EXCEPT !.missed = @ \/ (tab.page = a.deal /\ ~Hears(a.deal) /\ a.by # "tab")]
    /\ UNCHANGED <<kind, deal, asked, calls, visits, faults>>

(* The server answers a subscription. *)
Join ==
    /\ tab.online /\ tab.joining
    /\ tab' = [tab EXCEPT !.room = Watching(tab), !.joining = FALSE]
    /\ UNCHANGED <<kind, deal, asked, pending, announced, calls, wire, visits, faults>>

-----------------------------------------------------------------------------
(* Announcements and answers arrive.                                       *)

Own(f) == f.by \in {"tab", "user"}

(* The page's filter: the approval in the address, the quotation on screen. *)
Concerns(f) == f.deal = (IF kind = "approver" THEN tab.page ELSE Watching(tab))

Deliver ==
    LET f == Head(wire)
        heard == tab.page # None /\ ~Own(f) /\ Concerns(f) IN
    /\ wire # <<>>
    /\ wire' = Tail(wire)
    /\ tab' = [tab EXCEPT !.timer = @ \/ heard,
                          !.missed = @ \/ (~heard /\ f.deal = tab.page /\ f.by # "tab")]
    /\ UNCHANGED <<kind, deal, asked, pending, announced, calls, visits, faults>>

(* Mutant: no second load while one is under way. *)
Reload_NotWhileLoading ==
    /\ tab.timer
    /\ \/ /\ tab.dirty
          /\ tab' = [tab EXCEPT !.timer = FALSE, !.conflict = TRUE]
          /\ UNCHANGED calls
       \/ /\ ~tab.dirty /\ tab.loading
          /\ tab' = [tab EXCEPT !.timer = FALSE]
          /\ UNCHANGED calls
       \/ /\ ~tab.dirty /\ ~tab.loading /\ ~Busy
          /\ tab' = Loading([tab EXCEPT !.timer = FALSE])
          /\ Sends(Request("get", tab.page))
    /\ UNCHANGED <<kind, deal, asked, pending, announced, wire, visits, faults>>

(* The burst window closes: the page's reload(). *)
Reload ==
    /\ tab.timer
    /\ \/ /\ tab.dirty
          /\ tab' = [tab EXCEPT !.timer = FALSE, !.conflict = TRUE]
          /\ UNCHANGED calls
       \/ /\ ~tab.dirty /\ ~Busy
          /\ tab' = Loading([tab EXCEPT !.timer = FALSE])
          /\ Sends(Request("get", tab.page))
    /\ UNCHANGED <<kind, deal, asked, pending, announced, wire, visits, faults>>

(* A document replaces the one shown and the lines on screen with it. *)
Showing(r, doc) ==
    [r EXCEPT !.shown = doc, !.typed = FALSE]

(* Mutant: every load closes the dialog. *)
Applied_LoadClosesDialog(r, c) ==
    CASE c.op = "get"     -> [Showing(r, c.doc) EXCEPT !.dirty = FALSE, !.loading = FALSE,
                                                       !.conflict = FALSE, !.told = FALSE]
      [] c.op = "list"    -> [r EXCEPT !.loading = FALSE]
      [] c.op \in {"decide", "patch", "submit"} ->
            [(IF c.state = "done" THEN Showing(r, c.doc) ELSE r) EXCEPT !.saving = FALSE]

(* What an answer does to its tab. *)
Applied(r, c) ==
    CASE c.op = "get"     -> [Showing(r, c.doc) EXCEPT !.dirty = FALSE, !.loading = FALSE,
                                                        !.told = FALSE, !.missed = @ \/ r.told]
      [] c.op = "list"    -> [r EXCEPT !.loading = FALSE]
      [] c.op = "decide"  -> IF c.state = "done"
                             THEN [Showing(r, c.doc) EXCEPT !.loading = TRUE, !.error = FALSE,
                                                            !.missed = @ \/ r.error]
                             ELSE r
      [] c.op = "patch"   ->
            IF c.state = "done"
            THEN [Showing(r, c.doc) EXCEPT !.dirty = FALSE, !.conflict = FALSE, !.saving = c.then,
                                            !.told = FALSE, !.missed = @ \/ r.conflict \/ r.told]
            ELSE [r EXCEPT !.saving = FALSE, !.conflict = @ \/ c.state = "stale"]
      [] c.op = "submit"  -> [(IF c.state = "done" THEN Showing(r, c.doc) ELSE r)
                              EXCEPT !.saving = FALSE]

(* A submission follows its patch; the list is loaded after a decision. *)
FollowUp(c) ==
    IF c.state # "done" THEN <<>>
    ELSE IF c.op = "patch" /\ c.then THEN <<Request("submit", c.deal)>>
    ELSE IF c.op = "decide" THEN <<Request("list", c.deal)>>
    ELSE <<>>

Answer(i) ==
    LET c == calls[i] IN
    /\ c.state # "sent"
    /\ tab' = Rewatched([Applied(tab, c) EXCEPT !.inOrder = @ /\ i = 1])
    /\ calls' = RemoveAt(calls, i) \o FollowUp(c)
    /\ UNCHANGED <<kind, deal, asked, pending, announced, wire, visits, faults>>

-----------------------------------------------------------------------------
(* Faults.                                                                 *)

Faults ==
    /\ asked + faults < MaxEvents
    /\ faults' = faults + 1

(* A call gets no answer, whether or not the server has served it. *)
Lost(r, op) ==
    CASE op \in {"get", "list"}     -> [r EXCEPT !.loading = FALSE, !.error = TRUE]
      [] op \in {"patch", "submit"} -> [r EXCEPT !.saving = FALSE, !.missed = TRUE]
      [] op = "decide"              -> [r EXCEPT !.missed = TRUE]

CallFails(i) ==
    /\ Faults
    /\ tab' = Lost(tab, calls[i].op)
    /\ calls' = RemoveAt(calls, i)
    /\ UNCHANGED <<kind, deal, asked, pending, announced, wire, visits>>

Disconnect ==
    /\ Faults
    /\ tab.online
    /\ tab' = [tab EXCEPT !.online = FALSE, !.room = None, !.joining = FALSE,
                          !.missed = @ \/ wire # <<>>]
    /\ wire' = <<>>
    /\ UNCHANGED <<kind, deal, asked, pending, announced, calls, visits>>

(* The socket comes back by itself; nothing is fetched and no room is joined again. *)
Reconnect ==
    /\ ~tab.online
    /\ tab' = [tab EXCEPT !.online = TRUE]
    /\ UNCHANGED <<kind, deal, asked, pending, announced, calls, wire, visits, faults>>

-----------------------------------------------------------------------------
Uses ==
    \/ \E d \in Deals : Open(d) \/ Follow(d)
    \/ Leave
    \/ Edit
    \/ \E b \in BOOLEAN : Save(b)
    \/ Submit
    \/ KeepEditing
    \/ ReloadLatest
    \/ Decide

Serves == \E i \in DOMAIN calls : ServeRead(i) \/ ServePatch(i) \/ ServeMove(i)

Receives == \E i \in DOMAIN calls : Answer(i)

Next ==
    \/ Uses \/ Serves \/ Receives
    \/ Join \/ Deliver \/ Reload
    \/ \E a \in pending : Emit(a)
    \/ \E d \in Deals : OthersPatch(d) \/ \E by \in {"user", "other"} : OthersMove(d, by)
    \/ \E i \in DOMAIN calls : CallFails(i)
    \/ Disconnect \/ Reconnect

Spec == Init /\ [][Next]_vars

(* What goes by itself is fair: the server serves and announces, the browser runs its
   timers and callbacks.  Users and faults need never act. *)
FairSpec ==
    /\ Spec
    /\ WF_vars(\E a \in pending : Emit(a))
    /\ WF_vars(Serves)
    /\ WF_vars(Receives)
    /\ WF_vars(Deliver)
    /\ WF_vars(Reload)

-----------------------------------------------------------------------------
(* The properties.                                                         *)

TypeOK ==
    /\ deal \in [Deals -> Document]
    /\ kind \in Kinds
    /\ tab \in Tab
    /\ wire \in Seq(Frame) /\ calls \in Seq(Call)

(* Nothing is on its way to the tab or about to be said of the deal. *)
Quiet(d) ==
    /\ calls = <<>> /\ wire = <<>> /\ ~tab.timer
    /\ \A a \in pending : a.deal # d

(* Why a page may be behind: it shows an error; an announcement passed it by - the socket
   was down, the room not yet joined, the writer another tab of the same user, the dialog
   or the error it led to withdrawn by an answer -; a link was followed that kept the
   component; answers came out of order. *)
Excused == tab.error \/ tab.missed \/ ~tab.inOrder

(* The page is on the deal of its address and shows the last state that was announced of
   it, or its user has been told that there is a newer one, if there are edits that loading
   would lose. *)
Current ==
    tab.shown # None /\ tab.page = tab.shown.deal
    => tab.shown.version >= announced[tab.page] \/ tab.conflict \/ tab.told

(* Nobody is left behind when all is quiet. *)
NobodyIsLeftBehind ==
    TypeOK /\ (tab.page # None /\ Quiet(tab.page) /\ ~Excused => Current)

(* ... and news does arrive. *)
NewsArrives == ~Current ~> Current \/ Excused

(* approval-detail: the decision that is posted is of the approval that is shown. *)
DecidesWhatIsShown == [][Decide => tab.shown.deal = tab.page]_vars

(* quotation-detail, reload(): "Never overwrite work in progress" - edits are replaced
   only by the user's own choice. *)
NeverOverwritesWork ==
    [][tab.typed /\ ~tab'.typed
       => \/ ReloadLatest
          \/ \E b \in BOOLEAN : Save(b)
          \/ \E d \in Deals : Open(d)]_vars
=============================================================================
