------------------------------- MODULE Parts -------------------------------
(***************************************************************************)
(* Parts of the program that share no state, one of them at work in a      *)
(* behaviour: the prices of a quotation; the bell, the search-and-select   *)
(* box and a list screen; the customer's page of a quotation; the          *)
(* deal-health board; and the catalogue.                                   *)
(***************************************************************************)
EXTENDS Pricing

CONSTANTS
    Tabs, Rows, Window, Slots, Frames, Handlers,
    Terms, NoTerm, Options, MaxQueries, NoOption,
    SearchTerms, Pages, MaxLoads, MaxFinds, FormInList,
    Quotations, Moving, Asks, MaxTexts, MaxOthers, MaxEvents, MaxGets,
    Deals, Managers, TheManager, Evaluators, OwnerOf, RepAverage, Starts,
    StalledDays, Multiplier, CapPct, SlipDays, MaxDay, MaxActions,
    Goods, Warehouses, Customers, PlanNames, Admins, MaxSku, MaxWrites

ASSUME PartsAssumption ==
    /\ Rows \in Nat /\ Window \in Nat /\ Frames \in Nat
    /\ Pages \in Nat /\ MaxSku \in Nat
    /\ MaxTexts \in Nat /\ MaxOthers \in Nat /\ Moving \subseteq Quotations
    /\ \A t \in Terms \cup {NoTerm} : Options[t] \in Seq({Options[t][i] : i \in DOMAIN Options[t]})

VARIABLES row, jobs, frames, shown, loads, marking
VARIABLES panel, term, timer, items, total, page, loading, more, active, value, seq, sent
VARIABLES found, box, q, at, pages, listed, asked, asking, finds, reloading, failed, form
VARIABLES thread, route, presented, refused, covered, gets, drafts, note, request, texts, others, lost
VARIABLES deal, today, alerts, evaluation, acting, board, done, told
VARIABLES product, stock, sites, customer, plan, pending, writes, overlapped, touched, cut
VARIABLE part

B == INSTANCE Bell
P == INSTANCE Picker
L == INSTANCE ListPage WITH Terms <- SearchTerms, rows <- listed, loads <- asking, loading <- reloading,
        moves <- finds, MaxMoves <- MaxFinds
N == INSTANCE Negotiation WITH MaxLoads <- MaxGets, MaxMoves <- MaxOthers, quote <- thread,
        shown <- presented, failed <- refused, loading <- covered, loads <- gets, moves <- others
H == INSTANCE DealHealth
G == INSTANCE Catalogue WITH Products <- Goods, active <- sites

ASSUME NoneIsNoDocument ==
    /\ None \notin G!ProductRecords /\ None \notin G!CreateRequests
    /\ None \notin N!Ids /\ None \notin N!Requests

bell == <<row, jobs, frames, shown, loads, marking>>
picker == <<panel, term, timer, items, total, page, loading, more, active, value, seq, sent>>
list == <<found, box, q, at, pages, listed, asked, asking, finds, reloading, failed, form>>
portal == <<thread, route, presented, refused, covered, gets, drafts, note, request, texts, others, lost>>
health == <<deal, today, alerts, evaluation, acting, board, done, told>>
catalogue == <<product, stock, sites, customer, plan, pending, writes, overlapped, touched, cut>>

Parts == {"bell", "picker", "list", "portal", "health", "catalogue", "pricing"}

(* What is not at work stands where some behaviour of it starts.           *)
AtRest ==
    /\ part # "list" => \A t \in DOMAIN found : found[t] = 0
    /\ part # "health" => \A d \in Deals : deal[d].promised # None
    /\ part # "pricing" => tier = "GOLD"

Init ==
    /\ B!Init /\ P!PickerInit /\ L!ListInit /\ N!NegotiationInit /\ H!HealthInit /\ G!CatalogueInit
    /\ PricingInit
    /\ part \in Parts
    /\ AtRest

Next ==
    /\ UNCHANGED part
    /\ \/ part = "bell" /\ B!Next /\ UNCHANGED <<picker, list, portal, health, catalogue, pricingVars>>
       \/ part = "picker" /\ P!PickerNext /\ UNCHANGED <<bell, list, portal, health, catalogue, pricingVars>>
       \/ part = "list" /\ L!ListNext /\ UNCHANGED <<bell, picker, portal, health, catalogue, pricingVars>>
       \/ part = "portal" /\ N!NegotiationNext /\ UNCHANGED <<bell, picker, list, health, catalogue, pricingVars>>
       \/ part = "health" /\ H!HealthNext /\ UNCHANGED <<bell, picker, list, portal, catalogue, pricingVars>>
       \/ part = "catalogue" /\ G!CatalogueNext /\ UNCHANGED <<bell, picker, list, portal, health, pricingVars>>
       \/ part = "pricing" /\ PricingNext /\ UNCHANGED <<bell, picker, list, portal, health, catalogue>>

Spec == Init /\ [][Next]_<<bell, picker, list, portal, health, catalogue, pricingVars, part>>

FairSpec == Spec /\ B!Fairness

(* Whatever answers overtake, the bell shows each row the server wrote     *)
(* once, no screen is on a page that its list does not have, and the box   *)
(* lists what it found for its latest term.                                *)
NothingStrayShown == B!TypeOK /\ B!NoRowTwice /\ L!PageInRange /\ P!ListMatchesTerm

(* A user who goes on opening the bell ends up with the server's rows.     *)
OpenBellHeals == B!PanelHeals

(* What a customer types beside a line reaches one line, and once.         *)
RequestsSayItOnce == N!LinesAreTold /\ N!SaidOnce

(* No evaluation and no overlap undoes what a manager did about an alert.  *)
ActionsAreKept == H!ActionsAreKept

(* Price lists, cycles and opening stock agree with what they stand for.   *)
CatalogueAgrees == G!CatalogueAgrees

(* What comments and pages say and the code does not do: see ListPage, ... *)
EmptyTableIsEmpty == L!NoEmptyTable
TableIsOfTheSearch == L!TableMatchesSearch
FirstRowCanBeAdded == L!CreateShowsTheForm

(* ... Negotiation, ...                                                    *)
ThreadsStayWithTheirLine == N!ThreadsStayWithTheirLine
ConfirmedAsPresented == N!ConfirmedAsPresented
RouteDrivesThePage == N!RouteDrivesThePage
NotesSaidOnce == N!NotesSaidOnce
NothingTypedIsDropped == N!NothingTypedIsDropped

(* ... DealHealth ...                                                      *)
TilesCountWhatIs == H!TilesCountWhatIs
StatusIsOfTheLastAction == H!StatusIsOfTheLastAction
EscalationLands == H!EscalationLands
FindingsNeverGoBack == H!FindingsNeverGoBack

(* ... Catalogue, and those Pricing states itself.                         *)
NoStaleCycle == G!NoStaleCycle
QuantityNeverDisagrees == G!QuantityNeverDisagrees
SubscriptionsAreCategorised == G!SubscriptionsAreCategorised
PlansBillSubscriptions == G!PlansBillSubscriptions

---------------------------------------------------------------------------
(* Values for TLC.                                                         *)

MCOptions ==
    [t \in Terms \cup {NoTerm} |->
        CASE t = NoTerm -> <<"x", "y">> [] t = "some" -> <<"y", "w">> [] OTHER -> <<>>]

(* A rep who usually gives one point: one deal quiet for two days, one     *)
(* discounted well above that, one promised two days early.                *)
MCOwnerOf == [d \in Deals |-> "rao"]
MCRepAverage == [r \in {"rao"} |-> 1]
MCStarts == {<<2, 1, None, None>>, <<0, 4, None, None>>, <<0, 1, 0, 2>>}

(* GOLD has ten per cent off and more room for discounts.                  *)
MCSeeded == [t \in Tiers |-> IF t = "GOLD" THEN [type |-> "PERCENT_OFF_BASE", value |-> 10]
                                          ELSE [type |-> "NONE", value |-> 0]]
MCCeiling == [t \in Tiers |-> IF t = "GOLD" THEN 2 ELSE 1]
=============================================================================
