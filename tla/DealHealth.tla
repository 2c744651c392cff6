----------------------------- MODULE DealHealth -----------------------------
(***************************************************************************)
(* The deal-health board: detectors that look for deals which went quiet,  *)
(* were discounted out of character or promised too early; evaluations     *)
(* that keep one alert per deal and rule; the nudges and escalations of    *)
(* managers, whose requests overlap with each other and with evaluations;  *)
(* and the board each of them looks at.                                    *)
(***************************************************************************)
EXTENDS Integers, Sequences, FiniteSets, SequencesExt, Functions

CONSTANTS
    Deals, None,
    Managers,     \* people who may act on alerts
    TheManager,   \* the sales manager found first, None if there is none
    OwnerOf,      \* [Deals -> the rep]
    RepAverage,   \* [owner -> trailingAvgDiscountPct]
    Evaluators,   \* evaluations that may be under way at once
    StalledDays, Multiplier, CapPct, SlipDays,
    Starts,       \* <<idle days, average discount, promised, projected>> of deals
    MaxDay, MaxActions

DealHealthAssumption ==
    /\ StalledDays \in Nat /\ Multiplier \in Nat /\ CapPct \in Nat /\ SlipDays \in Nat
    /\ MaxDay \in Nat /\ MaxActions \in Nat

Types == {"STALLED_DEAL", "DISCOUNT_ANOMALY", "DELIVERY_SLIPPAGE"}

VARIABLES
    deal,       \* [Deals -> what the detectors read]
    today,
    alerts,     \* the alerts, by deal and type
    evaluation, \* [Evaluators -> findings still to be written, None if at rest]
    acting,     \* [Managers -> the request of that manager, None if none]
    board,      \* [Managers -> the alerts shown with buttons]
    done,       \* [Deals \X Types -> the actions that were saved, in order]
    told        \* who was told of which of them

healthVars == <<deal, today, alerts, evaluation, acting, board, done, told>>

---------------------------------------------------------------------------
(* The detectors.  Dates are whole days.                                   *)

Finished(d) == d.stage \in {"CONFIRMED", "REJECTED"}
IdleDays(d, now) == now - d.lastActivityAt

Grade(high) == IF high THEN "HIGH" ELSE "MEDIUM"

DetectStalledDeals(ds, now) ==
    {[on |-> q, type |-> "STALLED_DEAL", issue |-> IdleDays(ds[q], now),
      severity |-> Grade(IdleDays(ds[q], now) > StalledDays * 2)] :
        q \in {x \in Deals : ~Finished(ds[x]) /\ IdleDays(ds[x], now) > StalledDays}}

(* A rep without history has no average to be above.                       *)
OverMultiplier(avg, repAvg) == repAvg > 0 /\ avg > repAvg * Multiplier
OverCap(avg) == avg > CapPct

DetectDiscountAnomalies(ds) ==
    {[on |-> q, type |-> "DISCOUNT_ANOMALY", issue |-> ds[q].avgDiscountPct,
      severity |-> Grade(OverCap(ds[q].avgDiscountPct))] :
        q \in {x \in Deals :
                 /\ ~Finished(ds[x])
                 /\ \/ OverMultiplier(ds[x].avgDiscountPct, RepAverage[OwnerOf[x]])
                    \/ OverCap(ds[x].avgDiscountPct)}}

(* Finished deals slip too.                                                *)
DetectDeliverySlippage(ds) ==
    {[on |-> q, type |-> "DELIVERY_SLIPPAGE", issue |-> ds[q].projected - ds[q].promised,
      severity |-> Grade(ds[q].projected - ds[q].promised > SlipDays)] :
        q \in {x \in Deals : /\ ds[x].promised # None /\ ds[x].projected # None
                             /\ ds[x].projected > ds[x].promised}}

EvaluateDealHealth(ds, now) ==
    DetectStalledDeals(ds, now) \cup DetectDiscountAnomalies(ds) \cup DetectDeliverySlippage(ds)

---------------------------------------------------------------------------
HealthInit ==
    /\ deal \in [Deals -> {[stage |-> "APPROVED", lastActivityAt |-> 0 - s[1], avgDiscountPct |-> s[2],
                            promised |-> s[3], projected |-> s[4]] : s \in Starts}]
    /\ today = 0
    /\ alerts = <<>>
    /\ evaluation = [e \in Evaluators |-> None]
    /\ acting = [m \in Managers |-> None]
    /\ board = [m \in Managers |-> {}]
    /\ done = [k \in Deals \X Types |-> <<>>] /\ told = {}

(* The deals go on: a counter-offer, an edit or a comment is activity, a   *)
(* confirmation ends it.                                                   *)
Activity(q) ==
    /\ ~Finished(deal[q])
    /\ \E stage \in {"NEGOTIATION", "CONFIRMED"} :
          deal' = [deal EXCEPT ![q].stage = stage, ![q].lastActivityAt = today]
    /\ UNCHANGED <<today, alerts, evaluation, acting, board, done, told>>

DayPasses ==
    /\ today < MaxDay
    /\ today' = today + 1
    /\ UNCHANGED <<deal, alerts, evaluation, acting, board, done, told>>

(* POST /evaluate reads everything once ...                                *)
EvaluateRead(e) ==
    /\ evaluation[e] = None
    /\ evaluation' = [evaluation EXCEPT ![e] = EvaluateDealHealth(deal, today)]
    /\ UNCHANGED <<deal, today, alerts, acting, board, done, told>>

(* ... and then writes finding by finding, in any order here: a new alert  *)
(* starts open, one that exists keeps its status and its actions.  Fault:  *)
(* it is opened again.                                                     *)
Key(f) == <<f.on, f.type>>
Upserted_Reopened(f) ==
    [severity |-> f.severity, issue |-> f.issue, status |-> "OPEN",
     actions |-> IF Key(f) \in DOMAIN alerts THEN alerts[Key(f)].actions ELSE <<>>]
Upserted(f) ==
    IF Key(f) \in DOMAIN alerts
    THEN [alerts[Key(f)] EXCEPT !.severity = f.severity, !.issue = f.issue]
    ELSE [severity |-> f.severity, issue |-> f.issue, status |-> "OPEN", actions |-> <<>>]

EvaluateWrite(e) ==
    /\ evaluation[e] # None
    /\ \E f \in evaluation[e] :
          /\ alerts' = [k \in DOMAIN alerts \cup {Key(f)} |-> IF k = Key(f) THEN Upserted(f) ELSE alerts[k]]
          /\ evaluation' = [evaluation EXCEPT ![e] = @ \ {f}]
    /\ UNCHANGED <<deal, today, acting, board, done, told>>

(* It is answered, or its process ends before.                             *)
EvaluateEnds(e) ==
    /\ evaluation[e] # None
    /\ evaluation' = [evaluation EXCEPT ![e] = None]
    /\ UNCHANGED <<deal, today, alerts, acting, board, done, told>>

---------------------------------------------------------------------------
(* The board.                                                              *)

(* The last column: buttons until something was done, what was done after. *)
ActionColumn(alert) == IF alert.actions = <<>> THEN "buttons" ELSE alert.status

(* GET /deal-health, on opening the page, after acting, on a live frame.   *)
Load(m) ==
    /\ board' = [board EXCEPT ![m] = {k \in DOMAIN alerts : ActionColumn(alerts[k]) = "buttons"}]
    /\ UNCHANGED <<deal, today, alerts, evaluation, acting, done, told>>

(* The tiles count the alerts that are not resolved; nothing resolves one. *)
Tile(type) == Cardinality({k \in DOMAIN alerts : k[2] = type /\ alerts[k].status # "RESOLVED"})

(* actOnAlert, asked for with a button of the board: it reads the alert,   *)
(* changes its copy ...                                                    *)
StatusAfter(action) == IF action = "NUDGE" THEN "NUDGED" ELSE "ESCALATED"

Act(m, k, action) ==
    /\ acting[m] = None
    /\ k \in board[m]
    /\ alerts[k].status # "RESOLVED"
    /\ acting' = [acting EXCEPT ![m] =
          [key |-> k, action |-> action, saved |-> FALSE,
           read |-> [status |-> alerts[k].status, actions |-> alerts[k].actions]]]
    /\ UNCHANGED <<deal, today, alerts, evaluation, board, done, told>>

(* ... and saves what it changed: the entry is pushed, the status is       *)
(* written if it differs from the one read.  Fault: the list is written    *)
(* as a whole.                                                             *)
Saved_Whole(alert, m, a) ==
    [alert EXCEPT !.actions = Append(a.read.actions, <<m, a.action>>),
                  !.status = StatusAfter(a.action)]
Saved(alert, m, a) ==
    [alert EXCEPT
        !.actions = Append(@, <<m, a.action>>),
        !.status = IF a.read.status = StatusAfter(a.action) THEN @ ELSE StatusAfter(a.action)]

ActSave(m) ==
    /\ acting[m] # None
    /\ ~acting[m].saved
    /\ LET a == acting[m]
       IN  /\ Len(done[a.key]) < MaxActions
           /\ alerts' = [alerts EXCEPT ![a.key] = Saved(@, m, a)]
           /\ done' = [done EXCEPT ![a.key] = Append(@, <<m, a.action>>)]
           /\ acting' = [acting EXCEPT ![m].saved = TRUE]
    /\ UNCHANGED <<deal, today, evaluation, board, told>>

(* A nudge goes to the owner, an escalation to the manager or, without     *)
(* one, to the owner; notifyUsers leaves out who did it.  The answer        *)
(* reloads the board.                                                      *)
Recipient(a) ==
    IF a.action = "NUDGE" \/ TheManager = None THEN OwnerOf[a.key[1]] ELSE TheManager

ActTell(m) ==
    /\ acting[m] # None
    /\ acting[m].saved
    /\ LET a == acting[m]
       IN  told' = told \cup {<<r, m, a.action, a.key>> : r \in {Recipient(a)} \ {m}}
    /\ acting' = [acting EXCEPT ![m] = None]
    /\ UNCHANGED <<deal, today, alerts, evaluation, board, done>>

(* The request dies on the way.                                            *)
ActDies(m) ==
    /\ acting[m] # None
    /\ acting' = [acting EXCEPT ![m] = None]
    /\ UNCHANGED <<deal, today, alerts, evaluation, board, done, told>>

HealthNext ==
    \/ \E q \in Deals : Activity(q)
    \/ DayPasses
    \/ \E e \in Evaluators : EvaluateRead(e) \/ EvaluateWrite(e) \/ EvaluateEnds(e)
    \/ \E m \in Managers :
          \/ Load(m)
          \/ \E k \in Deals \X Types, action \in {"NUDGE", "ESCALATE"} : Act(m, k, action)
          \/ ActSave(m) \/ ActTell(m) \/ ActDies(m)

---------------------------------------------------------------------------
(* What was done about an alert is kept: overlapping managers and          *)
(* evaluations neither lose an entry nor reorder the list, and an alert    *)
(* that was acted on is never offered as open again.                       *)
ActionsAreKept ==
    \A k \in DOMAIN alerts :
        /\ alerts[k].actions = done[k]
        /\ alerts[k].actions # <<>> => alerts[k].status # "OPEN"

---------------------------------------------------------------------------
(* What comments and pages say and the code does not do.                   *)

(* deal-health.page.ts:44 and :26, "Quotes idle past the threshold", "Deals *)
(* that have gone quiet": an alert is never resolved, so the tile goes on  *)
(* counting deals that moved or were won.                                  *)
TilesCountWhatIs ==
    \A type \in Types : Tile(type) <=
        Cardinality({q \in Deals : \E f \in EvaluateDealHealth(deal, today) : Key(f) = <<q, type>>})

(* dealHealth.routes.ts:160-161, an escalation "still has to land          *)
(* somewhere": the manager who escalates is the recipient, and notifyUsers *)
(* drops the one who acts.                                                 *)
EscalationLands ==
    [][\A m \in Managers : ActTell(m) => told' # told]_healthVars

(* UI_SPEC.md:504-505: the column shows what was recorded.  It shows the   *)
(* status, which a save that read a status like its own does not write     *)
(* over the one saved in between.                                          *)
StatusIsOfTheLastAction ==
    \A k \in DOMAIN alerts :
        alerts[k].actions # <<>> =>
            alerts[k].status = StatusAfter(alerts[k].actions[Len(alerts[k].actions)][2])

(* An evaluation that read earlier and writes later puts an older finding  *)
(* in the place of a newer one.                                            *)
FindingsNeverGoBack ==
    [][\A k \in DOMAIN alerts :
          (k[2] = "STALLED_DEAL" /\ UNCHANGED deal /\ alerts'[k].issue # alerts[k].issue)
              => alerts'[k].issue > alerts[k].issue]_healthVars
=============================================================================
