------------------------------ MODULE WebSession ------------------------------
(***************************************************************************)
(* One browser tab: who it thinks is signed in, the address it shows, the  *)
(* guards that send it elsewhere, and the calls whose refusal ends the     *)
(* session - while accounts and links change on the server.                *)
(*                                                                         *)
(* An address is a page followed by the address its `redirect` parameter   *)
(* names: <<"login", "approvals">> is the sign-in screen that leads back   *)
(* to the approvals.  Opening a customer's link is a page too: the link.   *)
(***************************************************************************)
EXTENDS Naturals, Sequences

CONSTANTS
    Accounts,   \* account ids
    Customers,  \* those of them that are customers'
    Links,      \* portal tokens, each the page /portal/q/:number?token=
    MaxSteps,   \* bound on what users, time and administrators do
    None        \* no session, nowhere to go, no link

Staff == {"ADMIN", "SALES_REP", "SALES_MANAGER", "FINANCE"}
Roles == Staff \cup {"CUSTOMER"}
AppPages == {"dashboard", "approvals"}
AdminPages == {"products", "users"}
PortalPages == {"quotations"} \cup Links
Pages == {"login", "change-password"} \cup AppPages \cup AdminPages \cup PortalPages

ASSUME CustomersAssumption == Customers \subseteq Accounts
ASSUME BoundAssumption == MaxSteps \in Nat

LandingRoute_Users ==
    [role \in Roles |-> CASE role = "ADMIN" -> "products" [] role = "CUSTOMER" -> "quotations"
                          [] role = "FINANCE" -> "users" [] OTHER -> "dashboard"]
LandingRoute ==
    [role \in Roles |-> CASE role = "ADMIN" -> "products" [] role = "CUSTOMER" -> "quotations"
                          [] role = "FINANCE" -> "approvals" [] OTHER -> "dashboard"]

(* The roles a page's own guard lets in; a page without one lets all in.   *)
PageRoles ==
    [page \in Pages |-> CASE page = "approvals" -> {"ADMIN", "SALES_MANAGER", "FINANCE"}
                          [] page = "users" -> {"ADMIN"}
                          [] OTHER -> Roles]

VARIABLES
    account,  \* accounts on the server
    dead,     \* links that were revoked or ran out
    session,  \* SessionStore's state, which localStorage holds too
    at,       \* the address shown
    going,    \* the address the router is on its way to
    calls,    \* requests that have not been answered
    left,     \* the address a session ended on, while its user is signing in
    refused,  \* the server said 401 to the sign-in screen since
    steps     \* user, time and server steps so far

vars == <<account, dead, session, at, going, calls, left, refused, steps>>

Area(page) ==
    CASE page \in AppPages -> "app"
      [] page \in AdminPages -> "admin"
      [] page \in PortalPages -> "portal"
      [] OTHER -> page
Entering(page) == Area(page) # Area(Head(at))
Back(address) == Tail(address)

Init ==
    /\ account \in [Accounts -> [role : Roles, active : {TRUE}, mustChange : BOOLEAN]]
    /\ \A u \in Accounts : account[u].role = "CUSTOMER" <=> u \in Customers
    /\ dead = {}
    /\ session = None
    /\ at = <<"login">>
    /\ going = None
    /\ calls = {}
    /\ left = None /\ refused = FALSE
    /\ steps = 0

---------------------------------------------------------------------------
(* What the store holds.  `known` is isAuthenticated(): a computed signal, *)
(* evaluated when the state changes and not when time passes.  A guest is  *)
(* a session without an account, that came through a link.                 *)
SignedIn(u) ==
    [id |-> u, role |-> account[u].role, mustChange |-> account[u].mustChange,
     aged |-> FALSE, known |-> TRUE, link |-> None]
Guest(l) ==
    [id |-> None, role |-> "CUSTOMER", mustChange |-> FALSE, aged |-> FALSE, known |-> TRUE, link |-> l]
Stashed(s, l) == IF s = None THEN Guest(l) ELSE [s EXCEPT !.link = l, !.known = ~s.aged]

IsAuthenticated(s) == s # None /\ s.known
Landing(s) == IF s = None THEN <<"login">> ELSE <<LandingRoute[s.role]>>

ReadStorage(s) ==
    IF s = None \/ (s.aged /\ s.link = None) THEN None ELSE [s EXCEPT !.known = ~s.aged]

---------------------------------------------------------------------------
(* The guards.  Each lets the tab in, or names the address to go to.       *)
Admitted == <<>>
ToLogin(address) == <<"login">> \o address

AuthGuard(s, address) == IF IsAuthenticated(s) THEN Admitted ELSE ToLogin(address)

RoleGuard(s, address, roles) ==
    CASE ~IsAuthenticated(s) -> ToLogin(address)
      [] IsAuthenticated(s) /\ s.role \in roles -> Admitted
      [] OTHER -> Landing(s)

InternalGuard(s, address) ==
    CASE ~IsAuthenticated(s) -> ToLogin(address)
      [] IsAuthenticated(s) /\ s.role = "CUSTOMER" -> <<"quotations">>
      [] OTHER -> Admitted

PortalGuard(s) ==
    CASE s # None /\ s.link # None -> Admitted
      [] IsAuthenticated(s) /\ s.link = None /\ s.role = "CUSTOMER" -> Admitted
      [] IsAuthenticated(s) /\ s.link = None /\ s.role # "CUSTOMER" -> <<"dashboard">>
      [] OTHER -> <<"login">>

(* An area's guard runs when the area is entered, a page's whenever the    *)
(* router goes to the page.                                                *)
AreaGuard(s, address) ==
    CASE Area(Head(address)) = "app" -> InternalGuard(s, address)
      [] Area(Head(address)) = "admin" -> RoleGuard(s, address, {"ADMIN", "SALES_MANAGER"})
      [] Area(Head(address)) = "portal" -> PortalGuard(s)
      [] Head(address) = "change-password" -> AuthGuard(s, address)
      [] OTHER -> Admitted

Guarded(s, address) ==
    LET page == Head(address)
        first == IF Entering(page) THEN AreaGuard(s, address) ELSE Admitted
    IN  IF first = Admitted /\ PageRoles[page] # Roles THEN RoleGuard(s, address, PageRoles[page]) ELSE first

(* The session once the guards have run: the portal's keeps a link's token. *)
GuardedSession == IF Head(going) \in Links /\ Entering(Head(going)) THEN Stashed(session, Head(going)) ELSE session

Redirect ==
    /\ going # None
    /\ LET to == Guarded(GuardedSession, going)
       IN  /\ to # Admitted
           /\ going' = to
           /\ left' = IF to = ToLogin(going) THEN going ELSE left
    /\ session' = GuardedSession
    /\ UNCHANGED <<account, dead, at, calls, refused, steps>>

(* A page asks the server for what it shows.  The interceptor puts the     *)
(* link's token on calls of the portal and the account's on all others.    *)
Call(of, s) ==
    [of |-> of, back |-> <<>>,
     id |-> IF s = None \/ (of = "portal" /\ s.link # None) THEN None ELSE s.id,
     aged |-> s # None /\ s.aged,
     link |-> IF s # None /\ of = "portal" THEN s.link ELSE None]

(* The internal shell and the portal's have a bell, which loads when the   *)
(* shell is made.                                                          *)
Asked(s, page) ==
    (IF Entering(page) /\ Area(page) \in {"app", "portal"} THEN {Call("bell", s)} ELSE {})
    \cup (IF Area(page) \in {"app", "admin"} THEN {Call("page", s)} ELSE {})
    \cup (IF Area(page) = "portal" THEN {Call("portal", s)} ELSE {})

Arrive ==
    /\ going # None
    /\ Guarded(GuardedSession, going) = Admitted
    /\ session' = GuardedSession
    /\ at' = going
    /\ going' = IF Head(going) = "login" /\ Entering("login") /\ IsAuthenticated(session)
                THEN Landing(session) ELSE None
    /\ calls' = calls \cup Asked(GuardedSession, Head(going))
    /\ left' = IF Head(going) = "login" THEN left ELSE None
    /\ refused' = (Head(going) = "login" /\ refused)
    /\ UNCHANGED <<account, dead, steps>>

---------------------------------------------------------------------------
(* The server refuses a call without an account that is still active; a    *)
(* call of the portal only when it names an account that is not.           *)
Names(c) == c.id # None /\ ~c.aged
Unauthenticated(c) ==
    IF c.of = "portal" THEN Names(c) /\ ~account[c.id].active
                       ELSE ~(Names(c) /\ account[c.id].active)

SignInFrom_Nowhere(address) == <<"login">>
SignInFrom(address) == <<"login">> \o (IF Head(address) = "login" THEN <<>> ELSE address)

(* The interceptor on 401, whoever's call it was: the session is cleared   *)
(* and the tab goes to the sign-in screen.                                 *)
LeftBy401 ==
    CASE session = None /\ left = None -> None
      [] Head(at) = "login" -> IF session = None THEN left ELSE None
      [] OTHER -> at

EndSession_Stay ==
    /\ session' = None
    /\ going' = going
    /\ left' = LeftBy401
    /\ refused' = (refused \/ Head(at) = "login")

EndSession ==
    /\ session' = None
    /\ going' = SignInFrom(at)
    /\ left' = LeftBy401
    /\ refused' = (refused \/ Head(at) = "login")

Refuse(c) ==
    /\ Unauthenticated(c)
    /\ calls' = calls \ {c}
    /\ EndSession
    /\ UNCHANGED <<account, dead, at, steps>>

Answer(c) ==
    /\ ~Unauthenticated(c) /\ c.of # "password"
    /\ calls' = calls \ {c}
    /\ UNCHANGED <<account, dead, session, at, going, left, refused, steps>>

Leave(s, back) == IF back # <<>> THEN back ELSE Landing(s)

PasswordSet(c) ==
    LET user == [account[c.id] EXCEPT !.mustChange = FALSE]
        s == IF session = None THEN None
             ELSE [session EXCEPT !.id = c.id, !.role = user.role, !.mustChange = FALSE,
                                  !.known = ~session.aged]
    IN  /\ c.of = "password" /\ ~Unauthenticated(c)
        /\ account' = [account EXCEPT ![c.id] = user]
        /\ session' = s
        /\ calls' = calls \ {c}
        /\ going' = Leave(s, c.back)
        /\ left' = IF s = None THEN None ELSE left
        /\ UNCHANGED <<dead, at, refused, steps>>

---------------------------------------------------------------------------
Step == steps < MaxSteps /\ steps' = steps + 1
Settled(page) == going = None /\ Head(at) = page

(* The user signs in and is led to the page they came for, past the offer  *)
(* to choose a password when theirs was typed by somebody else.            *)
SignIn(u) ==
    LET to == IF Back(at) # <<>> THEN Back(at) ELSE <<LandingRoute[account[u].role]>>
    IN  /\ Step /\ Settled("login")
        /\ account[u].active
        /\ session' = SignedIn(u)
        /\ going' = IF account[u].mustChange THEN <<"change-password">> \o Back(at) ELSE to
        /\ UNCHANGED <<account, dead, at, calls, left, refused>>

(* A wrong password is a 401 as well.                                      *)
WrongPassword ==
    /\ Step /\ Settled("login")
    /\ EndSession
    /\ UNCHANGED <<account, dead, at, calls>>

Skip ==
    /\ Step /\ Settled("change-password")
    /\ going' = Leave(session, Back(at))
    /\ UNCHANGED <<account, dead, session, at, calls, left, refused>>

ChangePassword ==
    /\ Step /\ Settled("change-password")
    /\ \A c \in calls : c.of # "password"
    /\ calls' = calls \cup {[Call("password", session) EXCEPT !.back = Back(at)]}
    /\ UNCHANGED <<account, dead, session, at, going, left, refused>>

(* What the shells offer.                                                  *)
Nav(s, area) ==
    CASE area = "app" -> {"dashboard"} \cup (IF s # None /\ s.role \in PageRoles["approvals"] THEN {"approvals"} ELSE {})
                             \cup (IF s # None /\ s.role \in {"ADMIN", "SALES_MANAGER"} THEN {"products"} ELSE {})
      [] area = "admin" -> {"dashboard", "products"} \cup (IF s # None /\ s.role = "ADMIN" THEN {"users"} ELSE {})
      [] area = "portal" -> {"quotations"}
      [] OTHER -> {}

Click(page) ==
    /\ Step
    /\ page \in Nav(session, Area(Head(at))) /\ page # Head(at)
    /\ going' = <<page>>
    /\ UNCHANGED <<account, dead, session, at, calls, left, refused>>

SignOut ==
    /\ Step
    /\ session # None
    /\ Area(Head(at)) \in {"app", "admin", "portal"}
    /\ Area(Head(at)) = "portal" => session.id # None
    /\ session' = None
    /\ going' = <<"login">>
    /\ left' = None /\ refused' = FALSE
    /\ UNCHANGED <<account, dead, at, calls>>

(* Typing an address or following a link from a mail loads the application *)
(* again.                                                                  *)
Load(page) ==
    /\ Step
    /\ session' = ReadStorage(session)
    /\ at' = <<"blank">>
    /\ going' = <<page>>
    /\ calls' = {}
    /\ left' = None /\ refused' = FALSE
    /\ UNCHANGED <<account, dead>>

Age ==
    /\ Step
    /\ session # None /\ ~session.aged
    /\ session' = [session EXCEPT !.aged = TRUE]
    /\ UNCHANGED <<account, dead, at, going, calls, left, refused>>

(* An administrator changes a role, switches an account on or off, resets  *)
(* a password; a link is revoked or runs out.                              *)
ChangeAccount(u, new) ==
    /\ Step
    /\ new # account[u]
    /\ (new.role = "CUSTOMER") = (u \in Customers)
    /\ account[u].mustChange => new.mustChange
    /\ account' = [account EXCEPT ![u] = new]
    /\ UNCHANGED <<dead, session, at, going, calls, left, refused>>

EndLink(l) ==
    /\ Step
    /\ l \notin dead
    /\ dead' = dead \cup {l}
    /\ UNCHANGED <<account, session, at, going, calls, left, refused>>

---------------------------------------------------------------------------
Tab == Redirect \/ Arrive
Server == \E c \in calls : Refuse(c) \/ Answer(c) \/ PasswordSet(c)

User ==
    \/ \E u \in Accounts : SignIn(u)
    \/ WrongPassword \/ Skip \/ ChangePassword \/ SignOut
    \/ \E page \in Pages : Click(page) \/ Load(page)

World ==
    \/ Age
    \/ \E u \in Accounts, new \in [role : Roles, active : BOOLEAN, mustChange : BOOLEAN] : ChangeAccount(u, new)
    \/ \E l \in Links : EndLink(l)

Next == Tab \/ Server \/ User \/ World

Spec == Init /\ [][Next]_vars

(* The router finishes what it started and the server answers.             *)
FairSpec == Spec /\ WF_vars(Tab) /\ WF_vars(Server)

---------------------------------------------------------------------------
(* session.store.ts:123, "so "Skip" cannot loop": guards and landing pages *)
(* never send a tab round in circles.                                      *)
NavigationSettles == (going # None) ~> (going = None)

(* auth.guard.ts:8 and api.interceptor.ts:43: whoever signs in again comes *)
(* to the page they wanted or were on, unless the server said 401 to the   *)
(* sign-in screen meanwhile - a wrong password, or a late answer.          *)
SignInReturns ==
    [][(\E u \in Accounts : SignIn(u)) /\ left # None /\ ~refused
        => going' \in {left, <<"change-password">> \o left}]_vars

(* api.interceptor.ts:46: once its session is gone a tab ends up at the    *)
(* sign-in screen, whatever its user clicked in that moment.  Only on the  *)
(* portal a click can win: its calls are answered 403 and not 401.         *)
EndedMeansSignIn ==
    (session = None) ~> (session # None \/ Head(at) = "login" \/ Area(Head(at)) = "portal")

(* CREDENTIALS.md:40, "The portal accepts either path": a session whose    *)
(* link works ends only when its user signs out.                           *)
LinkStaysOpen ==
    [][(session # None /\ session.link # None /\ session.link \notin dead /\ session' = None)
        => SignOut]_vars

(* USER_FLOWS.md:1023, "After signing in they are returned to the page     *)
(* they were on", wrong passwords and late answers included.               *)
SignInAlwaysReturns ==
    [][(\E u \in Accounts : SignIn(u)) /\ left # None
        => going' \in {left, <<"change-password">> \o left}]_vars
=============================================================================
