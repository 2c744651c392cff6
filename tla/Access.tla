------------------------------- MODULE Access -------------------------------
(***************************************************************************)
(* Who may come in: accounts and the administrators who change them, the   *)
(* customer's links to a quotation, and a live connection that was let in  *)
(* through either.                                                         *)
(*                                                                         *)
(* A handler reads, checks what it read, and saves later; save() writes    *)
(* only the fields that differ from what was read.  Between the two any    *)
(* other handler may run, or this one may die.                             *)
(***************************************************************************)
EXTENDS Naturals, FiniteSets, Realtime

CONSTANTS
    Users,          \* account ids
    InternalRoles,  \* the roles of the staff
    Writers,        \* QUOTATION_WRITE_ROLES
    Companies,      \* customer ids
    Quotations,
    CompanyOf,      \* [Quotations -> Companies]
    Links,          \* portal token ids
    Requests,       \* request slots
    MaxWrites       \* bound on handlers started

Roles == InternalRoles \cup {"CUSTOMER"}
Password == {"typed", "own"}   \* by an administrator, or by its holder
Account ==
    [role : Roles, company : Companies \cup {None}, active : BOOLEAN,
     password : Password, mustChange : BOOLEAN]
Link == [quotation : Quotations, user : Users, revoked : BOOLEAN]
Rooms ==
    {UserRoom(u) : u \in Users} \cup {RoleRoom(role) : role \in Roles} \cup {InternalRoom}
        \cup {QuotationRoom(q) : q \in Quotations} \cup {CustomerRoom(c) : c \in Companies}
Identity ==
    [user : Users, role : Roles, company : Companies \cup {None},
     quotation : Quotations \cup {None}, rooms : SUBSET Rooms]

ASSUME RolesAssumption ==
    /\ "ADMIN" \in InternalRoles /\ "CUSTOMER" \notin InternalRoles
    /\ Writers \subseteq InternalRoles
ASSUME CompanyAssumption == CompanyOf \in [Quotations -> Companies]
ASSUME NoneAssumption ==
    /\ None \notin Companies /\ None \notin Quotations /\ None \notin InternalRoles
    /\ None \notin BOOLEAN /\ None \notin Account /\ None \notin Link
ASSUME BoundAssumption == MaxWrites \in Nat

VARIABLES
    user,      \* accounts
    link,      \* PortalToken documents
    expired,   \* the links whose time has passed
    closed,    \* companies that are not active
    sent,      \* quotations whose stage allows a customer link
    request,   \* what each handler holds in memory
    socket,    \* the identity of a live connection, and its rooms
    writes,    \* handlers started so far
    overlap    \* a handler has saved on top of a change it never saw

vars == <<user, link, expired, closed, sent, request, socket, writes, overlap>>

Idle == [at |-> "idle"]

Exists(u) == user[u] # None
ActiveAdmins == {u \in Users : Exists(u) /\ user[u].role = "ADMIN" /\ user[u].active}
LinksOf(q) == {l \in Links : link[l] # None /\ link[l].quotation = q}
Live(l) == link[l] # None /\ ~link[l].revoked

(* requireAuth reads the account again: the role and the activity that     *)
(* count are those stored now.                                             *)
RequireAuth(u, roles) == Exists(u) /\ user[u].active /\ user[u].role \in roles

Start(r) == request[r] = Idle /\ writes < MaxWrites /\ writes' = writes + 1
Hold(r, state) == request' = [request EXCEPT ![r] = state]
Finish(r) == Hold(r, Idle)

Init ==
    /\ user \in {[u \in Users |-> IF u = admin
                                  THEN [role |-> "ADMIN", company |-> None, active |-> TRUE,
                                        password |-> "own", mustChange |-> FALSE]
                                  ELSE None] : admin \in Users}
    /\ link = [l \in Links |-> None]
    /\ expired = {} /\ closed = {} /\ sent = {}
    /\ request = [r \in Requests |-> Idle]
    /\ socket = None
    /\ writes = 0
    /\ overlap = FALSE

---------------------------------------------------------------------------
(* POST /users: a customer account has exactly one company, an active one, *)
(* and nobody else has one.                                                *)
CompanyMayTakeLogins(c) == c \notin closed

SidesMatch(role, company) == role = "CUSTOMER" <=> company # None

CreateRead(r, by, role, company) ==
    /\ Start(r)
    /\ RequireAuth(by, {"ADMIN"})
    /\ SidesMatch(role, company)
    /\ company # None => CompanyMayTakeLogins(company)
    /\ Hold(r, [at |-> "create",
                new |-> [role |-> role, company |-> company, active |-> TRUE,
                         password |-> "typed", mustChange |-> TRUE]])
    /\ UNCHANGED <<user, link, expired, closed, sent, socket, overlap>>

CreateInsert(r, u) ==
    /\ request[r].at = "create"
    /\ ~Exists(u)
    /\ user' = [user EXCEPT ![u] = request[r].new]
    /\ Finish(r)
    /\ UNCHANGED <<link, expired, closed, sent, socket, writes, overlap>>

(* What the Users page sends: only what the administrator changed, a role  *)
(* of a member of the staff or the company of a customer account.          *)
Body ==
    [role : InternalRoles \cup {None}, company : Companies \cup {None},
     active : BOOLEAN \cup {None}, password : BOOLEAN]
Bodies ==
    {body \in Body : /\ body.role = None \/ body.company = None
                     /\ body # [role |-> None, company |-> None, active |-> None, password |-> FALSE]}

(* PATCH /users/:id.  The last active administrator is neither deactivated *)
(* nor given another role; nobody crosses between staff and customers.     *)
TakesAdminAway(body) == body.active = FALSE \/ body.role \notin {None, "ADMIN"}

AnotherAdmin_OrSelf(u) == ActiveAdmins # {}
AnotherAdmin(u) == ActiveAdmins \ {u} # {}

MayPatch_AnyRole(by, u, body) ==
    /\ body.active = FALSE => by # u
    /\ (TakesAdminAway(body) /\ user[u].role = "ADMIN") => AnotherAdmin(u)
    /\ body.company # None => user[u].role = "CUSTOMER" /\ CompanyMayTakeLogins(body.company)

MayPatch(by, u, body) ==
    /\ body.active = FALSE => by # u
    /\ (TakesAdminAway(body) /\ user[u].role = "ADMIN") => AnotherAdmin(u)
    /\ body.role # None => user[u].role # "CUSTOMER"
    /\ body.company # None => user[u].role = "CUSTOMER" /\ CompanyMayTakeLogins(body.company)
Given(value, old) == IF value = None THEN old ELSE value

Patched_NotAsked(old, body) ==
    [role |-> Given(body.role, old.role),
     company |-> Given(body.company, old.company),
     active |-> Given(body.active, old.active),
     password |-> IF body.password THEN "typed" ELSE old.password,
     mustChange |-> old.mustChange]

(* A reset password is one somebody else typed: its holder is asked for a  *)
(* new one.                                                                *)
Patched(old, body) ==
    [role |-> Given(body.role, old.role),
     company |-> Given(body.company, old.company),
     active |-> Given(body.active, old.active),
     password |-> IF body.password THEN "typed" ELSE old.password,
     mustChange |-> body.password \/ old.mustChange]
PatchRead(r, by, u, body) ==
    /\ Start(r)
    /\ RequireAuth(by, {"ADMIN"})
    /\ Exists(u)
    /\ MayPatch(by, u, body)
    /\ Hold(r, [at |-> "save", u |-> u, snap |-> user[u], new |-> Patched(user[u], body),
                hashed |-> body.password, seen |-> user])
    /\ UNCHANGED <<user, link, expired, closed, sent, socket, overlap>>

(* POST /auth/change-password: the holder proves the current password and  *)
(* picks another one.                                                      *)
ChangePasswordRead(r, u) ==
    /\ Start(r)
    /\ RequireAuth(u, Roles)
    /\ Hold(r, [at |-> "save", u |-> u, snap |-> user[u],
                new |-> [user[u] EXCEPT !.password = "own", !.mustChange = FALSE],
                hashed |-> TRUE, seen |-> user])
    /\ UNCHANGED <<user, link, expired, closed, sent, socket, overlap>>

(* What save() leaves of a document: a new hash is always written, another *)
(* field only when it differs from what was read.                          *)
Saved(cur, snap, new, hashed) ==
    [role |-> IF new.role # snap.role THEN new.role ELSE cur.role,
     company |-> IF new.company # snap.company THEN new.company ELSE cur.company,
     active |-> IF new.active # snap.active THEN new.active ELSE cur.active,
     password |-> IF hashed THEN new.password ELSE cur.password,
     mustChange |-> IF new.mustChange # snap.mustChange THEN new.mustChange ELSE cur.mustChange]

SaveAccount(r) ==
    LET h == request[r]
    IN  /\ h.at = "save"
        /\ user' = [user EXCEPT ![h.u] = Saved(@, h.snap, h.new, h.hashed)]
        /\ overlap' = (overlap \/ h.seen # user)
        /\ Finish(r)
        /\ UNCHANGED <<link, expired, closed, sent, socket, writes>>

(* PATCH /customers/:id switches a company on and off.                     *)
SwitchCompany(by, c) ==
    /\ RequireAuth(by, {"ADMIN", "SALES_MANAGER"})
    /\ closed' = IF c \in closed THEN closed \ {c} ELSE closed \cup {c}
    /\ writes < MaxWrites /\ writes' = writes + 1
    /\ UNCHANGED <<user, link, expired, sent, request, socket, overlap>>

---------------------------------------------------------------------------
(* POST /quotations/:id/portal-link: find the contact, revoke every link   *)
(* of the quotation, insert a new one.                                     *)
Contacts(c) == {u \in Users : Exists(u) /\ user[u].company = c /\ user[u].role = "CUSTOMER" /\ user[u].active}

ReissueRead(r, by, q, contact) ==
    /\ Start(r)
    /\ RequireAuth(by, Writers)
    /\ q \in sent
    /\ contact \in Contacts(CompanyOf[q])
    /\ Hold(r, [at |-> "revoke", q |-> q, contact |-> contact])
    /\ UNCHANGED <<user, link, expired, closed, sent, socket, overlap>>

Revoked_Expired(q) ==
    [l \in Links |-> IF l \in LinksOf(q) \cap expired THEN [link[l] EXCEPT !.revoked = TRUE] ELSE link[l]]
Revoked(q) ==
    [l \in Links |-> IF l \in LinksOf(q) THEN [link[l] EXCEPT !.revoked = TRUE] ELSE link[l]]

ReissueRevoke(r) ==
    LET h == request[r]
    IN  /\ h.at = "revoke"
        /\ link' = Revoked(h.q)
        /\ Hold(r, [at |-> "insert", q |-> h.q, contact |-> h.contact, seen |-> LinksOf(h.q)])
        /\ UNCHANGED <<user, expired, closed, sent, socket, writes, overlap>>

ReissueInsert(r, l) ==
    LET h == request[r]
    IN  /\ h.at = "insert"
        /\ link[l] = None
        /\ link' = [link EXCEPT ![l] = [quotation |-> h.q, user |-> h.contact, revoked |-> FALSE]]
        /\ overlap' = (overlap \/ h.seen # LinksOf(h.q))
        /\ Finish(r)
        /\ UNCHANGED <<user, expired, closed, sent, socket, writes>>

Expire(l) ==
    /\ Live(l) /\ l \notin expired
    /\ expired' = expired \cup {l}
    /\ UNCHANGED <<user, link, closed, sent, request, socket, writes, overlap>>

(* A submission takes a quotation out of DRAFT, a return puts it back.     *)
MoveStage(q) ==
    /\ sent' = IF q \in sent THEN sent \ {q} ELSE sent \cup {q}
    /\ writes < MaxWrites /\ writes' = writes + 1
    /\ UNCHANGED <<user, link, expired, closed, request, socket, overlap>>

(* The process dies, or a database call fails, between two accesses.       *)
Fail(r) ==
    /\ request[r] # Idle
    /\ Finish(r)
    /\ UNCHANGED <<user, link, expired, closed, sent, socket, writes, overlap>>

---------------------------------------------------------------------------
(* A live connection.  Its identity is resolved once, from the link or the *)
(* account as they are stored then, and so are the rooms it joins at once. *)
Connected(u, role, company, quotation) ==
    LET id == [user |-> u, role |-> role, company |-> company, quotation |-> quotation]
    IN  socket' = [user |-> u, role |-> role, company |-> company, quotation |-> quotation,
                   rooms |-> RoomsFor(id)]

ConnectByLink(l) ==
    /\ socket = None
    /\ Live(l) /\ l \notin expired
    /\ user[link[l].user].active
    /\ Connected(link[l].user, "CUSTOMER", CompanyOf[link[l].quotation], link[l].quotation)
    /\ UNCHANGED <<user, link, expired, closed, sent, request, writes, overlap>>

ConnectByAccount(u) ==
    /\ socket = None
    /\ RequireAuth(u, Roles)
    /\ Connected(u, user[u].role, user[u].company, None)
    /\ UNCHANGED <<user, link, expired, closed, sent, request, writes, overlap>>

MayWatch(id, q) ==
    \/ id.role # "CUSTOMER"
    \/ id.quotation = q
    \/ id.quotation = None /\ id.company = CompanyOf[q]

Subscribe(q) ==
    /\ socket # None
    /\ MayWatch(socket, q)
    /\ socket' = [socket EXCEPT !.rooms = @ \cup {QuotationRoom(q)}]
    /\ UNCHANGED <<user, link, expired, closed, sent, request, writes, overlap>>

Unsubscribe(q) ==
    /\ socket # None
    /\ q # socket.quotation
    /\ socket' = [socket EXCEPT !.rooms = @ \ {QuotationRoom(q)}]
    /\ UNCHANGED <<user, link, expired, closed, sent, request, writes, overlap>>

Disconnect ==
    /\ socket # None
    /\ socket' = None
    /\ UNCHANGED <<user, link, expired, closed, sent, request, writes, overlap>>

---------------------------------------------------------------------------
Begin(r) ==
    \E by \in Users :
        \/ \E role \in Roles, company \in Companies \cup {None} : CreateRead(r, by, role, company)
        \/ \E u \in Users, body \in Bodies : PatchRead(r, by, u, body)
        \/ ChangePasswordRead(r, by)
        \/ \E q \in Quotations, contact \in Users : ReissueRead(r, by, q, contact)

Continue(r) ==
    \/ \E u \in Users : CreateInsert(r, u)
    \/ SaveAccount(r)
    \/ ReissueRevoke(r)
    \/ \E l \in Links : ReissueInsert(r, l)

Connection ==
    \/ \E l \in Links : ConnectByLink(l)
    \/ \E u \in Users : ConnectByAccount(u)
    \/ \E q \in Quotations : Subscribe(q) \/ Unsubscribe(q)
    \/ Disconnect

Next ==
    \/ \E r \in Requests : Begin(r) \/ Continue(r) \/ Fail(r)
    \/ \E by \in Users, c \in Companies : SwitchCompany(by, c)
    \/ \E q \in Quotations : MoveStage(q)
    \/ \E l \in Links : Expire(l)
    \/ Connection

Spec == Init /\ [][Next]_vars

---------------------------------------------------------------------------
(* A customer account has exactly one company and nobody else has one; a   *)
(* connection stays in the rooms its identity is entitled to, and beside   *)
(* them is in those of quotations it may watch only: a customer's are of   *)
(* that company, a link's is its own.                                      *)
RoomsAreEntitled(id) ==
    /\ RoomsFor(id) \subseteq id.rooms
    /\ id.rooms \subseteq RoomsFor(id) \cup {QuotationRoom(q) : q \in {p \in Quotations : MayWatch(id, p)}}

TypeOK ==
    /\ user \in [Users -> Account \cup {None}]
    /\ \A u \in Users : Exists(u) => SidesMatch(user[u].role, user[u].company)
    /\ link \in [Links -> Link \cup {None}]
    /\ expired \subseteq Links /\ closed \subseteq Companies /\ sent \subseteq Quotations
    /\ socket \in Identity \cup {None}
    /\ socket # None =>
          /\ SidesMatch(socket.role, socket.company)
          /\ socket.quotation # None => socket.role = "CUSTOMER" /\ socket.company = CompanyOf[socket.quotation]
          /\ RoomsAreEntitled(socket)
    /\ writes \in 0..MaxWrites
    /\ overlap \in BOOLEAN

(* A connection outlives changes of the account it was resolved from       *)
(* (server.ts:153), but what it hears stays right for whoever holds it: a  *)
(* customer hears the deals of the company it connected for, on every page *)
(* or in its link's, and nothing that is the staff's alone (realtime.ts:   *)
(* 179, "Never contains a CUSTOMER socket"); the staff hear orders, stock  *)
(* and thresholds, an owner the deal, the thread and the alerts; and the   *)
(* role the chain waits for hears the approval, as long as it is held      *)
(* (emit.ts:83, "nobody refreshes to discover work arrived").              *)
Told(rooms) == socket.rooms \cap rooms # {}
IsStaff(u) == Exists(u) /\ user[u].role # "CUSTOMER"

CustomerHears ==
    /\ ~Told(StockUpdated) /\ ~Told(ConfigUpdated)
    /\ \A q \in Quotations, owner \in {u \in Users : IsStaff(u)} :
          LET e == News(q, CompanyOf[q], owner)
              dealNews == {QuotationUpdated(e), NegotiationEvent(e), OrderUpdated(e),
                           FulfillmentUpdated(e), InvoiceUpdated(e), SubscriptionUpdated(e)}
          IN  /\ ~Told(AlertUpdated(e))
              /\ IF socket.company = CompanyOf[q]
                 THEN \A rooms \in dealNews : Told(rooms)
                 ELSE \A rooms \in dealNews \cup {ApprovalUpdated(e)} : ~Told(rooms)

StaffHears ==
    /\ Told(StockUpdated) /\ Told(ConfigUpdated)
    /\ \A q \in Quotations, owner \in {u \in Users : IsStaff(u)} :
          LET e == News(q, CompanyOf[q], owner)
          IN  /\ Told(OrderUpdated(e)) /\ Told(FulfillmentUpdated(e))
              /\ (socket.user = owner \/ QuotationRoom(q) \in socket.rooms) =>
                    Told(QuotationUpdated(e)) /\ Told(ApprovalUpdated(e)) /\ Told(NegotiationEvent(e))
              /\ socket.user = owner => Told(AlertUpdated(e))
              /\ (user[socket.user].role = socket.role /\ socket.role \in {"SALES_MANAGER", "FINANCE", "ADMIN"}) =>
                    Told(ApprovalUpdated(e))

TheConcernedHear ==
    socket # None => IF IsStaff(socket.user) THEN StaffHears ELSE CustomerHears

(* users.routes.ts:146, "Losing the last active Admin locks everyone out": *)
(* an active administrator remains, unless two changes of accounts         *)
(* overlapped.                                                             *)
AnAdminRemains == overlap \/ ActiveAdmins # {}

(* users.page.ts:527, "will be asked to choose their own password at their *)
(* next sign-in": an account on a password an administrator typed is asked *)
(* for another, unless two changes overlapped - then the reset may be      *)
(* stored and its flag be left at what the holder's own change made it.    *)
TypedIsReplaced ==
    overlap \/ \A u \in Users : (Exists(u) /\ user[u].password = "typed") => user[u].mustChange

(* quotations.routes.ts:678, "Every live token for the quotation is        *)
(* revoked and a single fresh one is minted": a quotation has at most one  *)
(* link that is not revoked, unless two reissues of it overlapped.         *)
OneLiveLink ==
    overlap \/ \A l, m \in Links :
        (Live(l) /\ Live(m) /\ link[l].quotation = link[m].quotation) => l = m

(* server.ts:9, a magic-link token "unlocks exactly one quotation": not    *)
(* so for news, which a link's connection hears of the whole company.      *)
LinkHearsItsQuotation ==
    (socket # None /\ socket.quotation # None) =>
        \A q \in Quotations \ {socket.quotation}, owner \in {u \in Users : IsStaff(u)} :
            ~Told(OrderUpdated(News(q, CompanyOf[q], owner)))

(* server.ts:63, "a deactivated user must not be able to hold a socket     *)
(* open on a token minted before they were switched off": the account is   *)
(* looked at when the connection is made, and never again.                 *)
NoSocketWhenSwitchedOff == socket # None => user[socket.user].active
=============================================================================
