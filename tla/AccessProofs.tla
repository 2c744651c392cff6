---------------------------- MODULE AccessProofs ----------------------------
(***************************************************************************)
(* That accounts stay on their side, that an administrator remains, that a *)
(* typed password is replaced and that a quotation has one live link, for  *)
(* any accounts, companies, links and number of handlers.                  *)
(*                                                                         *)
(* What a handler holds since it read is sound by itself: were it saved on *)
(* the accounts it saw, the result would have the properties.  Saved on    *)
(* anything else it counts as an overlap.                                  *)
(***************************************************************************)
EXTENDS Access, TLAPS

CreateRequest == [at : {"create"}, new : Account]
SaveRequest ==
    [at : {"save"}, u : Users, snap : Account, new : Account, hashed : BOOLEAN,
     seen : [Users -> Account \cup {None}]]
RevokeRequest == [at : {"revoke"}, q : Quotations, contact : Users]
InsertRequest == [at : {"insert"}, q : Quotations, contact : Users, seen : SUBSET Links]

RequestType ==
    request \in [Requests -> {Idle} \cup CreateRequest \cup SaveRequest \cup RevokeRequest \cup InsertRequest]

SameSide(a, b) == a.role = "CUSTOMER" <=> b.role = "CUSTOMER"
IsActiveAdmin(a) == a # None /\ a.role = "ADMIN" /\ a.active
Asked(a) == a.password = "typed" => a.mustChange

CreateSound(h) == SidesMatch(h.new.role, h.new.company) /\ Asked(h.new)

(* Saved on what it saw, a change keeps an administrator and asks for a    *)
(* typed password.                                                         *)
KeepsAnAdmin(h) == \E a \in Users : IsActiveAdmin(IF a = h.u THEN h.new ELSE h.seen[a])

SaveSound(h) ==
    /\ Exists(h.u)
    /\ h.seen[h.u] = h.snap
    /\ SidesMatch(h.new.role, h.new.company)
    /\ SameSide(h.new, h.snap) /\ SameSide(user[h.u], h.snap)
    /\ ~h.hashed => h.new.password = h.snap.password
    /\ overlap \/ (KeepsAnAdmin(h) /\ Asked(h.new))

InsertSound(h) == \A l \in h.seen : link[l] # None /\ link[l].quotation = h.q /\ link[l].revoked

HeldSound ==
    \A r \in Requests :
        /\ request[r].at = "create" => CreateSound(request[r])
        /\ request[r].at = "save" => SaveSound(request[r])
        /\ request[r].at = "insert" => InsertSound(request[r])

AccessInv ==
    /\ TypeOK /\ RequestType /\ HeldSound
    /\ AnAdminRemains /\ TypedIsReplaced /\ OneLiveLink

---------------------------------------------------------------------------
(* The first administrator is there at the start.                          *)
LEMMA InitIsSound == Init => AccessInv
<1> SUFFICES ASSUME Init PROVE AccessInv
  OBVIOUS
<1>0. /\ link = [l \in Links |-> None]
      /\ expired = {} /\ closed = {} /\ sent = {}
      /\ request = [r \in Requests |-> Idle]
      /\ socket = None /\ writes = 0 /\ overlap = FALSE
  BY DEF Init
<1>1. PICK admin \in Users :
         user = [u \in Users |-> IF u = admin
                                 THEN [role |-> "ADMIN", company |-> None, active |-> TRUE,
                                       password |-> "own", mustChange |-> FALSE]
                                 ELSE None]
  BY DEF Init
<1>2. user[admin] \in Account
  BY <1>1, RolesAssumption DEF Account, Roles, Password
<1>3. TypeOK
  <2>1. user \in [Users -> Account \cup {None}]
    BY <1>1, <1>2
  <2>2. \A u \in Users : Exists(u) => SidesMatch(user[u].role, user[u].company)
    BY <1>1 DEF Exists, SidesMatch
  <2>3. link \in [Links -> Link \cup {None}]
    BY <1>0
  <2>4. writes \in 0..MaxWrites
    BY <1>0, BoundAssumption
  <2> QED BY <1>0, <2>1, <2>2, <2>3, <2>4 DEF TypeOK
<1>4. RequestType /\ HeldSound
  BY <1>0 DEF RequestType, HeldSound, Idle
<1>5. admin \in ActiveAdmins
  BY <1>1, <1>2, NoneAssumption DEF ActiveAdmins, Exists
<1>6. AnAdminRemains /\ TypedIsReplaced /\ OneLiveLink
  BY <1>0, <1>1, <1>5 DEF AnAdminRemains, TypedIsReplaced, OneLiveLink, Live, Exists
<1> QED BY <1>3, <1>4, <1>6 DEF AccessInv

(* A step that leaves the accounts alone and keeps `overlap` keeps what is *)
(* said of them.                                                           *)
LEMMA AccountsUntouched ==
    ASSUME AnAdminRemains, TypedIsReplaced, UNCHANGED <<user, overlap>>
    PROVE  AnAdminRemains' /\ TypedIsReplaced'
  BY DEF AnAdminRemains, TypedIsReplaced, ActiveAdmins, Exists

LEMMA LinksUntouched ==
    ASSUME OneLiveLink, UNCHANGED <<link, overlap>>
    PROVE  OneLiveLink'
  BY DEF OneLiveLink, Live

(* A handler that starts holds a sound request; the others hold theirs.    *)
LEMMA OthersKeepTheirs ==
    ASSUME RequestType, HeldSound, NEW r \in Requests, NEW state,
           UNCHANGED <<user, link, overlap>>, Hold(r, state),
           state \in {Idle} \cup CreateRequest \cup SaveRequest \cup RevokeRequest \cup InsertRequest,
           state.at = "create" => CreateSound(state),
           state.at = "save" => SaveSound(state),
           state.at = "insert" => InsertSound(state)
    PROVE  RequestType' /\ HeldSound'
<1>1. RequestType'
  BY DEF RequestType, Hold
<1>2. \A p \in Requests : request'[p] = IF p = r THEN state ELSE request[p]
  BY DEF RequestType, Hold
<1>3. ASSUME NEW p \in Requests
      PROVE  /\ request'[p].at = "create" => CreateSound(request[p])'
             /\ request'[p].at = "save" => SaveSound(request[p])'
             /\ request'[p].at = "insert" => InsertSound(request[p])'
  <2>1. CASE p = r
    BY <1>2, <2>1 DEF CreateSound, SaveSound, InsertSound, Exists
  <2>2. CASE p # r
    BY <1>2, <2>2 DEF HeldSound, CreateSound, SaveSound, InsertSound, Exists
  <2> QED BY <2>1, <2>2
<1> QED BY <1>1, <1>3 DEF HeldSound

LEMMA IdleIsSound ==
    /\ Idle \in {Idle} \cup CreateRequest \cup SaveRequest \cup RevokeRequest \cup InsertRequest
    /\ Idle.at \notin {"create", "save", "insert"}
  BY DEF Idle

LEMMA TypesUntouched ==
    ASSUME TypeOK, UNCHANGED <<user, link, expired, closed, sent, socket, overlap>>,
           writes' \in 0..MaxWrites
    PROVE  TypeOK'
  BY DEF TypeOK, Exists

LEMMA StartedIsBounded ==
    ASSUME TypeOK, NEW r, Start(r)
    PROVE  writes' \in 0..MaxWrites
  BY BoundAssumption DEF TypeOK, Start

(* A handler that has only read leaves everything sound when its request is. *)
LEMMA ReadingIsSound ==
    ASSUME AccessInv, NEW r \in Requests, NEW state, Start(r), Hold(r, state),
           UNCHANGED <<user, link, expired, closed, sent, socket, overlap>>,
           state \in CreateRequest \cup SaveRequest \cup RevokeRequest \cup InsertRequest,
           state.at = "create" => CreateSound(state),
           state.at = "save" => SaveSound(state),
           state.at = "insert" => InsertSound(state)
    PROVE  AccessInv'
<1>1. TypeOK /\ RequestType /\ HeldSound /\ AnAdminRemains /\ TypedIsReplaced /\ OneLiveLink
  BY DEF AccessInv
<1>2. TypeOK'
  BY <1>1, StartedIsBounded, TypesUntouched
<1>3. RequestType' /\ HeldSound'
  BY <1>1, OthersKeepTheirs
<1>4. AnAdminRemains' /\ TypedIsReplaced' /\ OneLiveLink'
  BY <1>1, AccountsUntouched, LinksUntouched
<1> QED BY <1>2, <1>3, <1>4 DEF AccessInv

LEMMA CreateReadIsSound ==
    ASSUME AccessInv, NEW r \in Requests, NEW by \in Users,
           NEW role \in Roles, NEW company \in Companies \cup {None},
           CreateRead(r, by, role, company)
    PROVE  AccessInv'
<1> DEFINE new == [role |-> role, company |-> company, active |-> TRUE,
                   password |-> "typed", mustChange |-> TRUE]
           state == [at |-> "create", new |-> new]
<1>1. new \in Account
  BY DEF Account, Password
<1>2. CreateSound(state)
  BY DEF CreateRead, CreateSound, Asked
<1>3. state \in CreateRequest /\ state.at = "create"
  BY <1>1 DEF CreateRequest
<1>4. Start(r) /\ Hold(r, state) /\ UNCHANGED <<user, link, expired, closed, sent, socket, overlap>>
  BY DEF CreateRead
<1> HIDE DEF state
<1> QED BY <1>2, <1>3, <1>4, ReadingIsSound

(* What an administrator asks for leaves somebody in charge and asks the   *)
(* holder of a reset password for another.                                 *)
LEMMA PatchedIsSound ==
    ASSUME AccessInv, NEW by \in Users, NEW u \in Users, NEW body \in Bodies,
           Exists(u), MayPatch(by, u, body)
    PROVE  /\ Patched(user[u], body) \in Account
           /\ SidesMatch(Patched(user[u], body).role, Patched(user[u], body).company)
           /\ SameSide(Patched(user[u], body), user[u])
           /\ ~body.password => Patched(user[u], body).password = user[u].password
           /\ overlap \/ Asked(Patched(user[u], body))
           /\ overlap \/ \E a \in Users : IsActiveAdmin(IF a = u THEN Patched(user[u], body) ELSE user[a])
<1> DEFINE old == user[u]
           new == Patched(user[u], body)
<1>1. old \in Account /\ SidesMatch(old.role, old.company)
  BY DEF AccessInv, TypeOK, Exists
<1>2. body \in Body
  BY DEF Bodies
<1>3. new \in Account
  BY <1>1, <1>2 DEF Patched, Given, Account, Body, Roles, Password
<1>4. /\ new.role = Given(body.role, old.role) /\ new.company = Given(body.company, old.company)
      /\ new.active = Given(body.active, old.active)
      /\ new.password = IF body.password THEN "typed" ELSE old.password
      /\ new.mustChange = (body.password \/ old.mustChange)
  BY DEF Patched
<1>5. SidesMatch(new.role, new.company) /\ SameSide(new, old)
  BY <1>1, <1>2, <1>4, RolesAssumption, NoneAssumption DEF MayPatch, SidesMatch, SameSide, Given, Body
<1>6. overlap \/ Asked(new)
  BY <1>1, <1>4 DEF AccessInv, TypedIsReplaced, Asked, Exists
<1>7. ASSUME ~overlap PROVE \E a \in Users : IsActiveAdmin(IF a = u THEN new ELSE user[a])
  <2>1. PICK admin \in ActiveAdmins : TRUE
    BY <1>7 DEF AccessInv, AnAdminRemains
  <2>2. admin \in Users /\ IsActiveAdmin(user[admin])
    BY <2>1 DEF ActiveAdmins, IsActiveAdmin, Exists
  <2>3. CASE admin # u
    BY <2>2, <2>3
  <2>4. CASE admin = u /\ ~TakesAdminAway(body)
    <3>1. new.role = "ADMIN" /\ new.active
      BY <1>1, <1>2, <1>4, <2>2, <2>4 DEF TakesAdminAway, IsActiveAdmin, Given, Body, Account
    <3> QED BY <1>3, <3>1, NoneAssumption DEF IsActiveAdmin
  <2>5. CASE admin = u /\ TakesAdminAway(body)
    <3>1. PICK other \in ActiveAdmins \ {u} : TRUE
      BY <2>2, <2>5 DEF MayPatch, AnotherAdmin, IsActiveAdmin
    <3>2. other \in Users /\ other # u /\ IsActiveAdmin(user[other])
      BY <3>1 DEF ActiveAdmins, IsActiveAdmin, Exists
    <3> QED BY <3>2
  <2> QED BY <2>3, <2>4, <2>5
<1> QED BY <1>3, <1>4, <1>5, <1>6, <1>7

LEMMA PatchReadIsSound ==
    ASSUME AccessInv, NEW r \in Requests, NEW by \in Users, NEW u \in Users,
           NEW body \in Bodies, PatchRead(r, by, u, body)
    PROVE  AccessInv'
<1> DEFINE new == Patched(user[u], body)
           state == [at |-> "save", u |-> u, snap |-> user[u], new |-> new,
                     hashed |-> body.password, seen |-> user]
<1>1. Exists(u) /\ MayPatch(by, u, body)
  BY DEF PatchRead
<1>2. /\ new \in Account /\ SidesMatch(new.role, new.company) /\ SameSide(new, user[u])
      /\ ~body.password => new.password = user[u].password
      /\ overlap \/ (Asked(new) /\ \E a \in Users : IsActiveAdmin(IF a = u THEN new ELSE user[a]))
  BY <1>1, PatchedIsSound
<1> HIDE DEF new
<1>3. user \in [Users -> Account \cup {None}] /\ user[u] \in Account
  BY <1>1 DEF AccessInv, TypeOK, Exists
<1>4. body.password \in BOOLEAN
  BY DEF Bodies, Body
<1>5. state \in SaveRequest /\ state.at = "save"
  BY <1>2, <1>3, <1>4 DEF SaveRequest
<1>6. SaveSound(state)
  BY <1>1, <1>2 DEF SaveSound, KeepsAnAdmin, SameSide
<1>7. Start(r) /\ Hold(r, state) /\ UNCHANGED <<user, link, expired, closed, sent, socket, overlap>>
  BY DEF PatchRead, new
<1> HIDE DEF state
<1> QED BY <1>5, <1>6, <1>7, ReadingIsSound

LEMMA ChangePasswordReadIsSound ==
    ASSUME AccessInv, NEW r \in Requests, NEW u \in Users, ChangePasswordRead(r, u)
    PROVE  AccessInv'
<1> DEFINE new == [user[u] EXCEPT !.password = "own", !.mustChange = FALSE]
           state == [at |-> "save", u |-> u, snap |-> user[u], new |-> new,
                     hashed |-> TRUE, seen |-> user]
<1>1. /\ Exists(u) /\ user \in [Users -> Account \cup {None}] /\ user[u] \in Account
      /\ SidesMatch(user[u].role, user[u].company)
  BY DEF ChangePasswordRead, RequireAuth, AccessInv, TypeOK, Exists
<1>2. /\ new \in Account /\ new.role = user[u].role /\ new.company = user[u].company
      /\ new.active = user[u].active /\ new.password = "own"
  BY <1>1 DEF Account, Password
<1>3. ASSUME ~overlap PROVE \E a \in Users : IsActiveAdmin(IF a = u THEN new ELSE user[a])
  <2>1. PICK admin \in ActiveAdmins : TRUE
    BY <1>3 DEF AccessInv, AnAdminRemains
  <2>2. admin \in Users /\ IsActiveAdmin(user[admin])
    BY <2>1 DEF ActiveAdmins, IsActiveAdmin, Exists
  <2>3. IsActiveAdmin(IF admin = u THEN new ELSE user[admin])
    BY <1>2, <2>2, NoneAssumption DEF IsActiveAdmin
  <2> QED BY <2>2, <2>3
<1> HIDE DEF new
<1>4. state \in SaveRequest /\ state.at = "save"
  BY <1>1, <1>2 DEF SaveRequest
<1>5. SaveSound(state)
  BY <1>1, <1>2, <1>3 DEF SaveSound, KeepsAnAdmin, SameSide, Asked
<1>6. Start(r) /\ Hold(r, state) /\ UNCHANGED <<user, link, expired, closed, sent, socket, overlap>>
  BY DEF ChangePasswordRead, new
<1> HIDE DEF state
<1> QED BY <1>4, <1>5, <1>6, ReadingIsSound

LEMMA ReissueReadIsSound ==
    ASSUME AccessInv, NEW r \in Requests, NEW by \in Users, NEW q \in Quotations,
           NEW contact \in Users, ReissueRead(r, by, q, contact)
    PROVE  AccessInv'
<1> DEFINE state == [at |-> "revoke", q |-> q, contact |-> contact]
<1>1. state \in RevokeRequest /\ state.at = "revoke"
  BY DEF RevokeRequest
<1>2. Start(r) /\ Hold(r, state) /\ UNCHANGED <<user, link, expired, closed, sent, socket, overlap>>
  BY DEF ReissueRead
<1> HIDE DEF state
<1> QED BY <1>1, <1>2, ReadingIsSound

---------------------------------------------------------------------------
(* A handler that ends, and leaves what is said of the others true.        *)
LEMMA EndingIsSound ==
    ASSUME RequestType, NEW r \in Requests, Finish(r),
           \A p \in Requests \ {r} :
               /\ request[p].at = "create" => CreateSound(request[p])
               /\ request[p].at = "save" => SaveSound(request[p])'
               /\ request[p].at = "insert" => InsertSound(request[p])'
    PROVE  RequestType' /\ HeldSound'
<1>1. RequestType'
  BY DEF RequestType, Finish, Hold
<1>2. \A p \in Requests : request'[p] = IF p = r THEN Idle ELSE request[p]
  BY DEF RequestType, Finish, Hold
<1>3. ASSUME NEW p \in Requests
      PROVE  /\ request'[p].at = "create" => CreateSound(request'[p])
             /\ request'[p].at = "save" => SaveSound(request[p])'
             /\ request'[p].at = "insert" => InsertSound(request[p])'
  <2>1. CASE p = r
    BY <1>2, <2>1, IdleIsSound
  <2>2. CASE p # r
    BY <1>2, <2>2
  <2> QED BY <2>1, <2>2
<1> QED BY <1>1, <1>3 DEF HeldSound, CreateSound, SaveSound, InsertSound

LEMMA CreateInsertIsSound ==
    ASSUME AccessInv, NEW r \in Requests, NEW u \in Users, CreateInsert(r, u)
    PROVE  AccessInv'
<1> DEFINE new == request[r].new
<1>0. TypeOK /\ RequestType /\ HeldSound /\ AnAdminRemains /\ TypedIsReplaced /\ OneLiveLink
  BY DEF AccessInv
<1>1. new \in Account /\ SidesMatch(new.role, new.company) /\ Asked(new)
  BY <1>0 DEF CreateInsert, RequestType, HeldSound, CreateSound, Idle, CreateRequest, SaveRequest,
              RevokeRequest, InsertRequest
<1> HIDE DEF new
<1>2. /\ user' = [user EXCEPT ![u] = new] /\ user[u] = None
      /\ UNCHANGED <<link, expired, closed, sent, socket, writes, overlap>> /\ Finish(r)
  BY DEF CreateInsert, Exists, new
<1>3. user \in [Users -> Account \cup {None}]
  BY <1>0 DEF TypeOK
<1>4. TypeOK'
  BY <1>0, <1>1, <1>2, <1>3, NoneAssumption DEF TypeOK, Exists
<1>5. ASSUME NEW p \in Requests \ {r}
      PROVE  /\ request[p].at = "create" => CreateSound(request[p])
             /\ request[p].at = "save" => SaveSound(request[p])'
             /\ request[p].at = "insert" => InsertSound(request[p])'
  <2>0. request'[p] = request[p]
    BY <1>2 DEF Finish, Hold
  <2>1. request[p].at = "save" => SaveSound(request[p])'
    <3> SUFFICES ASSUME request[p].at = "save" PROVE SaveSound(request[p])'
      OBVIOUS
    <3>1. SaveSound(request[p])
      BY <1>0 DEF HeldSound
    <3>2. request[p].u # u /\ user'[request[p].u] = user[request[p].u]
      BY <1>2, <1>3, <3>1 DEF SaveSound, Exists
    <3> QED BY <1>2, <2>0, <3>1, <3>2 DEF SaveSound, Exists, KeepsAnAdmin
  <2>2. request[p].at = "insert" => InsertSound(request[p])'
    BY <1>0, <1>2, <2>0 DEF HeldSound, InsertSound
  <2> QED BY <1>0, <2>1, <2>2 DEF HeldSound
<1>6. RequestType' /\ HeldSound'
  BY <1>0, <1>2, <1>5, EndingIsSound
<1>7. ActiveAdmins \subseteq ActiveAdmins'
  BY <1>2, <1>3 DEF ActiveAdmins, Exists
<1>8. AnAdminRemains' /\ TypedIsReplaced' /\ OneLiveLink'
  <2>1. AnAdminRemains'
    BY <1>0, <1>2, <1>7 DEF AnAdminRemains
  <2>2. TypedIsReplaced'
    BY <1>0, <1>1, <1>2, <1>3 DEF TypedIsReplaced, Exists, Asked
  <2> QED BY <1>0, <1>2, <2>1, <2>2, LinksUntouched
<1> QED BY <1>4, <1>6, <1>8 DEF AccessInv

(* What a save leaves of an account stays on its side of the house, and is *)
(* what the handler meant when nothing changed in between.                 *)
LEMMA SavedStaysOnItsSide ==
    ASSUME NEW cur \in Account, NEW snap \in Account, NEW new \in Account, NEW hashed \in BOOLEAN,
           SidesMatch(cur.role, cur.company), SidesMatch(new.role, new.company),
           SameSide(new, snap), SameSide(cur, snap)
    PROVE  /\ Saved(cur, snap, new, hashed) \in Account
           /\ SidesMatch(Saved(cur, snap, new, hashed).role, Saved(cur, snap, new, hashed).company)
           /\ SameSide(Saved(cur, snap, new, hashed), cur)
<1>1. Saved(cur, snap, new, hashed) \in Account
  BY DEF Saved, Account
<1>2. /\ Saved(cur, snap, new, hashed).role = IF new.role # snap.role THEN new.role ELSE cur.role
      /\ Saved(cur, snap, new, hashed).company = IF new.company # snap.company THEN new.company ELSE cur.company
  BY DEF Saved
<1> QED BY <1>1, <1>2 DEF SidesMatch, SameSide

LEMMA SavedUnchangedIsNew ==
    ASSUME NEW snap \in Account, NEW new \in Account, NEW hashed \in BOOLEAN,
           ~hashed => new.password = snap.password
    PROVE  Saved(snap, snap, new, hashed) = new
  BY DEF Saved, Account

LEMMA SaveAccountIsSound ==
    ASSUME AccessInv, NEW r \in Requests, SaveAccount(r)
    PROVE  AccessInv'
<1>0. TypeOK /\ RequestType /\ HeldSound /\ AnAdminRemains /\ TypedIsReplaced /\ OneLiveLink
  BY DEF AccessInv
<1>1. PICK h : h = request[r]
  OBVIOUS
<1>2. h \in SaveRequest /\ SaveSound(h)
  BY <1>0, <1>1 DEF SaveAccount, RequestType, HeldSound, Idle, CreateRequest, SaveRequest,
                    RevokeRequest, InsertRequest
<1>3. PICK cur : cur = user[h.u]
  OBVIOUS
<1>4. PICK now : now = Saved(cur, h.snap, h.new, h.hashed)
  OBVIOUS
<1>5. /\ user' = [user EXCEPT ![h.u] = now] /\ overlap' = (overlap \/ h.seen # user)
      /\ UNCHANGED <<link, expired, closed, sent, socket, writes>> /\ Finish(r)
  BY <1>1, <1>3, <1>4 DEF SaveAccount
<1>6. user \in [Users -> Account \cup {None}] /\ h.u \in Users /\ overlap \in BOOLEAN
  BY <1>0, <1>2 DEF TypeOK, SaveRequest
<1>7. cur \in Account /\ SidesMatch(cur.role, cur.company) /\ SameSide(cur, h.snap)
  BY <1>0, <1>2, <1>3, <1>6 DEF TypeOK, SaveSound, Exists
<1>8. now \in Account /\ SidesMatch(now.role, now.company) /\ SameSide(now, cur)
  BY <1>2, <1>4, <1>7, SavedStaysOnItsSide DEF SaveRequest, SaveSound
<1>9. now # None
  BY <1>8, NoneAssumption
<1>10. TypeOK'
  BY <1>0, <1>5, <1>6, <1>8 DEF TypeOK, Exists
<1>11. ASSUME NEW p \in Requests \ {r}
       PROVE  /\ request[p].at = "create" => CreateSound(request[p])
              /\ request[p].at = "save" => SaveSound(request[p])'
              /\ request[p].at = "insert" => InsertSound(request[p])'
  <2>0. request'[p] = request[p]
    BY <1>5 DEF Finish, Hold
  <2>1. request[p].at = "save" => SaveSound(request[p])'
    <3> SUFFICES ASSUME request[p].at = "save" PROVE SaveSound(request[p])'
      OBVIOUS
    <3>1. PICK g : g = request[p]
      OBVIOUS
    <3>2. SaveSound(g)
      BY <1>0, <3>1 DEF HeldSound
    <3>3. user'[g.u] = IF g.u = h.u THEN now ELSE user[g.u]
      BY <1>5, <1>6, <3>1, <3>2 DEF SaveSound, Exists
    <3>4. user'[g.u] # None /\ SameSide(user'[g.u], g.snap)
      BY <1>3, <1>8, <1>9, <3>2, <3>3 DEF SaveSound, Exists, SameSide
    <3>5. overlap' \/ (KeepsAnAdmin(g) /\ Asked(g.new))
      BY <1>5, <3>2 DEF SaveSound
    <3> QED BY <2>0, <3>1, <3>2, <3>4, <3>5 DEF SaveSound, Exists, KeepsAnAdmin
  <2>2. request[p].at = "insert" => InsertSound(request[p])'
    BY <1>0, <1>5, <2>0 DEF HeldSound, InsertSound
  <2> QED BY <1>0, <2>1, <2>2 DEF HeldSound
<1>12. RequestType' /\ HeldSound'
  BY <1>0, <1>5, <1>11, EndingIsSound
<1>13. OneLiveLink'
  BY <1>0, <1>5 DEF OneLiveLink, Live
<1>14. ASSUME ~overlap' PROVE ActiveAdmins' # {} /\ (now.password = "typed" => now.mustChange)
  <2>1. ~overlap /\ h.seen = user /\ h.snap = cur
    BY <1>2, <1>3, <1>5, <1>14 DEF SaveSound
  <2>2. now = h.new
    BY <1>2, <1>4, <2>1, SavedUnchangedIsNew DEF SaveSound, SaveRequest
  <2>3. PICK a \in Users : IsActiveAdmin(IF a = h.u THEN now ELSE user[a])
    BY <1>2, <2>1, <2>2 DEF SaveSound, KeepsAnAdmin
  <2>4. user'[a] = IF a = h.u THEN now ELSE user[a]
    BY <1>5, <1>6
  <2>5. a \in ActiveAdmins'
    BY <2>3, <2>4 DEF ActiveAdmins, Exists, IsActiveAdmin
  <2> QED BY <1>2, <2>1, <2>2, <2>5 DEF SaveSound, Asked
<1>15. AnAdminRemains'
  BY <1>14 DEF AnAdminRemains
<1>16. TypedIsReplaced'
  <2> SUFFICES ASSUME ~overlap', NEW u \in Users, user'[u] # None, user'[u].password = "typed"
               PROVE  user'[u].mustChange
    BY DEF TypedIsReplaced, Exists
  <2>1. user'[u] = IF u = h.u THEN now ELSE user[u]
    BY <1>5, <1>6
  <2>2. ~overlap
    BY <1>5
  <2>3. user[u] # None /\ user[u].password = "typed" => user[u].mustChange
    BY <1>0, <2>2 DEF TypedIsReplaced, Exists
  <2> QED BY <1>14, <2>1, <2>3
<1> QED BY <1>10, <1>12, <1>13, <1>15, <1>16 DEF AccessInv

---------------------------------------------------------------------------
LEMMA ReissueRevokeIsSound ==
    ASSUME AccessInv, NEW r \in Requests, ReissueRevoke(r)
    PROVE  AccessInv'
<1>0. TypeOK /\ RequestType /\ HeldSound /\ AnAdminRemains /\ TypedIsReplaced /\ OneLiveLink
  BY DEF AccessInv
<1>1. PICK h : h = request[r]
  OBVIOUS
<1>2. h \in RevokeRequest
  BY <1>0, <1>1 DEF ReissueRevoke, RequestType, Idle, CreateRequest, SaveRequest,
                    RevokeRequest, InsertRequest
<1>3. PICK state : state = [at |-> "insert", q |-> h.q, contact |-> h.contact, seen |-> LinksOf(h.q)]
  OBVIOUS
<1>4. /\ link' = Revoked(h.q) /\ Hold(r, state)
      /\ UNCHANGED <<user, expired, closed, sent, socket, writes, overlap>>
  BY <1>1, <1>3 DEF ReissueRevoke
<1>5. state \in InsertRequest /\ state.at = "insert" /\ state.q = h.q /\ state.seen = LinksOf(h.q)
  BY <1>2, <1>3 DEF InsertRequest, RevokeRequest, LinksOf
<1>6. link \in [Links -> Link \cup {None}] /\ DOMAIN link' = Links
  BY <1>0, <1>4 DEF TypeOK, Revoked
<1>7. ASSUME NEW l \in Links
      PROVE  /\ link[l] = None => link'[l] = None
             /\ link[l] # None =>
                   /\ link'[l] \in Link /\ link'[l].quotation = link[l].quotation
                   /\ link[l].revoked => link'[l].revoked
             /\ l \in LinksOf(h.q) => link'[l].revoked
  <2>1. link'[l] = IF l \in LinksOf(h.q) THEN [link[l] EXCEPT !.revoked = TRUE] ELSE link[l]
    BY <1>4 DEF Revoked
  <2> QED BY <1>6, <2>1 DEF LinksOf, Link
<1>8. link' \in [Links -> Link \cup {None}]
  BY <1>4, <1>6, <1>7 DEF Revoked
<1>9. TypeOK'
  BY <1>0, <1>4, <1>8 DEF TypeOK, Exists
<1>10. RequestType' /\ \A p \in Requests : request'[p] = IF p = r THEN state ELSE request[p]
  BY <1>0, <1>4, <1>5 DEF RequestType, Hold
<1>11. ASSUME NEW p \in Requests
       PROVE  /\ request'[p].at = "create" => CreateSound(request[p])'
              /\ request'[p].at = "save" => SaveSound(request[p])'
              /\ request'[p].at = "insert" => InsertSound(request[p])'
  <2>1. CASE p = r
    <3>1. \A l \in state.seen : l \in Links /\ link[l] # None /\ link[l].quotation = h.q
      BY <1>5 DEF LinksOf
    <3>2. \A l \in state.seen : link'[l] # None /\ link'[l].quotation = h.q /\ link'[l].revoked
      BY <1>5, <1>7, <3>1, NoneAssumption
    <3> QED BY <1>5, <1>10, <2>1, <3>2 DEF InsertSound
  <2>2. CASE p # r
    <3>1. request'[p] = request[p] /\ request[p] \in {Idle} \cup CreateRequest \cup SaveRequest
                                                        \cup RevokeRequest \cup InsertRequest
      BY <1>0, <1>10, <2>2 DEF RequestType
    <3>2. request[p].at = "create" => CreateSound(request[p])'
      BY <1>0, <3>1 DEF HeldSound, CreateSound
    <3>3. request[p].at = "save" => SaveSound(request[p])'
      BY <1>0, <1>4, <3>1 DEF HeldSound, SaveSound, Exists, KeepsAnAdmin
    <3>4. request[p].at = "insert" => InsertSound(request[p])'
      <4> SUFFICES ASSUME request[p].at = "insert", NEW l \in request[p].seen
                   PROVE  link'[l] # None /\ link'[l].quotation = request[p].q /\ link'[l].revoked
        BY <3>1 DEF InsertSound
      <4>1. l \in Links
        BY <3>1 DEF Idle, CreateRequest, SaveRequest, RevokeRequest, InsertRequest
      <4>2. link[l] # None /\ link[l].quotation = request[p].q /\ link[l].revoked
        BY <1>0 DEF HeldSound, InsertSound
      <4> QED BY <1>7, <4>1, <4>2, NoneAssumption
    <3> QED BY <3>1, <3>2, <3>3, <3>4
  <2> QED BY <2>1, <2>2
<1>12. HeldSound'
  BY <1>11 DEF HeldSound
<1>13. OneLiveLink'
  <2>1. \A l \in Links : link'[l] # None /\ ~link'[l].revoked =>
           link[l] # None /\ ~link[l].revoked /\ link[l].quotation = link'[l].quotation
    BY <1>7
  <2> QED BY <1>0, <1>4, <2>1 DEF OneLiveLink, Live
<1>14. AnAdminRemains' /\ TypedIsReplaced'
  BY <1>0, <1>4, AccountsUntouched
<1> QED BY <1>9, <1>10, <1>12, <1>13, <1>14 DEF AccessInv

LEMMA ReissueInsertIsSound ==
    ASSUME AccessInv, NEW r \in Requests, NEW l \in Links, ReissueInsert(r, l)
    PROVE  AccessInv'
<1>0. TypeOK /\ RequestType /\ HeldSound /\ AnAdminRemains /\ TypedIsReplaced /\ OneLiveLink
  BY DEF AccessInv
<1>1. PICK h : h = request[r]
  OBVIOUS
<1>2. h \in InsertRequest /\ InsertSound(h)
  BY <1>0, <1>1 DEF ReissueInsert, RequestType, HeldSound, Idle, CreateRequest, SaveRequest,
                    RevokeRequest, InsertRequest
<1>3. PICK fresh : fresh = [quotation |-> h.q, user |-> h.contact, revoked |-> FALSE]
  OBVIOUS
<1>4. /\ link[l] = None /\ link' = [link EXCEPT ![l] = fresh]
      /\ overlap' = (overlap \/ h.seen # LinksOf(h.q))
      /\ Finish(r) /\ UNCHANGED <<user, expired, closed, sent, socket, writes>>
  BY <1>1, <1>3 DEF ReissueInsert
<1>5. fresh \in Link /\ fresh # None
  <2>1. h.q \in Quotations /\ h.contact \in Users
    BY <1>2 DEF InsertRequest
  <2>2. fresh \in Link
    BY <1>3, <2>1 DEF Link
  <2> QED BY <2>2, NoneAssumption
<1>6. link \in [Links -> Link \cup {None}] /\ overlap \in BOOLEAN
  BY <1>0 DEF TypeOK
<1>7. TypeOK'
  BY <1>0, <1>4, <1>5, <1>6 DEF TypeOK, Exists
<1>8. ASSUME NEW p \in Requests \ {r}
      PROVE  /\ request[p].at = "create" => CreateSound(request[p])
             /\ request[p].at = "save" => SaveSound(request[p])'
             /\ request[p].at = "insert" => InsertSound(request[p])'
  <2>1. request'[p] = request[p]
    BY <1>4 DEF Finish, Hold
  <2>2. request[p].at = "save" => SaveSound(request[p])'
    BY <1>0, <1>4, <2>1 DEF HeldSound, SaveSound, Exists, KeepsAnAdmin
  <2>3. request[p].at = "insert" => InsertSound(request[p])'
    <3> SUFFICES ASSUME request[p].at = "insert", NEW m \in request[p].seen
                 PROVE  link'[m] # None /\ link'[m].quotation = request[p].q /\ link'[m].revoked
      BY <2>1 DEF InsertSound
    <3>1. link[m] # None /\ link[m].quotation = request[p].q /\ link[m].revoked
      BY <1>0 DEF HeldSound, InsertSound
    <3> QED BY <1>4, <1>6, <3>1
  <2> QED BY <1>0, <2>2, <2>3 DEF HeldSound
<1>9. RequestType' /\ HeldSound'
  BY <1>0, <1>4, <1>8, EndingIsSound
<1>10. AnAdminRemains' /\ TypedIsReplaced'
  BY <1>0, <1>4, <1>6 DEF AnAdminRemains, TypedIsReplaced, ActiveAdmins, Exists
<1>11. OneLiveLink'
  <2> SUFFICES ASSUME ~overlap', NEW m \in Links, NEW n \in Links,
                      link'[m] # None, ~link'[m].revoked, link'[n] # None, ~link'[n].revoked,
                      link'[m].quotation = link'[n].quotation
               PROVE  m = n
    BY DEF OneLiveLink, Live
  <2>1. ~overlap /\ h.seen = LinksOf(h.q)
    BY <1>4
  <2>2. \A k \in Links : (link[k] # None /\ link[k].quotation = h.q) => link[k].revoked
    BY <1>2, <2>1 DEF InsertSound, LinksOf
  <2>3. \A k \in Links : link'[k] = IF k = l THEN fresh ELSE link[k]
    BY <1>4, <1>6
  <2>4. fresh.quotation = h.q
    BY <1>3
  <2>5. CASE m # l /\ n # l
    BY <1>0, <2>1, <2>3, <2>5 DEF OneLiveLink, Live
  <2>6. CASE m = l \/ n = l
    BY <2>2, <2>3, <2>4, <2>6
  <2> QED BY <2>5, <2>6
<1> QED BY <1>7, <1>9, <1>10, <1>11 DEF AccessInv

(* A handler that dies leaves everything as it was.                        *)
LEMMA FailIsSound ==
    ASSUME AccessInv, NEW r \in Requests, Fail(r)
    PROVE  AccessInv'
<1>0. TypeOK /\ RequestType /\ HeldSound /\ AnAdminRemains /\ TypedIsReplaced /\ OneLiveLink
  BY DEF AccessInv
<1>1. /\ Finish(r) /\ UNCHANGED <<user, link, overlap>>
      /\ UNCHANGED <<user, link, expired, closed, sent, socket, overlap>> /\ writes' = writes
  BY DEF Fail
<1>2. writes' \in 0..MaxWrites
  BY <1>0, <1>1 DEF TypeOK
<1>3. TypeOK'
  BY <1>0, <1>1, <1>2, TypesUntouched
<1>4. RequestType' /\ HeldSound'
  BY <1>0, <1>1, OthersKeepTheirs, IdleIsSound DEF Finish
<1>5. AnAdminRemains' /\ TypedIsReplaced' /\ OneLiveLink'
  BY <1>0, <1>1, AccountsUntouched, LinksUntouched
<1> QED BY <1>3, <1>4, <1>5 DEF AccessInv

(* A step that leaves accounts, links and handlers alone only has to keep  *)
(* the types.                                                              *)
LEMMA ElsewhereIsSound ==
    ASSUME AccessInv, TypeOK', UNCHANGED <<user, link, request, overlap>>
    PROVE  AccessInv'
<1>0. TypeOK /\ RequestType /\ HeldSound /\ AnAdminRemains /\ TypedIsReplaced /\ OneLiveLink
  BY DEF AccessInv
<1>1. RequestType' /\ HeldSound'
  BY <1>0 DEF RequestType, HeldSound, CreateSound, SaveSound, InsertSound, Exists, KeepsAnAdmin
<1> QED BY <1>0, <1>1, AccountsUntouched, LinksUntouched DEF AccessInv

LEMMA SwitchIsSound ==
    ASSUME AccessInv, NEW by \in Users, NEW c \in Companies, SwitchCompany(by, c)
    PROVE  AccessInv'
<1>1. TypeOK'
  BY BoundAssumption DEF SwitchCompany, AccessInv, TypeOK, Exists
<1> QED BY <1>1, ElsewhereIsSound DEF SwitchCompany

LEMMA StageMoveIsSound ==
    ASSUME AccessInv, NEW q \in Quotations, MoveStage(q)
    PROVE  AccessInv'
<1>1. TypeOK'
  BY BoundAssumption DEF MoveStage, AccessInv, TypeOK, Exists
<1> QED BY <1>1, ElsewhereIsSound DEF MoveStage

LEMMA ExpiryIsSound ==
    ASSUME AccessInv, NEW l \in Links, Expire(l)
    PROVE  AccessInv'
<1>1. TypeOK'
  BY DEF Expire, AccessInv, TypeOK, Exists
<1> QED BY <1>1, ElsewhereIsSound DEF Expire

(* What TypeOK says of a connection, and how it comes to hold.             *)
Entitled(id) ==
    /\ SidesMatch(id.role, id.company)
    /\ id.quotation # None => id.role = "CUSTOMER" /\ id.company = CompanyOf[id.quotation]
    /\ RoomsAreEntitled(id)

(* Two identities that differ in their rooms only are entitled to the same.*)
LEMMA SameEntitlement ==
    ASSUME NEW a, NEW b, a.user = b.user, a.role = b.role, a.company = b.company, a.quotation = b.quotation
    PROVE  RoomsFor(a) = RoomsFor(b) /\ \A q : MayWatch(a, q) <=> MayWatch(b, q)
  BY DEF RoomsFor, MayWatch

LEMMA RoomsForIsRooms ==
    ASSUME NEW u \in Users, NEW role \in Roles, NEW company \in Companies \cup {None},
           NEW quotation \in Quotations \cup {None}, NEW id,
           id.user = u, id.role = role, id.company = company, id.quotation = quotation
    PROVE  RoomsFor(id) \subseteq Rooms
  BY DEF RoomsFor, Rooms

LEMMA ConnectedIsEntitled ==
    ASSUME NEW u \in Users, NEW role \in Roles, NEW company \in Companies \cup {None},
           NEW quotation \in Quotations \cup {None},
           Connected(u, role, company, quotation), SidesMatch(role, company),
           quotation # None => role = "CUSTOMER" /\ company = CompanyOf[quotation]
    PROVE  socket' \in Identity /\ Entitled(socket')
<1> DEFINE id == [user |-> u, role |-> role, company |-> company, quotation |-> quotation]
<1>1. PICK s : s = socket'
  OBVIOUS
<1>2. s = [user |-> u, role |-> role, company |-> company, quotation |-> quotation, rooms |-> RoomsFor(id)]
  BY <1>1 DEF Connected
<1>3. RoomsFor(id) \subseteq Rooms
  BY RoomsForIsRooms
<1>4. RoomsFor(s) = RoomsFor(id)
  BY <1>2, SameEntitlement
<1> HIDE DEF id
<1>5. s \in Identity
  BY <1>2, <1>3 DEF Identity
<1>6. RoomsAreEntitled(s)
  BY <1>2, <1>4 DEF RoomsAreEntitled
<1>7. Entitled(s)
  BY <1>2, <1>6 DEF Entitled
<1> QED BY <1>1, <1>5, <1>7

LEMMA WatchingIsEntitled ==
    ASSUME NEW id \in Identity, NEW q \in Quotations, Entitled(id), MayWatch(id, q), NEW new,
           new = [id EXCEPT !.rooms = id.rooms \cup {QuotationRoom(q)}]
    PROVE  new \in Identity /\ Entitled(new)
<1>1. /\ new.user = id.user /\ new.role = id.role /\ new.company = id.company
      /\ new.quotation = id.quotation /\ new.rooms = id.rooms \cup {QuotationRoom(q)}
  BY DEF Identity
<1>2. RoomsFor(new) = RoomsFor(id) /\ \A p : MayWatch(new, p) <=> MayWatch(id, p)
  BY <1>1, SameEntitlement
<1>3. QuotationRoom(q) \in Rooms
  BY DEF Rooms
<1>4. new \in Identity
  BY <1>1, <1>3 DEF Identity
<1>5. RoomsAreEntitled(new)
  BY <1>1, <1>2 DEF Entitled, RoomsAreEntitled
<1> QED BY <1>1, <1>4, <1>5 DEF Entitled

(* The room a link was joined to at once is its own, and is not left.      *)
LEMMA LeavingIsEntitled ==
    ASSUME NEW id \in Identity, NEW q \in Quotations, Entitled(id), q # id.quotation, NEW new,
           new = [id EXCEPT !.rooms = id.rooms \ {QuotationRoom(q)}]
    PROVE  new \in Identity /\ Entitled(new)
<1>1. /\ new.user = id.user /\ new.role = id.role /\ new.company = id.company
      /\ new.quotation = id.quotation /\ new.rooms = id.rooms \ {QuotationRoom(q)}
  BY DEF Identity
<1>2. RoomsFor(new) = RoomsFor(id) /\ \A p : MayWatch(new, p) <=> MayWatch(id, p)
  BY <1>1, SameEntitlement
<1>3. new \in Identity
  BY <1>1 DEF Identity
<1>4. QuotationRoom(q) \notin RoomsFor(id)
  BY DEF RoomsFor, QuotationRoom, UserRoom, RoleRoom, CustomerRoom, InternalRoom
<1>5. RoomsAreEntitled(new)
  BY <1>1, <1>2, <1>4 DEF Entitled, RoomsAreEntitled
<1> QED BY <1>1, <1>3, <1>5 DEF Entitled

(* A connection hears what its identity lets it hear.                      *)
LEMMA ConnectionIsSound ==
    ASSUME AccessInv, Connection
    PROVE  AccessInv'
<1>0. /\ user \in [Users -> Account \cup {None}] /\ link \in [Links -> Link \cup {None}]
      /\ socket \in Identity \cup {None}
      /\ socket # None => Entitled(socket)
  BY DEF AccessInv, TypeOK, Entitled
<1>1. UNCHANGED <<user, link, expired, closed, sent, request, writes, overlap>>
  BY DEF Connection, ConnectByLink, ConnectByAccount, Subscribe, Unsubscribe, Disconnect
<1> SUFFICES /\ socket' \in Identity \cup {None}
             /\ socket' # None => Entitled(socket')
  <2>1. TypeOK'
    BY <1>1 DEF AccessInv, TypeOK, Exists, Entitled
  <2> QED BY <1>1, <2>1, ElsewhereIsSound
<1>2. CASE \E l \in Links : ConnectByLink(l)
  <2>1. PICK l \in Links : ConnectByLink(l)
    BY <1>2
  <2>2. link[l] \in Link /\ link[l].quotation \in Quotations
    BY <1>0, <2>1 DEF ConnectByLink, Live, Link
  <2>3. CompanyOf[link[l].quotation] \in Companies /\ link[l].user \in Users
    BY <2>2, CompanyAssumption DEF Link
  <2>4. Connected(link[l].user, "CUSTOMER", CompanyOf[link[l].quotation], link[l].quotation)
    BY <2>1 DEF ConnectByLink
  <2>5. SidesMatch("CUSTOMER", CompanyOf[link[l].quotation])
    BY <2>3, NoneAssumption DEF SidesMatch
  <2> QED BY <2>2, <2>3, <2>4, <2>5, ConnectedIsEntitled DEF Roles
<1>3. CASE \E u \in Users : ConnectByAccount(u)
  <2>1. PICK u \in Users : ConnectByAccount(u)
    BY <1>3
  <2>2. user[u] \in Account /\ SidesMatch(user[u].role, user[u].company)
    BY <1>0, <2>1 DEF ConnectByAccount, RequireAuth, Exists, AccessInv, TypeOK
  <2>3. Connected(u, user[u].role, user[u].company, None)
    BY <2>1 DEF ConnectByAccount
  <2>4. user[u].role \in Roles /\ user[u].company \in Companies \cup {None}
    BY <2>2 DEF Account
  <2> QED BY <2>2, <2>3, <2>4, ConnectedIsEntitled
<1>4. CASE \E q \in Quotations : Subscribe(q)
  <2>1. PICK q \in Quotations : Subscribe(q)
    BY <1>4
  <2>2. socket \in Identity /\ Entitled(socket) /\ MayWatch(socket, q)
    BY <1>0, <2>1 DEF Subscribe
  <2>3. socket' = [socket EXCEPT !.rooms = socket.rooms \cup {QuotationRoom(q)}]
    BY <2>1 DEF Subscribe
  <2> QED BY <2>2, <2>3, WatchingIsEntitled
<1>5. CASE \E q \in Quotations : Unsubscribe(q)
  <2>1. PICK q \in Quotations : Unsubscribe(q)
    BY <1>5
  <2>2. socket \in Identity /\ Entitled(socket) /\ q # socket.quotation
    BY <1>0, <2>1 DEF Unsubscribe
  <2>3. socket' = [socket EXCEPT !.rooms = socket.rooms \ {QuotationRoom(q)}]
    BY <2>1 DEF Unsubscribe
  <2> QED BY <2>2, <2>3, LeavingIsEntitled
<1>6. CASE Disconnect
  BY <1>6 DEF Disconnect
<1> QED BY <1>2, <1>3, <1>4, <1>5, <1>6 DEF Connection

---------------------------------------------------------------------------
LEMMA StepIsSound == AccessInv /\ [Next]_vars => AccessInv'
<1> SUFFICES ASSUME AccessInv, [Next]_vars PROVE AccessInv'
  OBVIOUS
<1>1. CASE \E r \in Requests : Begin(r)
  <2>1. PICK r \in Requests : Begin(r)
    BY <1>1
  <2> QED BY <2>1, CreateReadIsSound, PatchReadIsSound, ChangePasswordReadIsSound, ReissueReadIsSound DEF Begin
<1>2. CASE \E r \in Requests : Continue(r)
  <2>1. PICK r \in Requests : Continue(r)
    BY <1>2
  <2> QED BY <2>1, CreateInsertIsSound, SaveAccountIsSound, ReissueRevokeIsSound, ReissueInsertIsSound
          DEF Continue
<1>3. CASE \E r \in Requests : Fail(r)
  BY <1>3, FailIsSound
<1>4. CASE \E by \in Users, c \in Companies : SwitchCompany(by, c)
  BY <1>4, SwitchIsSound
<1>5. CASE \E q \in Quotations : MoveStage(q)
  BY <1>5, StageMoveIsSound
<1>6. CASE \E l \in Links : Expire(l)
  BY <1>6, ExpiryIsSound
<1>7. CASE Connection
  BY <1>7, ConnectionIsSound
<1>8. CASE UNCHANGED vars
  <2>1. TypeOK' /\ UNCHANGED <<user, link, request, overlap>>
    BY <1>8 DEF vars, AccessInv, TypeOK, Exists
  <2> QED BY <2>1, ElsewhereIsSound
<1> QED BY <1>1, <1>2, <1>3, <1>4, <1>5, <1>6, <1>7, <1>8 DEF Next

(* The invariant holds throughout: whatever handlers overlap, what each of *)
(* them holds stays sound for the accounts and links it saw.               *)
THEOREM AccessInvariant == Spec => []AccessInv
  BY InitIsSound, StepIsSound, PTL DEF Spec

(* A customer account has exactly one company, staff have none, whatever   *)
(* saves overlap; and a customer's connection hears that company only.     *)
THEOREM AccountsKeepTheirSide == Spec => []TypeOK
<1>1. AccessInv => TypeOK
  BY DEF AccessInv
<1> QED BY <1>1, AccessInvariant, PTL

(* An active administrator remains as long as no two changes of accounts   *)
(* overlap.                                                                *)
THEOREM SomebodyIsInCharge == Spec => []AnAdminRemains
<1>1. AccessInv => AnAdminRemains
  BY DEF AccessInv
<1> QED BY <1>1, AccessInvariant, PTL

(* Whoever signs in with a password an administrator typed is asked for    *)
(* another, as long as no two changes of accounts overlap.                 *)
THEOREM ResetIsFollowedByAChange == Spec => []TypedIsReplaced
<1>1. AccessInv => TypedIsReplaced
  BY DEF AccessInv
<1> QED BY <1>1, AccessInvariant, PTL

(* A quotation has at most one link that works, as long as no two reissues *)
(* of it overlap.                                                          *)
THEOREM AReissueRetiresTheOthers == Spec => []OneLiveLink
<1>1. AccessInv => OneLiveLink
  BY DEF AccessInv
<1> QED BY <1>1, AccessInvariant, PTL

---------------------------------------------------------------------------
(* What a connection hears, though the account it was resolved from moves  *)
(* on.  Nobody crosses between the staff and the customers, so a customer  *)
(* remains one: the holder of a link, whoever a reissue has picked for the *)
(* next one, and the user of a live connection.                            *)
Customer(accounts, u) == accounts[u] # None /\ accounts[u].role = "CUSTOMER"
IsCustomer(u) == Customer(user, u)

SidesInv ==
    /\ \A l \in Links : link[l] # None => IsCustomer(link[l].user)
    /\ \A r \in Requests : request[r].at \in {"revoke", "insert"} => IsCustomer(request[r].contact)
    /\ socket # None => Exists(socket.user) /\ (IsCustomer(socket.user) <=> socket.role = "CUSTOMER")

(* Accounts are not deleted and stay on their side.                        *)
LEMMA SaveKeepsSides ==
    ASSUME AccessInv, NEW r \in Requests, SaveAccount(r)
    PROVE  \A u \in Users : Exists(u) => Exists(u)' /\ SameSide(user'[u], user[u])
<1>1. PICK h : h = request[r]
  OBVIOUS
<1>2. h \in SaveRequest /\ SaveSound(h)
  BY <1>1 DEF AccessInv, SaveAccount, RequestType, HeldSound, Idle, CreateRequest, SaveRequest,
              RevokeRequest, InsertRequest
<1>3. PICK cur : cur = user[h.u]
  OBVIOUS
<1>4. PICK now : now = Saved(cur, h.snap, h.new, h.hashed)
  OBVIOUS
<1>5. /\ user \in [Users -> Account \cup {None}] /\ h.u \in Users
      /\ cur \in Account /\ SidesMatch(cur.role, cur.company)
  BY <1>2, <1>3 DEF AccessInv, TypeOK, SaveSound, SaveRequest, Exists
<1>6. now \in Account /\ SameSide(now, cur)
  BY <1>2, <1>3, <1>4, <1>5, SavedStaysOnItsSide DEF SaveRequest, SaveSound
<1>7. user' = [user EXCEPT ![h.u] = now]
  BY <1>1, <1>3, <1>4 DEF SaveAccount
<1>8. now # None
  BY <1>6, NoneAssumption
<1> QED BY <1>3, <1>5, <1>6, <1>7, <1>8 DEF Exists, SameSide

LEMMA SidesAreKept ==
    ASSUME AccessInv, [Next]_vars
    PROVE  \A u \in Users : Exists(u) => Exists(u)' /\ SameSide(user'[u], user[u])
<1>1. CASE \E r \in Requests, u \in Users : CreateInsert(r, u)
  BY <1>1 DEF AccessInv, TypeOK, CreateInsert, Exists, SameSide
<1>2. CASE \E r \in Requests : SaveAccount(r)
  BY <1>2, SaveKeepsSides
<1>3. CASE UNCHANGED user
  BY <1>3 DEF Exists, SameSide
<1>4. (\E r \in Requests, u \in Users : CreateInsert(r, u)) \/ (\E r \in Requests : SaveAccount(r)) \/ UNCHANGED user
  <2>1. ASSUME NEW r \in Requests, Begin(r)  PROVE  UNCHANGED user
    BY <2>1 DEF Begin, CreateRead, PatchRead, ChangePasswordRead, ReissueRead
  <2>2. ASSUME NEW r \in Requests, Continue(r)
        PROVE  (\E u \in Users : CreateInsert(r, u)) \/ SaveAccount(r) \/ UNCHANGED user
    BY <2>2 DEF Continue, ReissueRevoke, ReissueInsert
  <2>3. ASSUME Connection  PROVE  UNCHANGED user
    BY <2>3 DEF Connection, ConnectByLink, ConnectByAccount, Subscribe, Unsubscribe, Disconnect
  <2>4. ASSUME NEW r \in Requests, Fail(r)  PROVE  UNCHANGED user
    BY <2>4 DEF Fail
  <2>5. ASSUME \/ \E by \in Users, c \in Companies : SwitchCompany(by, c)
               \/ \E q \in Quotations : MoveStage(q)
               \/ \E l \in Links : Expire(l)
               \/ UNCHANGED vars
        PROVE  UNCHANGED user
    BY <2>5 DEF SwitchCompany, MoveStage, Expire, vars
  <2> QED BY <2>1, <2>2, <2>3, <2>4, <2>5 DEF Next
<1> QED BY <1>1, <1>2, <1>3, <1>4

(* So a customer is one in the next state as well.                         *)
LEMMA CustomersRemain ==
    ASSUME AccessInv, [Next]_vars
    PROVE  \A u \in Users : Exists(u) => user'[u] # None /\ (Customer(user', u) <=> Customer(user, u))
  BY SidesAreKept DEF Customer, Exists, SameSide

(* A link is held by the contact its reissue picked.                       *)
LEMMA LinksComeFromReissues ==
    ASSUME AccessInv, [Next]_vars, NEW l \in Links, link'[l] # None
    PROVE  \/ link[l] # None /\ link'[l].user = link[l].user
           \/ \E r \in Requests : request[r].at = "insert" /\ link'[l].user = request[r].contact
<1>0. link \in [Links -> Link \cup {None}]
  BY DEF AccessInv, TypeOK
<1>1. CASE \E r \in Requests : ReissueRevoke(r)
  <2>1. PICK q : link' = Revoked(q)
    BY <1>1 DEF ReissueRevoke
  <2>2. link'[l] = IF l \in LinksOf(q) THEN [link[l] EXCEPT !.revoked = TRUE] ELSE link[l]
    BY <2>1 DEF Revoked
  <2>3. CASE l \in LinksOf(q)
    <3>1. link[l] # None /\ link[l] \in Link
      BY <1>0, <2>3 DEF LinksOf
    <3> QED BY <2>2, <2>3, <3>1 DEF Link
  <2>4. CASE l \notin LinksOf(q)
    BY <2>2, <2>4
  <2> QED BY <2>3, <2>4
<1>2. CASE \E r \in Requests, m \in Links : ReissueInsert(r, m)
  <2>1. PICK r \in Requests, m \in Links : ReissueInsert(r, m)
    BY <1>2
  <2>2. PICK h : h = request[r]
    OBVIOUS
  <2>3. h.at = "insert" /\ link' = [link EXCEPT ![m] = [quotation |-> h.q, user |-> h.contact, revoked |-> FALSE]]
    BY <2>1, <2>2 DEF ReissueInsert
  <2>4. CASE l = m
    BY <1>0, <2>2, <2>3, <2>4
  <2>5. CASE l # m
    BY <1>0, <2>3, <2>5
  <2> QED BY <2>4, <2>5
<1>3. CASE UNCHANGED link
  BY <1>3
<1>4. (\E r \in Requests : ReissueRevoke(r)) \/ (\E r \in Requests, m \in Links : ReissueInsert(r, m)) \/ UNCHANGED link
  <2>1. ASSUME NEW r \in Requests, Begin(r)  PROVE  UNCHANGED link
    BY <2>1 DEF Begin, CreateRead, PatchRead, ChangePasswordRead, ReissueRead
  <2>2. ASSUME NEW r \in Requests, Continue(r)
        PROVE  ReissueRevoke(r) \/ (\E m \in Links : ReissueInsert(r, m)) \/ UNCHANGED link
    BY <2>2 DEF Continue, CreateInsert, SaveAccount
  <2>3. ASSUME Connection  PROVE  UNCHANGED link
    BY <2>3 DEF Connection, ConnectByLink, ConnectByAccount, Subscribe, Unsubscribe, Disconnect
  <2>4. ASSUME NEW r \in Requests, Fail(r)  PROVE  UNCHANGED link
    BY <2>4 DEF Fail
  <2>5. ASSUME \/ \E by \in Users, c \in Companies : SwitchCompany(by, c)
               \/ \E q \in Quotations : MoveStage(q)
               \/ \E m \in Links : Expire(m)
               \/ UNCHANGED vars
        PROVE  UNCHANGED link
    BY <2>5 DEF SwitchCompany, MoveStage, Expire, vars
  <2> QED BY <2>1, <2>2, <2>3, <2>4, <2>5 DEF Next
<1> QED BY <1>1, <1>2, <1>3, <1>4

(* A reissue holds a contact that it has found among the customers, or had *)
(* already before.                                                         *)
LEMMA ReissuesPickCustomers ==
    ASSUME AccessInv, [Next]_vars, NEW p \in Requests, request'[p].at \in {"revoke", "insert"}
    PROVE  \/ request[p].at \in {"revoke", "insert"} /\ request'[p].contact = request[p].contact
           \/ request'[p].contact \in Users /\ IsCustomer(request'[p].contact)
<1>0. DOMAIN request = Requests /\ request \in [Requests -> {Idle} \cup CreateRequest \cup SaveRequest
                                                  \cup RevokeRequest \cup InsertRequest]
  BY DEF AccessInv, RequestType
<1>1. CASE UNCHANGED request
  BY <1>1
<1>2. ASSUME NEW r \in Requests, NEW state, Hold(r, state)
      PROVE  request'[p] = IF p = r THEN state ELSE request[p]
  BY <1>0, <1>2 DEF Hold
<1>3. CASE \E r \in Requests : Begin(r)
  <2>1. PICK r \in Requests : Begin(r)
    BY <1>3
  <2>2. PICK by \in Users :
           \/ \E role \in Roles, company \in Companies \cup {None} : CreateRead(r, by, role, company)
           \/ \E u \in Users, body \in Bodies : PatchRead(r, by, u, body)
           \/ ChangePasswordRead(r, by)
           \/ \E q \in Quotations, contact \in Users : ReissueRead(r, by, q, contact)
    BY <2>1 DEF Begin
  <2>3. CASE p # r
    BY <1>2, <2>2, <2>3 DEF CreateRead, PatchRead, ChangePasswordRead, ReissueRead
  <2>4. CASE p = r
    <3>0. ASSUME NEW state, Hold(r, state) PROVE state.at \in {"revoke", "insert"}
      BY <1>2, <2>4, <3>0
    <3>1. \E q \in Quotations, contact \in Users : ReissueRead(r, by, q, contact)
      <4>1. ASSUME NEW role, NEW company PROVE ~CreateRead(r, by, role, company)
        BY <3>0 DEF CreateRead
      <4>2. ASSUME NEW u, NEW body PROVE ~PatchRead(r, by, u, body)
        BY <3>0 DEF PatchRead
      <4>3. ~ChangePasswordRead(r, by)
        BY <3>0 DEF ChangePasswordRead
      <4> QED BY <2>2, <4>1, <4>2, <4>3
    <3>2. PICK q \in Quotations, contact \in Users : ReissueRead(r, by, q, contact)
      BY <3>1
    <3>3. request'[p] = [at |-> "revoke", q |-> q, contact |-> contact] /\ contact \in Contacts(CompanyOf[q])
      BY <1>2, <2>4, <3>2 DEF ReissueRead
    <3> QED BY <3>3 DEF Contacts, IsCustomer, Customer, Exists
  <2> QED BY <2>3, <2>4
<1>4. CASE \E r \in Requests : Continue(r) \/ Fail(r)
  <2>1. PICK r \in Requests : Continue(r) \/ Fail(r)
    BY <1>4
  <2>2. CASE ReissueRevoke(r)
    <3>1. PICK h : h = request[r]
      OBVIOUS
    <3>2. h.at = "revoke" /\ Hold(r, [at |-> "insert", q |-> h.q, contact |-> h.contact, seen |-> LinksOf(h.q)])
      BY <2>2, <3>1 DEF ReissueRevoke
    <3> QED BY <1>2, <3>1, <3>2
  <2>3. CASE Finish(r)
    BY <1>2, <2>3 DEF Finish, Idle
  <2> QED BY <2>1, <2>2, <2>3 DEF Continue, CreateInsert, SaveAccount, ReissueInsert, Fail
<1>5. (\E r \in Requests : Begin(r) \/ Continue(r) \/ Fail(r)) \/ UNCHANGED request
  BY DEF Next, Connection, SwitchCompany, MoveStage, Expire, ConnectByLink,
         ConnectByAccount, Subscribe, Unsubscribe, Disconnect, vars
<1> QED BY <1>1, <1>3, <1>4, <1>5

(* A connection is the one there was, watching more or less, or was just   *)
(* resolved.                                                               *)
LEMMA ConnectionsAreResolved ==
    ASSUME AccessInv, SidesInv, [Next]_vars, socket' # None
    PROVE  \/ socket # None /\ socket'.user = socket.user /\ socket'.role = socket.role
           \/ /\ socket'.user \in Users /\ Exists(socket'.user)
              /\ IsCustomer(socket'.user) <=> socket'.role = "CUSTOMER"
<1>1. CASE \E l \in Links : ConnectByLink(l)
  <2>1. PICK l \in Links : ConnectByLink(l)
    BY <1>1
  <2>2. link[l] # None /\ link[l] \in Link
    BY <2>1 DEF ConnectByLink, Live, AccessInv, TypeOK
  <2>3. IsCustomer(link[l].user) /\ link[l].user \in Users
    BY <2>2 DEF SidesInv, Link
  <2>4. socket'.user = link[l].user /\ socket'.role = "CUSTOMER"
    BY <2>1 DEF ConnectByLink, Connected
  <2> QED BY <2>3, <2>4 DEF IsCustomer, Customer, Exists
<1>2. CASE \E u \in Users : ConnectByAccount(u)
  <2>1. PICK u \in Users : ConnectByAccount(u)
    BY <1>2
  <2>2. socket'.user = u /\ socket'.role = user[u].role /\ Exists(u)
    BY <2>1 DEF ConnectByAccount, Connected, RequireAuth
  <2> QED BY <2>2 DEF IsCustomer, Customer, Exists
<1>3. CASE \E q \in Quotations : Subscribe(q) \/ Unsubscribe(q)
  <2>1. socket \in Identity /\ socket # None
    BY <1>3 DEF Subscribe, Unsubscribe, AccessInv, TypeOK
  <2>2. PICK rooms : socket' = [socket EXCEPT !.rooms = rooms]
    BY <1>3 DEF Subscribe, Unsubscribe
  <2> QED BY <2>1, <2>2 DEF Identity
<1>4. CASE UNCHANGED socket
  BY <1>4
<1>5. \/ \E l \in Links : ConnectByLink(l)
      \/ \E u \in Users : ConnectByAccount(u)
      \/ \E q \in Quotations : Subscribe(q) \/ Unsubscribe(q)
      \/ Disconnect
      \/ UNCHANGED socket
  <2>1. ASSUME NEW r \in Requests, Begin(r)  PROVE  UNCHANGED socket
    BY <2>1 DEF Begin, CreateRead, PatchRead, ChangePasswordRead, ReissueRead
  <2>2. ASSUME NEW r \in Requests, Continue(r)  PROVE  UNCHANGED socket
    BY <2>2 DEF Continue, CreateInsert, SaveAccount, ReissueRevoke, ReissueInsert
  <2>3. ASSUME NEW r \in Requests, Fail(r)  PROVE  UNCHANGED socket
    BY <2>3 DEF Fail
  <2>4. ASSUME \/ \E by \in Users, c \in Companies : SwitchCompany(by, c)
               \/ \E q \in Quotations : MoveStage(q)
               \/ \E l \in Links : Expire(l)
               \/ UNCHANGED vars
        PROVE  UNCHANGED socket
    BY <2>4 DEF SwitchCompany, MoveStage, Expire, vars
  <2> QED BY <2>1, <2>2, <2>3, <2>4 DEF Next, Connection
<1> QED BY <1>1, <1>2, <1>3, <1>4, <1>5 DEF Disconnect

LEMMA SidesStep ==
    ASSUME AccessInv, SidesInv, [Next]_vars
    PROVE  SidesInv'
<1>1. ASSUME NEW l \in Links, link'[l] # None PROVE Customer(user', link'[l].user)
  <2>1. PICK u : u = link'[l].user
    OBVIOUS
  <2>2. u \in Users
    BY <1>1, <2>1, StepIsSound DEF AccessInv, TypeOK, Link
  <2>3. IsCustomer(u)
    BY <1>1, <2>1, LinksComeFromReissues DEF SidesInv
  <2>4. Customer(user', u)
    BY <2>2, <2>3, CustomersRemain DEF IsCustomer, Customer, Exists
  <2> QED BY <2>1, <2>4
<1>2. ASSUME NEW p \in Requests, request'[p].at \in {"revoke", "insert"} PROVE Customer(user', request'[p].contact)
  <2>1. PICK u : u = request'[p].contact
    OBVIOUS
  <2>2. IsCustomer(u)
    BY <1>2, <2>1, ReissuesPickCustomers DEF SidesInv
  <2>3. u \in Users
    <3>1. request' \in [Requests -> {Idle} \cup CreateRequest \cup SaveRequest \cup RevokeRequest \cup InsertRequest]
      BY StepIsSound DEF AccessInv, RequestType
    <3> QED BY <1>2, <2>1, <3>1 DEF Idle, CreateRequest, SaveRequest, RevokeRequest, InsertRequest
  <2>4. Customer(user', u)
    BY <2>2, <2>3, CustomersRemain DEF IsCustomer, Customer, Exists
  <2> QED BY <2>1, <2>4
<1>3. ASSUME socket' # None
      PROVE  user'[socket'.user] # None /\ (Customer(user', socket'.user) <=> socket'.role = "CUSTOMER")
  <2>1. PICK u : u = socket'.user
    OBVIOUS
  <2>2. u \in Users
    BY <1>3, <2>1, StepIsSound DEF AccessInv, TypeOK, Identity
  <2>3. Exists(u) /\ (IsCustomer(u) <=> socket'.role = "CUSTOMER")
    BY <1>3, <2>1, ConnectionsAreResolved DEF SidesInv
  <2>4. user'[u] # None /\ (Customer(user', u) <=> socket'.role = "CUSTOMER")
    BY <2>2, <2>3, CustomersRemain DEF IsCustomer, Customer, Exists
  <2> QED BY <2>1, <2>4
<1> QED BY <1>1, <1>2, <1>3 DEF SidesInv, IsCustomer, Exists

(* The staff are in the rooms of their identity, which the events name.    *)
LEMMA StaffAreTold ==
    ASSUME AccessInv, SidesInv, socket # None, IsStaff(socket.user)
    PROVE  StaffHears
<1>1. socket.role # "CUSTOMER"
  BY DEF SidesInv, IsStaff, IsCustomer, Customer, Exists
<1>2. RoomsFor(socket) \subseteq socket.rooms
  BY DEF AccessInv, TypeOK, RoomsAreEntitled
<1>3. UserRoom(socket.user) \in socket.rooms /\ RoleRoom(socket.role) \in socket.rooms /\ InternalRoom \in socket.rooms
  BY <1>1, <1>2 DEF RoomsFor
<1>4. Told(StockUpdated) /\ Told(ConfigUpdated)
  BY <1>3 DEF Told, StockUpdated, ConfigUpdated
<1>5. ASSUME NEW q \in Quotations, NEW owner \in {u \in Users : IsStaff(u)}, NEW e, e = News(q, CompanyOf[q], owner)
      PROVE  /\ Told(OrderUpdated(e)) /\ Told(FulfillmentUpdated(e))
             /\ (socket.user = owner \/ QuotationRoom(q) \in socket.rooms) =>
                   Told(QuotationUpdated(e)) /\ Told(ApprovalUpdated(e)) /\ Told(NegotiationEvent(e))
             /\ socket.user = owner => Told(AlertUpdated(e))
             /\ (user[socket.user].role = socket.role /\ socket.role \in {"SALES_MANAGER", "FINANCE", "ADMIN"}) =>
                   Told(ApprovalUpdated(e))
  <2>1. e.owner = owner /\ e.quotation = q
    BY <1>5 DEF News
  <2> QED BY <1>3, <2>1 DEF Told, OrderUpdated, FulfillmentUpdated, QuotationUpdated, ApprovalUpdated,
                           NegotiationEvent, AlertUpdated
<1> QED BY <1>4, <1>5 DEF StaffHears

(* A customer's rooms are its own, its company's and those of the          *)
(* company's deals.                                                        *)
LEMMA CustomersRooms ==
    ASSUME AccessInv, SidesInv, socket # None, ~IsStaff(socket.user), NEW room \in socket.rooms
    PROVE  \/ room = UserRoom(socket.user) \/ room = RoleRoom("CUSTOMER") \/ room = CustomerRoom(socket.company)
           \/ \E p \in Quotations : room = QuotationRoom(p) /\ CompanyOf[p] = socket.company
<1>1. socket.role = "CUSTOMER" /\ socket \in Identity
  BY DEF SidesInv, IsStaff, IsCustomer, Customer, Exists, AccessInv, TypeOK
<1>2. RoomsAreEntitled(socket) /\ (socket.quotation # None => socket.company = CompanyOf[socket.quotation])
  BY DEF AccessInv, TypeOK
<1>3. room \in RoomsFor(socket) \/ \E p \in Quotations : room = QuotationRoom(p) /\ MayWatch(socket, p)
  BY <1>2 DEF RoomsAreEntitled
<1>4. CASE room \in RoomsFor(socket)
  BY <1>1, <1>2, <1>4 DEF RoomsFor, Identity
<1>5. CASE \E p \in Quotations : room = QuotationRoom(p) /\ MayWatch(socket, p)
  <2>1. PICK p \in Quotations : room = QuotationRoom(p) /\ MayWatch(socket, p)
    BY <1>5
  <2>2. CompanyOf[p] = socket.company
    BY <1>1, <1>2, <2>1, NoneAssumption DEF MayWatch
  <2> QED BY <2>1, <2>2
<1> QED BY <1>3, <1>4, <1>5

LEMMA CustomersAreTold ==
    ASSUME AccessInv, SidesInv, socket # None, ~IsStaff(socket.user)
    PROVE  CustomerHears
<1>1. socket.role = "CUSTOMER" /\ socket.company # None
  BY DEF SidesInv, IsStaff, IsCustomer, Customer, Exists, AccessInv, TypeOK, SidesMatch
<1>2. CustomerRoom(socket.company) \in socket.rooms
  BY <1>1 DEF RoomsFor, AccessInv, TypeOK, RoomsAreEntitled
<1>3. ~Told(StockUpdated) /\ ~Told(ConfigUpdated)
  BY CustomersRooms DEF Told, StockUpdated, ConfigUpdated, InternalRoom, UserRoom, RoleRoom, CustomerRoom, QuotationRoom
<1>4. ASSUME NEW q \in Quotations, NEW owner \in {u \in Users : IsStaff(u)}, NEW e, e = News(q, CompanyOf[q], owner)
      PROVE  /\ ~Told(AlertUpdated(e))
             /\ socket.company = CompanyOf[q] =>
                   /\ Told(QuotationUpdated(e)) /\ Told(NegotiationEvent(e)) /\ Told(OrderUpdated(e))
                   /\ Told(FulfillmentUpdated(e)) /\ Told(InvoiceUpdated(e)) /\ Told(SubscriptionUpdated(e))
             /\ socket.company # CompanyOf[q] =>
                   /\ ~Told(QuotationUpdated(e)) /\ ~Told(NegotiationEvent(e)) /\ ~Told(OrderUpdated(e))
                   /\ ~Told(FulfillmentUpdated(e)) /\ ~Told(InvoiceUpdated(e)) /\ ~Told(SubscriptionUpdated(e))
                   /\ ~Told(ApprovalUpdated(e))
  <2>1. e.owner = owner /\ e.quotation = q /\ e.customer = CompanyOf[q] /\ owner # socket.user
    BY <1>4 DEF News
  <2>2. UserRoom(owner) \notin socket.rooms
    BY <2>1, CustomersRooms DEF UserRoom, RoleRoom, CustomerRoom, QuotationRoom
  <2>3. \A role : role # "CUSTOMER" => RoleRoom(role) \notin socket.rooms
    BY CustomersRooms DEF UserRoom, RoleRoom, CustomerRoom, QuotationRoom
  <2>4. InternalRoom \notin socket.rooms
    BY CustomersRooms DEF InternalRoom, UserRoom, RoleRoom, CustomerRoom, QuotationRoom
  <2>5. socket.company # CompanyOf[q] => CustomerRoom(CompanyOf[q]) \notin socket.rooms /\ QuotationRoom(q) \notin socket.rooms
    BY CustomersRooms DEF UserRoom, RoleRoom, CustomerRoom, QuotationRoom
  <2>6. ~Told(AlertUpdated(e))
    BY <2>1, <2>2, <2>3 DEF Told, AlertUpdated
  <2>7. CASE socket.company = CompanyOf[q]
    BY <1>2, <2>1, <2>6, <2>7 DEF Told, QuotationUpdated, NegotiationEvent, OrderUpdated, FulfillmentUpdated,
                                InvoiceUpdated, SubscriptionUpdated
  <2>8. CASE socket.company # CompanyOf[q]
    BY <2>1, <2>2, <2>3, <2>4, <2>5, <2>6, <2>8
       DEF Told, QuotationUpdated, NegotiationEvent, OrderUpdated, FulfillmentUpdated,
           InvoiceUpdated, SubscriptionUpdated, ApprovalUpdated
  <2> QED BY <2>7, <2>8
<1> QED BY <1>3, <1>4 DEF CustomerHears

(* However long a connection outlives changes of its account, it hears     *)
(* what concerns its holder, and a customer's nothing but its company's.   *)
THEOREM ConnectionsHearWhatConcernsThem == Spec => []TheConcernedHear
<1>1. Init => SidesInv
  BY DEF Init, SidesInv, Idle
<1>2. AccessInv /\ SidesInv /\ [Next]_vars => SidesInv'
  BY SidesStep
<1>3. AccessInv /\ SidesInv => TheConcernedHear
  BY StaffAreTold, CustomersAreTold DEF TheConcernedHear
<1> QED BY <1>1, <1>2, <1>3, AccessInvariant, PTL DEF Spec
=============================================================================
