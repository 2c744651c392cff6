---------------------------- MODULE InventoryTxn ----------------------------
(***************************************************************************)
(* The handlers of Inventory as they overlap.  Each reads its fulfillment, *)
(* checks it, and then runs a callback in a MongoDB transaction            *)
(* (connection.ts, withTransaction).  A transaction sees the collections   *)
(* as they were when it began; when another request has since written a    *)
(* document it writes too, it is aborted and the driver calls the callback *)
(* again - on the same documents in memory, as the aborted attempt left    *)
(* them.  POST /stock/adjust runs outside any transaction and stores the   *)
(* count it computed from what it read.                                    *)
(*                                                                         *)
(* Abstractions: what a handler reads before its transaction it reads at   *)
(* one instant; a conflict is noticed when the attempt ends, the loser     *)
(* being whoever commits second; a commit is not lost.  Bounds: orders of  *)
(* one line, and MaxRequests handlers started.                             *)
(***************************************************************************)
EXTENDS Inventory

CONSTANTS
    Handlers,      \* requests that may be under way together
    MaxRequests    \* bound: requests started

ASSUME OneLineEach == \A o \in Orders : Len(Demand[o]) = 1
ASSUME RunsTransactions == Transactions

VARIABLES
    request,   \* [Handlers -> what the handler holds in memory, or Idle]
    started    \* number of requests started

txnVars == <<vars, request, started>>

Idle == [op |-> "idle"]

(* Documents, as conflicts tell them apart.                                *)
RowDoc(w, p) == <<"row", w, p>>
FulfillmentDoc(o) == <<"fulfillment", o>>
OrderDoc(o) == <<"order", o>>
RowsOf(o, alloc) ==
    {RowDoc(x[1], Demand[o][x[2]].product) : x \in {y \in Sites \X LinesIn(o) : alloc[y[1]][y[2]] > 0}}
AllRows == {RowDoc(w, p) : w \in Sites, p \in Products}

(* `f` and `doc` are the fulfillment and the order in memory, `base` and   *)
(* `read` the same as they were read: save() writes what differs.  `since` *)
(* is what others wrote since the handler read, `changed` since its        *)
(* transaction began.                                                      *)
Copy(op, o, body) ==
    [op |-> op, o |-> o, body |-> body, phase |-> "read",
     base |-> fulfillment[o], f |-> fulfillment[o], read |-> order[o], doc |-> order[o],
     since |-> {}, changed |-> {}]

Start(h, r) ==
    /\ request[h] = Idle
    /\ started < MaxRequests
    /\ request' = [request EXCEPT ![h] = r]
    /\ started' = started + 1
    /\ UNCHANGED vars

---------------------------------------------------------------------------
(* Before the transaction: documents are read and checked.                 *)

TxnInit ==
    /\ Init
    /\ request = [h \in Handlers |-> Idle]
    /\ started = 0

Place(o) == Confirm(o) /\ UNCHANGED <<request, started>>

AskPlan(h, o) == Replannable(o) /\ Start(h, Copy("plan", o, None))

AskAccept(h, o) == Acceptable(o) /\ Start(h, Copy("accept", o, None))

AskOverride(h, o, alloc) == MayOverride(o, alloc) /\ Start(h, Copy("override", o, alloc))

AskShip(h, o) == Shippable(o) /\ Start(h, Copy("ship", o, None))

AskConsolidate(h, o, source) ==
    /\ MayConsolidate(o, source)
    /\ Start(h, Copy("consolidate", o, Consolidation(o, fulfillment[o], source)))

AskAdjust(h, w, p, delta) ==
    /\ stock[w][p].inStock + delta \in 0..MaxStock[p]
    /\ Start(h, [op |-> "adjust", w |-> w, p |-> p, delta |-> delta, phase |-> "read",
                 inStock |-> stock[w][p].inStock + delta, since |-> {}, changed |-> {}])

---------------------------------------------------------------------------
(* The callback, on the documents in memory.                               *)

(* An acceptance looks at the stock inside its transaction.                *)
(* Fault: it relies on the split, which was free when it was planned.      *)
Refused_Planned(r) == r.op = "consolidate" /\ ~HasBackorder(r.f.back)
Refused(r) ==
    \/ r.op = "accept" /\ ~AllAvailable(r.o, r.f.alloc)
    \/ r.op = "consolidate" /\ ~HasBackorder(r.f.back)

(* planAndApply reads the stock outside the transaction.                   *)
Begin(h) ==
    LET r == request[h]
    IN  /\ r # Idle
        /\ r.op # "adjust"
        /\ r.phase = "read"
        /\ request' = [request EXCEPT ![h] =
              IF Refused(r) THEN Idle
              ELSE [r EXCEPT !.phase = "transaction", !.changed = {},
                             !.body = IF r.op = "plan" THEN Planned(r.o, stock) ELSE @]]
        /\ UNCHANGED <<vars, started>>

(* The stock rows after the callback: every write is an $inc.              *)
NewRows(r) ==
    CASE r.op = "plan" -> Released(r.o, r.f)
      [] r.op = "accept" -> Reserving(stock, r.o, r.f.alloc)
      [] r.op = "override" -> Reserving(Released(r.o, r.f), r.o, r.body)
      [] r.op = "ship" -> Taking(stock, r.o, Unshipped(r.f))
      [] r.op = "consolidate" -> Sending(stock, r.o, r.body)

NewFulfillment(r) ==
    CASE r.op = "plan" -> r.body
      [] r.op = "accept" -> Accepted(r.f)
      [] r.op = "override" -> Overridden(r.o, r.body)
      [] r.op = "ship" -> ShippedAll(r.f)
      [] r.op = "consolidate" -> Consolidated(r.o, r.f, r.body)

(* A consolidation reads the order in its transaction, a shipment before.  *)
NewOrder(r) ==
    CASE r.op = "ship" -> OrderShipped(r.o, r.doc, Unshipped(r.f))
      [] r.op = "consolidate" -> OrderSent(r.o, order[r.o], r.body)
      [] OTHER -> r.read
OrderRead(r) == IF r.op = "consolidate" THEN order[r.o] ELSE r.read

(* Fault: updateOne is called without the session, and conflicts with none.*)
RowsWritten_NoSession(r) == {}
RowsWritten(r) ==
    LET held == IF r.f.reserved THEN RowsOf(r.o, r.f.alloc) ELSE {}
    IN  CASE r.op = "plan" -> held
          [] r.op = "accept" -> RowsOf(r.o, r.f.alloc)
          [] r.op = "override" -> held \cup RowsOf(r.o, r.body)
          [] r.op = "ship" -> RowsOf(r.o, Unshipped(r.f))
          [] r.op = "consolidate" -> RowsOf(r.o, r.body)

Writes(r) ==
    RowsWritten(r)
      \cup (IF NewFulfillment(r) # r.base THEN {FulfillmentDoc(r.o)} ELSE {})
      \cup (IF NewOrder(r) # OrderRead(r) THEN {OrderDoc(r.o)} ELSE {})

---------------------------------------------------------------------------
(* What save() stores: the fields that differ from what was read.          *)

Fields(stored, read, new) ==
    [x \in DOMAIN stored |-> IF new[x] # read[x] THEN new[x] ELSE stored[x]]

(* Marks and added units go to allocations by their position in the array. *)
(* Where the array was replaced meanwhile, position w may be any other.    *)
Positions(stored, read) ==
    IF stored.alloc = read.alloc THEN {[w \in Sites |-> w]} ELSE [Sites -> Sites]

ByPosition(stored, r, new, at) ==
    LET Joining(w, l) ==
            MapThenSumSet(LAMBDA v : new.alloc[v][l] - r.base.alloc[v][l],
                          {v \in Sites : at[v] = w})
    IN  [Fields(stored, r.base, new) EXCEPT
            !.alloc = [w \in Sites |-> [l \in LinesIn(r.o) |-> stored.alloc[w][l] + Joining(w, l)]],
            !.shipped = stored.shipped \cup {at[w] : w \in new.shipped \ r.base.shipped}]

Stored(r, at) ==
    LET stored == fulfillment[r.o]
        new == NewFulfillment(r)
    IN  IF r.op \in {"ship", "consolidate"} THEN ByPosition(stored, r, new, at)
                                            ELSE Fields(stored, r.base, new)

(* Everyone else learns that documents were written; the writer is done.   *)
Ended(h, docs) ==
    request' = [k \in Handlers |->
        IF k = h THEN Idle
        ELSE IF request[k] = Idle THEN Idle
        ELSE [request[k] EXCEPT !.since = @ \cup docs, !.changed = @ \cup docs]]

Commit(h) ==
    LET r == request[h]
    IN  /\ r # Idle
        /\ r.phase = "transaction"
        /\ Writes(r) \cap r.changed = {}
        /\ stock' = NewRows(r)
        /\ \E at \in Positions(fulfillment[r.o], r.base) :
              fulfillment' = [fulfillment EXCEPT ![r.o] = Stored(r, at)]
        /\ order' = [order EXCEPT ![r.o] = Fields(@, OrderRead(r), NewOrder(r))]
        /\ Ended(h, Writes(r))
        /\ UNCHANGED started

(* The attempt is aborted at its first write of a document that has        *)
(* changed.  Stock comes first: a shipment has by then marked and counted  *)
(* the allocations before that row, in an order nobody promises.           *)
AtRow(r) ==
    LET picked == Unshipped(r.f)
        Before(done) == [w \in Sites |->
            IF w \in done THEN picked[w] ELSE [l \in LinesIn(r.o) |-> 0]]
        reachable == {w \in Sites : Serves(picked, w)
                                       /\ RowsOf(r.o, Before({w})) \cap r.changed = {}}
    IN  IF r.op = "ship"
        THEN {[r EXCEPT !.f.shipped = @ \cup done,
                        !.doc.qtyShipped =
                            OrderShipped(r.o, r.doc, Before(done)).qtyShipped] :
                  done \in SUBSET reachable}
        ELSE {r}

(* Later the whole callback has run in memory.  A shipment whose order is  *)
(* what conflicts has saved its fulfillment, which so counts as unchanged; *)
(* a consolidation saves the order before it is done with the backorders.  *)
AtSave(r) ==
    CASE r.op = "ship" ->
            [r EXCEPT !.f = ShippedAll(r.f), !.doc = NewOrder(r),
                      !.base = IF FulfillmentDoc(r.o) \in r.changed THEN @ ELSE ShippedAll(r.f)]
      [] r.op = "consolidate" ->
            [r EXCEPT !.f = IF OrderDoc(r.o) \in r.changed THEN Joined(r.o, @, r.body)
                                                           ELSE NewFulfillment(r)]
      [] OTHER -> [r EXCEPT !.f = NewFulfillment(r)]

Abort(h) ==
    LET r == request[h]
    IN  /\ r # Idle
        /\ r.phase = "transaction"
        /\ Writes(r) \cap r.changed # {}
        /\ \E again \in IF RowsWritten(r) \cap r.changed # {} THEN AtRow(r) ELSE {AtSave(r)} :
              request' = [request EXCEPT ![h] = [again EXCEPT !.phase = "read"]]
        /\ UNCHANGED <<vars, started>>

(* stock.save() and the marking of the backorders the count covers.        *)
Adjusted(h) ==
    LET r == request[h]
    IN  /\ r # Idle
        /\ r.op = "adjust"
        /\ Recount(r.w, r.p, r.inStock)
        /\ Ended(h, {RowDoc(r.w, r.p)}
                      \cup {FulfillmentDoc(o) : o \in {k \in Orders : fulfillment'[k] # fulfillment[k]}})
        /\ UNCHANGED started

(* Invoicing saves the order outside of any transaction; that it did so is *)
(* all that matters here.  Bound: once in the time of a handler.           *)
InvoiceSaved(o) ==
    /\ \E h \in Handlers :
          /\ request[h].op \in {"ship", "consolidate"}
          /\ request[h].o = o
          /\ OrderDoc(o) \notin request[h].since
    /\ request' = [h \in Handlers |->
          IF request[h] = Idle THEN Idle
          ELSE [request[h] EXCEPT !.since = @ \cup {OrderDoc(o)}, !.changed = @ \cup {OrderDoc(o)}]]
    /\ UNCHANGED <<vars, started>>

Ask(h) ==
    \/ \E o \in Orders : AskPlan(h, o) \/ AskAccept(h, o) \/ AskShip(h, o)
    \/ \E o \in Orders : \E alloc \in OverrideRequests(o) : AskOverride(h, o, alloc)
    \/ \E o \in Orders :
          /\ Confirmed(o)
          /\ \E source \in [Waiting(fulfillment[o].back) -> Sites] : AskConsolidate(h, o, source)
    \/ \E w \in Sites, p \in Products, delta \in Deltas : AskAdjust(h, w, p, delta)

TxnNext ==
    \/ \E o \in Orders : Place(o) \/ InvoiceSaved(o)
    \/ \E h \in Handlers : Ask(h) \/ Begin(h) \/ Commit(h) \/ Abort(h) \/ Adjusted(h)

TxnSpec == TxnInit /\ [][TxnNext]_txnVars

---------------------------------------------------------------------------
(* What a handler decided from before its transaction began.               *)
Relied(r) ==
    CASE r.op = "adjust" -> {RowDoc(r.w, r.p)}
      [] r.op \in {"override", "consolidate"} -> {FulfillmentDoc(r.o)} \cup RowsOf(r.o, r.body)
      [] r.op = "ship" -> {FulfillmentDoc(r.o), OrderDoc(r.o)}
      [] OTHER -> {FulfillmentDoc(r.o)}

(* It was not written since, and the callback runs on what was read, not   *)
(* on what an aborted attempt left.                                        *)
Fresh(r) ==
    /\ Relied(r) \cap r.since = {}
    /\ r.op = "plan" => AllRows \cap r.changed = {}
    /\ r.op # "adjust" => r.f = r.base

Alone(r) ==
    CASE r.op = "plan" -> Plan(r.o)
      [] r.op = "accept" -> Accept(r.o)
      [] r.op = "override" -> Override(r.o, r.body)
      [] r.op = "ship" -> Ship(r.o)
      [] r.op = "consolidate" ->
            \E source \in [Waiting(fulfillment[r.o].back) -> Sites] : Consolidate(r.o, source)
      [] r.op = "adjust" -> Adjust(r.w, r.p, r.delta)

Wrote(h) == request[h] # Idle /\ request'[h] = Idle /\ vars' # vars

(* fulfillment.routes.ts:211, "atomically": as long as what it read before *)
(* its transaction is still so, a handler does what it would do alone,     *)
(* whoever wrote stock or other fulfillments meanwhile and however often   *)
(* it was called again.                                                    *)
FreshIsSerial == [][\A h \in Handlers : Wrote(h) /\ Fresh(request[h]) => Alone(request[h])]_txnVars

(* Units are promised twice only by who checked outside a transaction, and *)
(* checked rows that have changed since, or by counting stock down: an     *)
(* acceptance never does it, not even of a split accepted twice.           *)
OnlyStaleChecksOvercommit ==
    [][\A w \in Sites, p \in Products :
          Overcommitted(w, p)' /\ ~Overcommitted(w, p) =>
              \E h \in Handlers :
                  /\ Wrote(h)
                  /\ \/ request[h].op \in {"override", "consolidate", "adjust"}
                           /\ RowDoc(w, p) \in request[h].since
                     \/ request[h].op = "adjust" /\ request[h].delta < 0]_txnVars

(* fulfillment.routes.ts:407, "physical stock leaves, the order line's     *)
(* qtyShipped moves": what counts as shipped has left the warehouses, also *)
(* when the transaction was tried again.                                   *)
ShippedHasLeft ==
    [][\A h \in Handlers : Wrote(h) /\ request[h].op = "ship" => UnitsAreKept]_txnVars

(* fulfillment.routes.ts:218, "This split has already been accepted.":     *)
(* a split is reserved once.                                               *)
AcceptedOnce == \A w \in Sites, p \in Products : stock[w][p].reserved <= Held(w, p)
=============================================================================
