------------------------------ MODULE Realtime ------------------------------
(***************************************************************************)
(* The rooms of the realtime server: where a connection is put by the      *)
(* identity it was resolved to, and which rooms a domain event is sent to. *)
(*                                                                         *)
(* An event about a deal is a record of what its payload names: the        *)
(* quotation, its customer's company and its owner.                        *)
(***************************************************************************)
CONSTANT None   \* no company, no quotation

UserRoom(u) == <<"user", u>>
RoleRoom(role) == <<"role", role>>
InternalRoom == <<"internal", "staff">>
QuotationRoom(q) == <<"quotation", q>>
CustomerRoom(c) == <<"customer", c>>

(* roomsFor: what an identity is entitled to, decided once.                *)
RoomsFor_BySide(id) ==
    {UserRoom(id.user), RoleRoom(id.role)} \cup
    (IF id.role = "CUSTOMER"
     THEN {QuotationRoom(q) : q \in {id.quotation} \ {None}}
     ELSE {InternalRoom})

RoomsFor(id) ==
    {UserRoom(id.user), RoleRoom(id.role)} \cup
    (IF id.role = "CUSTOMER"
     THEN {CustomerRoom(c) : c \in {id.company} \ {None}} \cup {QuotationRoom(q) : q \in {id.quotation} \ {None}}
     ELSE {InternalRoom})

---------------------------------------------------------------------------
(* What the payload of an event about a deal names, and the rooms of each  *)
(* event.                                                                  *)
News(quotation, customer, owner) == [quotation |-> quotation, customer |-> customer, owner |-> owner]

QuotationUpdated(e) ==
    {QuotationRoom(e.quotation), UserRoom(e.owner), CustomerRoom(e.customer),
     RoleRoom("SALES_MANAGER"), RoleRoom("ADMIN")}

ApprovalUpdated(e) ==
    {QuotationRoom(e.quotation), UserRoom(e.owner),
     RoleRoom("SALES_MANAGER"), RoleRoom("FINANCE"), RoleRoom("ADMIN")}

NegotiationEvent(e) ==
    {QuotationRoom(e.quotation), CustomerRoom(e.customer), UserRoom(e.owner)}

OrderUpdated(e) == {CustomerRoom(e.customer), InternalRoom, QuotationRoom(e.quotation)}

FulfillmentUpdated(e) == {CustomerRoom(e.customer), InternalRoom}

InvoiceUpdated(e) == {CustomerRoom(e.customer), RoleRoom("FINANCE"), RoleRoom("ADMIN")}

SubscriptionUpdated(e) == {CustomerRoom(e.customer), RoleRoom("FINANCE"), RoleRoom("ADMIN")}

AlertUpdated(e) == {UserRoom(e.owner), RoleRoom("SALES_MANAGER"), RoleRoom("ADMIN")}

StockUpdated == {InternalRoom}

ConfigUpdated == {InternalRoom}
=============================================================================
