-------------------------------- MODULE Bell --------------------------------
(***************************************************************************)
(* The notification bell of one user in several tabs: rows written in      *)
(* MongoDB, pushed to the user's room over the socket, counted again for   *)
(* the badge, loaded over HTTP when the panel opens, and marked read by an *)
(* optimistic update.  Nothing orders the pushes of two handlers among     *)
(* each other, or a push and the answer of a load.                         *)
(***************************************************************************)
EXTENDS Naturals, Sequences, FiniteSets, SequencesExt

CONSTANTS
    Tabs,      \* the user's tabs
    Rows,      \* bound on the notifications written
    Window,    \* rows the panel keeps, and rows a load asks for
    Slots,     \* bound on the loads of one tab under way at a time
    Frames,    \* bound on the frames on the way to one tab
    Handlers,  \* bound on the handlers that have pushes left to make
    None       \* not loaded, nothing to mark

VARIABLES
    row,      \* rows in the order they were written: is each read?
    jobs,     \* what handlers have left to do about a change they committed
    frames,   \* frames on the way to each tab
    shown,    \* NotificationStore's list, None before the first
    loads,    \* the tab's GET /notifications
    marking   \* the tab's PATCH /:id/read or POST /read-all

vars == <<row, jobs, frames, shown, loads, marking>>

Ids == 1 .. Rows
All == 0   \* what a POST /read-all marks
Idle == [at |-> "idle"]

(* A handler writes the row, pushes it, counts the unread and pushes that. *)
Jobs == [do : {"announce"}, id : Ids]
          \cup [do : {"count"}, for : Tabs \cup {None}, id : {All} \cup Ids]
          \cup [do : {"push"}, for : Tabs \cup {None}, id : {All} \cup Ids, unread : 0 .. Rows]

Items == SeqOf([id : Ids, read : BOOLEAN], Window)
Lists == [items : Items, unread : Nat]

Init ==
    /\ row = <<>>
    /\ jobs = {}
    /\ frames = [t \in Tabs |-> <<>>]
    /\ shown = [t \in Tabs |-> None]
    /\ loads = [t \in Tabs |-> {[at |-> "sent"]}]
    /\ marking = [t \in Tabs |-> Idle]

---------------------------------------------------------------------------
(* The server.                                                             *)

Unread == Cardinality({n \in DOMAIN row : ~row[n]})

(* The newest rows first, as many as the panel holds.                      *)
Latest ==
    [i \in 1 .. (IF Len(row) < Window THEN Len(row) ELSE Window) |->
        [id |-> Len(row) + 1 - i, read |-> row[Len(row) + 1 - i]]]

(* io.to(the user's room).emit *)
Emit(frame) == frames' = [t \in Tabs |-> Append(frames[t], frame)]
Spare == Cardinality(jobs) < Handlers         \* bound
Room == \A t \in Tabs : Len(frames[t]) < Frames   \* bound

(* notifyUsers, about something that somebody else did: the row first.     *)
Notify ==
    /\ Len(row) < Rows
    /\ Spare
    /\ row' = Append(row, FALSE)
    /\ jobs' = jobs \cup {[do |-> "announce", id |-> Len(row) + 1]}
    /\ UNCHANGED <<frames, shown, loads, marking>>

(* notifyUsers after the insert: the row is emitted as it was written.     *)
Announce(job) ==
    /\ job.do = "announce"
    /\ Room
    /\ Emit([new |-> job.id])
    /\ jobs' = (jobs \ {job}) \cup {[do |-> "count", for |-> None, id |-> job.id]}
    /\ UNCHANGED <<row, shown, loads, marking>>

(* pushUnreadCount: the count is read in one step ...                      *)
CountUnread(job) ==
    /\ job.do = "count"
    /\ jobs' = (jobs \ {job})
                 \cup {[do |-> "push", for |-> job.for, id |-> job.id, unread |-> Unread]}
    /\ UNCHANGED <<row, frames, shown, loads, marking>>

(* ... and emitted in a later one.  A mark is answered after that.         *)
PushUnread(job) ==
    /\ job.do = "push"
    /\ Room
    /\ Emit([unread |-> job.unread])
    /\ jobs' = jobs \ {job}
    /\ marking' = IF job.for = None THEN marking ELSE [marking EXCEPT ![job.for] = [at |-> "answered"]]
    /\ UNCHANGED <<row, shown, loads>>

(* PATCH /:id/read and POST /read-all: saved, then counted.                *)
Mark(t) ==
    /\ marking[t].at = "sent"
    /\ Spare
    /\ LET id == marking[t].id
       IN  /\ row' = [n \in DOMAIN row |-> row[n] \/ id \in {All, n}]
           /\ jobs' = jobs \cup {[do |-> "count", for |-> t, id |-> id]}
    /\ marking' = [marking EXCEPT ![t] = [at |-> "saved"]]
    /\ UNCHANGED <<frames, shown, loads>>

Becomes(t, load, next) == loads' = [loads EXCEPT ![t] = (@ \ {load}) \cup next]

(* The same calls from another of the user's tabs.                         *)
MarkElsewhere(id) ==
    /\ Spare
    /\ \E n \in DOMAIN row : ~row[n] /\ id \in {All, n}
    /\ row' = [n \in DOMAIN row |-> row[n] \/ id \in {All, n}]
    /\ jobs' = jobs \cup {[do |-> "count", for |-> None, id |-> id]}
    /\ UNCHANGED <<frames, shown, loads, marking>>

(* GET /notifications: the rows and the count, read at one instant.        *)
Read(t, load) ==
    /\ load.at = "sent"
    /\ Becomes(t, load, {[at |-> "answer", items |-> Latest, unread |-> Unread]})
    /\ UNCHANGED <<row, jobs, frames, shown, marking>>

---------------------------------------------------------------------------
(* The socket: frames arrive in order, and those on the way, or emitted    *)
(* before it is back, are lost when it drops.  Nothing is asked for again. *)
(* A handler that fails after its commit, or ends with its process, leaves *)
(* the tab in the same place: the push it had left to make is lost.        *)
Drop(t) ==
    /\ frames[t] # <<>>
    /\ frames' = [frames EXCEPT ![t] = <<>>]
    /\ UNCHANGED <<row, jobs, shown, loads, marking>>

---------------------------------------------------------------------------
(* The store and the bell of one tab.                                      *)

Empty == [items |-> <<>>, unread |-> 0]
Held(t) == IF shown[t] = None THEN Empty ELSE shown[t]
IdsIn(items) == {items[i].id : i \in DOMAIN items}

(* Fault: a row that a load already brought is put on top again.           *)
Received_Again(list, id) ==
    [items |-> SubSeq(<<[id |-> id, read |-> FALSE]>> \o list.items, 1,
                      IF Len(list.items) < Window THEN Len(list.items) + 1 ELSE Window),
     unread |-> list.unread + 1]
(* NotificationStore.receive *)
Received(list, id) ==
    IF id \in IdsIn(list.items)
    THEN [list EXCEPT !.items = [i \in DOMAIN @ |->
                                    IF @[i].id = id THEN [id |-> id, read |-> FALSE] ELSE @[i]]]
    ELSE [items |-> SubSeq(<<[id |-> id, read |-> FALSE]>> \o list.items, 1,
                           IF Len(list.items) < Window THEN Len(list.items) + 1 ELSE Window),
          unread |-> list.unread + 1]

Deliver(t) ==
    /\ frames[t] # <<>>
    /\ frames' = [frames EXCEPT ![t] = Tail(@)]
    /\ LET frame == Head(frames[t])
       IN  shown' = [shown EXCEPT ![t] =
                        IF "new" \in DOMAIN frame
                        THEN Received(Held(t), frame.new)
                        ELSE [Held(t) EXCEPT !.unread = frame.unread]]
    /\ UNCHANGED <<row, jobs, loads, marking>>

(* load() has no guard: every answer replaces the list as it arrives.      *)
MaySend(t) == Cardinality(loads[t]) < Slots   \* bound
Sending(t) == [loads EXCEPT ![t] = @ \cup {[at |-> "sent"]}]

(* Fault: the badge is left to the pushes.                                 *)
Loaded_KeepsBadge(t, load) ==
    /\ load.at = "answer"
    /\ shown' = [shown EXCEPT ![t] = [items |-> load.items, unread |-> Held(t).unread]]
    /\ Becomes(t, load, {})
    /\ UNCHANGED <<row, jobs, frames, marking>>

Loaded(t, load) ==
    /\ load.at = "answer"
    /\ shown' = [shown EXCEPT ![t] = [items |-> load.items, unread |-> load.unread]]
    /\ Becomes(t, load, {})
    /\ UNCHANGED <<row, jobs, frames, marking>>

(* A lost answer leaves the tab where a lost request does.                 *)
LoadFails(t, load) ==
    /\ load.at = "sent"
    /\ Becomes(t, load, {})
    /\ UNCHANGED <<row, jobs, frames, shown, marking>>

(* toggle: the panel that opens loads; closing it changes nothing.         *)
Open(t) ==
    /\ MaySend(t)
    /\ loads' = Sending(t)
    /\ UNCHANGED <<row, jobs, frames, shown, marking>>

ReadIn(list, i) ==
    [items |-> [list.items EXCEPT ![i] = [@ EXCEPT !.read = TRUE]],
     unread |-> IF list.unread = 0 THEN 0 ELSE list.unread - 1]

(* openNotification of an unread row: read at once in the list, and sent.  *)
MarkRead(t, i) ==
    /\ marking[t] = Idle
    /\ i \in DOMAIN Held(t).items
    /\ ~Held(t).items[i].read
    /\ shown' = [shown EXCEPT ![t] = ReadIn(@, i)]
    /\ marking' = [marking EXCEPT ![t] = [at |-> "sent", id |-> Held(t).items[i].id]]
    /\ UNCHANGED <<row, jobs, frames, loads>>

(* "Mark all read", offered while the badge counts something.              *)
MarkAllRead(t) ==
    /\ marking[t] = Idle
    /\ Held(t).unread > 0
    /\ shown' = [shown EXCEPT ![t] = [items |-> [i \in DOMAIN @.items |-> [@.items[i] EXCEPT !.read = TRUE]],
                                      unread |-> 0]]
    /\ marking' = [marking EXCEPT ![t] = [at |-> "sent", id |-> All]]
    /\ UNCHANGED <<row, jobs, frames, loads>>

(* The call did not arrive: the tab goes on as after an answer.            *)
MarkLost(t) ==
    /\ marking[t].at = "sent"
    /\ marking' = [marking EXCEPT ![t] = [at |-> "answered"]]
    /\ UNCHANGED <<row, jobs, frames, shown, loads>>

(* finally { await this.load() } *)
Reconcile(t) ==
    /\ marking[t].at = "answered"
    /\ MaySend(t)
    /\ marking' = [marking EXCEPT ![t] = Idle]
    /\ loads' = Sending(t)
    /\ UNCHANGED <<row, jobs, frames, shown>>

---------------------------------------------------------------------------
Work(job) == Announce(job) \/ CountUnread(job) \/ PushUnread(job)
Answer(t, load) == Read(t, load) \/ Loaded(t, load)

Next ==
    \/ Notify
    \/ \E id \in {All} \cup Ids : MarkElsewhere(id)
    \/ \E job \in jobs : Work(job)
    \/ \E t \in Tabs :
          \/ Drop(t) \/ Deliver(t)
          \/ Open(t) \/ MarkAllRead(t)
          \/ \E i \in 1 .. Window : MarkRead(t, i)
          \/ Mark(t) \/ MarkLost(t) \/ Reconcile(t)
          \/ \E load \in loads[t] : Answer(t, load) \/ LoadFails(t, load)

Spec == Init /\ [][Next]_vars

(* A handler that started ends, a frame that was sent arrives or its       *)
(* socket drops, and a request is answered or fails.                       *)
Fairness ==
    /\ WF_vars(\E job \in jobs : Work(job))
    /\ \A t \in Tabs :
          /\ WF_vars(Deliver(t))
          /\ WF_vars(Mark(t))
          /\ WF_vars(Reconcile(t))
          /\ WF_vars(\E load \in loads[t] : Answer(t, load))

FairSpec == Spec /\ Fairness

---------------------------------------------------------------------------
TypeOK ==
    /\ row \in SeqOf(BOOLEAN, Rows)
    /\ jobs \subseteq Jobs
    /\ \A t \in Tabs :
          /\ shown[t] # None =>
                /\ Len(shown[t].items) <= Window
                /\ shown[t].unread \in Nat
          /\ Len(frames[t]) <= Frames

(* However pushes, loads and marks overtake each other, the panel shows no *)
(* row twice and none that the server does not hold.                       *)
NoRowTwice ==
    \A t \in Tabs :
        /\ IsInjective([i \in DOMAIN Held(t).items |-> Held(t).items[i].id])
        /\ IdsIn(Held(t).items) \subseteq DOMAIN row

(* What a tab shows is what the server holds.                              *)
Right(t) == shown[t] = [items |-> Latest, unread |-> Unread]

(* notification-bell.component.ts:24: "`load()` still runs on open", since *)
(* the panel "is the one place that has to be right when someone is        *)
(* reading it".  Whatever was missed or overtaken, a user who goes on      *)
(* opening the panel, with calls that do not fail forever, ends up with    *)
(* the rows and the badge of the server.                                   *)
Fails(t) == MarkLost(t) \/ \E load \in loads[t] : LoadFails(t, load)

PanelHeals ==
    \A t \in Tabs : ([]<><<Open(t)>>_vars /\ <>[][~Fails(t)]_vars) => <>[]Right(t)
=============================================================================
