----------------------------- MODULE GuestCalls -----------------------------
(* Voice-call signalling between guests and zone administrators: the          *)
(* in-memory tables of app/services/guest_call_service.py, the WebSocket      *)
(* frames of app/websocket/routes.py and the HTTP decisions that touch them.  *)
(*                                                                            *)
(* One asyncio loop runs every handler, so a handler is atomic up to the next *)
(* broadcast it awaits. A suspended handler is a task: one per user (a socket *)
(* reads its next frame when the handler of the last one returned) and one    *)
(* per call for its ring timeout.                                             *)
EXTENDS Integers, Sequences, FiniteSets, SequencesExt

CONSTANTS
    CallGuests, Admins, Zones,
    ZoneOf,       \* zone of each guest's access session
    AdminOf,      \* admin_owner_id of each guest's access session
    AdminsOf,     \* zone_administrator_owner_ids of each zone
    CallIds,      \* bound: an id is reused when nothing refers to it, and no
                  \* call starts while none is free
    MaxSuspended, \* bound: handlers suspended at the same time
    AdminCalls,   \* bound: the pairs of an administrator and a guest they call
    PendingIds,   \* client-side ids of invites that are still in flight
    NoCaller, NoId,
    Escalations,  \* values of access_reject_escalation the clients send
    Dropouts,     \* whether sockets may go away
    Decisions     \* whether administrators decide access requests meanwhile

ASSUME CallConstantsOK ==
    /\ ZoneOf \in [CallGuests -> Zones] /\ AdminOf \in [CallGuests -> Admins]
    /\ AdminsOf \in [Zones -> SUBSET Admins]
    /\ IsFiniteSet(Zones) /\ Zones # {}
    /\ CallIds \subseteq Nat \ {0} /\ CallIds \cap (CallGuests \cup Admins) = {}
    /\ MaxSuspended \in Nat /\ AdminCalls \subseteq Admins \X CallGuests
    /\ NoCaller \notin CallGuests /\ NoId \notin PendingIds
    /\ Escalations \subseteq BOOLEAN
    /\ Dropouts \in BOOLEAN /\ Decisions \in BOOLEAN

Users == CallGuests \cup Admins
Tasks == Users \cup CallIds

VARIABLES
    call,       \* _calls_by_id
    activeOf,   \* _active_by_guest; 0 for no entry
    queue,      \* _queue_by_zone
    cancelled,  \* _cancelled_client_call_ids
    task,       \* the suspended handlers
    online,     \* users with a live socket in ws_manager
    access      \* resolution of each guest's access session

callVars == <<call, activeOf, queue, cancelled, task, online, access>>

------------------------------------------------------------------------------
Item == [guest: CallGuests, admin: Admins, role: {"guest", "admin"}, esc: BOOLEAN]

NoCall == [state |-> "none"]
Call == [state: {"ringing", "connected"}, zone: Zones, guest: CallGuests, admin: Admins,
         role: {"guest", "admin"}, esc: BOOLEAN]

\* What a suspended handler does when it resumes, and after that.
\*   timeout: _timeout_call           closing: auto_close_escalated_access
\*   promote: promote_ready_queues    retry: an invite that lost to a promotion
\*   deliver: the CALL_INVITE of the first of todo is on its way to `to'
Task == [pc: {"idle", "timeout", "closing", "promote", "deliver", "retry"},
         then: {"idle", "promote", "retry"},
         todo: Seq(CallIds), to: SUBSET Users,
         strict: BOOLEAN,   \* end the calls whose invite reaches nobody
         guest: CallGuests \cup {NoCaller}, zone: Zones]

Idle == [pc |-> "idle", then |-> "idle", todo |-> <<>>, to |-> {}, strict |-> FALSE,
         guest |-> NoCaller, zone |-> CHOOSE z \in Zones : TRUE]

CallTypeOK ==
    /\ call \in [CallIds -> Call \cup {NoCall}]
    /\ activeOf \in [CallGuests -> CallIds \cup {0}]
    /\ queue \in [Zones -> Seq(Item)]
    /\ cancelled \subseteq PendingIds
    /\ task \in [Tasks -> Task]
    /\ online \subseteq Users
    /\ access \in [CallGuests -> {"pending", "approved", "rejected"}]

CallInit ==
    /\ call = [c \in CallIds |-> NoCall]
    /\ activeOf = [g \in CallGuests |-> 0]
    /\ queue = [z \in Zones |-> <<>>]
    /\ cancelled = {}
    /\ task = [k \in Tasks |-> Idle]
    /\ online \in IF Dropouts THEN SUBSET Users ELSE {Users}
    /\ access = [g \in CallGuests |-> "pending"]

------------------------------------------------------------------------------
(* The tables, as operators of a record, because starting the calls of        *)
(* several zones is one step of the program.                                  *)

Tables == [call |-> call, activeOf |-> activeOf, queue |-> queue, started |-> <<>>]

Live(s) == {c \in CallIds : s.call[c].state # "none"}
ZoneBusy(s, z) == \E c \in Live(s) : s.call[c].zone = z
AdminBusy(s, a) == \E c \in Live(s) : s.call[c].admin = a

\* Mutant of LineBusy: a zone whose other administrator is free takes a call.
LineBusyAdminOnly(s, z, a) == AdminBusy(s, a)

LineBusy(s, z, a) == ZoneBusy(s, z) \/ AdminBusy(s, a)
InCall(s, g) == s.activeOf[g] # 0 /\ s.activeOf[g] \in Live(s)
Waiting(s, g, z) == \E i \in DOMAIN s.queue[z] : s.queue[z][i].guest = g

\* Ids no call has and no suspended handler still holds.
FreeIds(s) ==
    LET held == UNION {ToSet(task[k].todo) : k \in Tasks}
    IN {c \in CallIds : s.call[c].state = "none" /\ task[c].pc = "idle" /\ c \notin held}

StartCall(s, z, item) ==
    LET c == CHOOSE free \in FreeIds(s) : TRUE
    IN [s EXCEPT !.call[c] = [state |-> "ringing", zone |-> z, guest |-> item.guest,
                              admin |-> item.admin, role |-> item.role, esc |-> item.esc],
                 !.activeOf[item.guest] = c,
                 !.started = Append(@, c)]

DropCalls(s, over) ==
    LET Forgotten(g) == s.activeOf[g] \in over \cap Live(s) /\ s.call[s.activeOf[g]].guest = g
    IN [s EXCEPT !.call = [c \in CallIds |-> IF c \in over THEN NoCall ELSE @[c]],
                 !.activeOf = [g \in CallGuests |-> IF Forgotten(g) THEN 0 ELSE @[g]]]

DropCall(s, c) == DropCalls(s, {c})

\* Mutant of PromoteZone: the head is started even if its guest is in a call.
PromoteZoneBlind(s, z) ==
    LET q == s.queue[z]
    IN IF ZoneBusy(s, z) \/ q = <<>> \/ AdminBusy(s, Head(q).admin) THEN s
       ELSE StartCall([s EXCEPT !.queue[z] = Tail(q)], z, Head(q))

\* Mutant of PromoteZone: a head whose administrator is busy loses its place.
PromoteZoneSkipping(s, z) ==
    LET q == s.queue[z]
        halt == {i \in DOMAIN q : ~AdminBusy(s, q[i].admin) /\ ~InCall(s, q[i].guest)}
        h == CHOOSE i \in halt : \A j \in halt : i <= j
    IN IF ZoneBusy(s, z) \/ FreeIds(s) = {} THEN s
       ELSE IF halt = {} THEN [s EXCEPT !.queue[z] = <<>>]
       ELSE StartCall([s EXCEPT !.queue[z] = SubSeq(q, h + 1, Len(q))], z, q[h])

\* Start the head of a free zone line; waiting guests who are in a call lose
\* their place, a head whose administrator is busy holds the line.
PromoteZone(s, z) ==
    LET q == s.queue[z]
        halt == {i \in DOMAIN q : AdminBusy(s, q[i].admin) \/ ~InCall(s, q[i].guest)}
        h == CHOOSE i \in halt : \A j \in halt : i <= j
    IN IF ZoneBusy(s, z) \/ FreeIds(s) = {} THEN s
       ELSE IF halt = {} THEN [s EXCEPT !.queue[z] = <<>>]
       ELSE IF AdminBusy(s, q[h].admin) THEN [s EXCEPT !.queue[z] = SubSeq(q, h, Len(q))]
       ELSE StartCall([s EXCEPT !.queue[z] = SubSeq(q, h + 1, Len(q))], z, q[h])

\* _queue_by_zone is walked in the order its keys were inserted.
ZoneOrders == SetToSeqs(Zones)

\* The tables after the first zones of an order.
Promoting(order) ==
    LET done[i \in 0..Len(order)] ==
            IF i = 0 THEN Tables ELSE PromoteZone(done[i - 1], order[i])
    IN done

Promotions == {Promoting(order)[Len(order)] : order \in ZoneOrders}

------------------------------------------------------------------------------
(* Suspending and resuming *)

Suspend(k, s, t) ==
    /\ call' = s.call /\ activeOf' = s.activeOf /\ queue' = s.queue
    /\ task' = [task EXCEPT ![k] = t]

Receivers(s, c) ==
    IF s.call[c].role = "guest" THEN AdminsOf[s.call[c].zone] \cup {s.call[c].admin}
                                ELSE {s.call[c].guest}

\* Send the invites of todo. A call without a connected receiver is ended on
\* the spot when strict, without a broadcast and without a promotion.
Deliver(k, s, todo, strict, then, g) ==
    LET reached(c) == c \in Live(s) /\ Receivers(s, c) \cap online # {}
        missed == {i \in DOMAIN todo : \A j \in 1..i : ~reached(todo[j])}
        m == Cardinality(missed)
        t == IF strict THEN DropCalls(s, {todo[i] : i \in missed}) ELSE s
    IN Suspend(k, t,
           IF m < Len(todo)
           THEN [Idle EXCEPT !.pc = "deliver", !.then = then, !.strict = strict, !.guest = g,
                             !.todo = SubSeq(todo, m + 1, Len(todo)),
                             !.to = Receivers(s, todo[m + 1]) \cap online]
           ELSE [Idle EXCEPT !.pc = then, !.guest = g])

\* Mutant of Ending: the handler returns without promoting.
EndingQuietly(c, auto, strict) ==
    IF auto THEN [Idle EXCEPT !.pc = "closing", !.guest = call[c].guest, !.zone = call[c].zone]
            ELSE Idle

\* A call ended: first its broadcast, then the auto-close if due, then the queues.
Ending(c, auto, strict) ==
    IF auto THEN [Idle EXCEPT !.pc = "closing", !.then = "promote", !.strict = strict,
                              !.guest = call[c].guest, !.zone = call[c].zone]
            ELSE [Idle EXCEPT !.pc = "promote", !.strict = strict]

MaySuspend == Cardinality({k \in Tasks : task[k].pc # "idle"}) < MaxSuspended

Free(u) == u \in online /\ task[u].pc = "idle" /\ MaySuspend

\* Mutant of AutoClosed: an approved request is closed too.
AutoClosedAny(g, z) == IF ZoneOf[g] = z THEN [access EXCEPT ![g] = "rejected"] ELSE access

\* auto_close_escalated_access: only a request that is still pending is closed.
AutoClosed(g, z) ==
    IF ZoneOf[g] = z /\ access[g] = "pending" THEN [access EXCEPT ![g] = "rejected"]
                                              ELSE access

------------------------------------------------------------------------------
(* CALL_INVITE *)

\* The guest has a live call: repeat its invite while it rings.
InviteAgain(u, s, g) ==
    IF call[activeOf[g]].state = "ringing"
    THEN Deliver(u, s, <<activeOf[g]>>, TRUE, "idle", NoCaller)
    ELSE Suspend(u, s, Idle)

\* enqueue_or_start, and the deliveries its caller then awaits. s is the state
\* after the promotions a free line allows.
EnqueueOrStart(u, z, item, s) ==
    LET g == item.guest
        parked == [s EXCEPT !.queue[z] = Append(@, item)]
        new == StartCall(s, z, item)
    IN IF Waiting(s, g, z) THEN Deliver(u, s, s.started, TRUE, "idle", NoCaller)
       ELSE IF LineBusy(s, z, item.admin) \/ s.queue[z] # <<>>
       THEN Deliver(u, parked, s.started, TRUE, "idle", NoCaller)
       ELSE IF InCall(s, g) THEN Deliver(u, s, s.started, TRUE, "retry", g)
       ELSE FreeIds(s) # {} /\ Deliver(u, new, new.started, TRUE, "idle", NoCaller)

\* Mutant of Invite: a guest who already waits is not looked for.
InviteTwice(u, z, item) ==
    /\ IF InCall(Tables, item.guest) THEN InviteAgain(u, Tables, item.guest)
       ELSE \E s \in IF LineBusy(Tables, z, item.admin) THEN {Tables} ELSE Promotions :
                EnqueueOrStart(u, z, item, s)
    /\ UNCHANGED <<cancelled, online, access>>

Invite(u, z, item) ==
    /\ IF InCall(Tables, item.guest) THEN InviteAgain(u, Tables, item.guest)
       ELSE IF Waiting(Tables, item.guest, z) THEN Suspend(u, Tables, Idle)
       ELSE \E s \in IF LineBusy(Tables, z, item.admin) THEN {Tables} ELSE Promotions :
                EnqueueOrStart(u, z, item, s)
    /\ UNCHANGED <<cancelled, online, access>>

\* The client already cancelled the id this invite carries.
LateInvite(u, id) ==
    /\ Free(u) /\ id \in cancelled
    /\ cancelled' = cancelled \ {id}
    /\ UNCHANGED <<call, activeOf, queue, task, online>>

LateGuestInvite(g, esc, id) ==
    LateInvite(g, id) /\ access' = IF esc THEN AutoClosed(g, ZoneOf[g]) ELSE access

LateAdminInvite(a, id) == LateInvite(a, id) /\ UNCHANGED access

GuestInvite(g, esc) ==
    /\ Free(g)
    /\ (AdminsOf[ZoneOf[g]] \cup {AdminOf[g]}) \cap online # {}
    /\ Invite(g, ZoneOf[g], [guest |-> g, admin |-> AdminOf[g], role |-> "guest", esc |-> esc])

AdminInvite(a, g, z, esc) ==
    /\ <<a, g>> \in AdminCalls /\ a \in AdminsOf[z]
    /\ Free(a) /\ g \in online
    /\ Invite(a, z, [guest |-> g, admin |-> a, role |-> "admin", esc |-> esc])

------------------------------------------------------------------------------
(* Frames about a live call. An administrator of the zone who acts on a call  *)
(* owns it from then on.                                                      *)

Party(u, c) ==
    /\ call[c].state # "none"
    /\ u \in {call[c].guest, call[c].admin} \cup AdminsOf[call[c].zone]
    /\ Free(u)

RoleOf(u) == IF u \in CallGuests THEN "guest" ELSE "admin"

OwnedBy(u, c) == [call[c] EXCEPT !.admin = IF u \in Admins THEN u ELSE @]

Accept(u, c) ==
    /\ Party(u, c)
    /\ call[c].state = "ringing" /\ call[c].role # RoleOf(u)
    /\ call' = [call EXCEPT ![c] = [OwnedBy(u, c) EXCEPT !.state = "connected"]]
    /\ UNCHANGED <<activeOf, queue, cancelled, task, online, access>>

\* CALL_REJECT or CALL_CANCEL, or CALL_END when hangup.
Close(u, c, hangup) ==
    /\ Party(u, c)
    /\ Suspend(u, DropCall(Tables, c),
               Ending(c, call[c].esc /\ call[c].state = "ringing" /\ ~hangup, TRUE))
    /\ UNCHANGED <<cancelled, online, access>>

\* CALL_SYNC, CALL_SIGNAL, CALL_LIVEKIT or a refused CALL_ACCEPT of another admin.
TakeOver(a, c) ==
    /\ Party(a, c) /\ a # call[c].admin
    /\ call' = [call EXCEPT ![c] = OwnedBy(a, c)]
    /\ UNCHANGED <<activeOf, queue, cancelled, task, online, access>>

------------------------------------------------------------------------------
(* CALL_CANCEL, CALL_REJECT and CALL_END without a live call *)

MayCancel(u, item) ==
    \/ u = item.guest /\ ~InCall(Tables, u)
    \/ u = item.admin /\ (item.role = "admin" \/ ~InCall(Tables, item.guest))

CancelQueued(u, z, id, esc) ==
    /\ queue[z] # <<>> /\ Free(u)
    /\ \E i \in DOMAIN queue[z] :
           LET item == queue[z][i]
           IN /\ MayCancel(u, item)
              /\ queue' = [queue EXCEPT ![z] = RemoveAt(@, i)]
              /\ task' = [task EXCEPT ![u] =
                     IF item.esc \/ esc
                     THEN [Idle EXCEPT !.pc = "closing", !.guest = item.guest, !.zone = z]
                     ELSE Idle]
    /\ cancelled' = cancelled \cup ({id} \cap PendingIds)
    /\ UNCHANGED <<call, activeOf, online, access>>

\* No live call is meant and no waiting one is dropped: none is there, another
\* administrator waits with it, it is a CALL_END, or the frame names no guest.  The id
\* is remembered so that a late invite is dropped.
CancelUnknown(u, g, id, esc) ==
    LET mine == {item \in UNION {ToSet(queue[z]) : z \in Zones} : item.guest = g}
    IN  /\ Free(u)
        /\ u \in CallGuests => u = g /\ ~InCall(Tables, g)
        /\ esc => /\ ~InCall(Tables, g)
                  /\ \/ mine = {}
                     \/ u \in Admins /\ \E item \in mine : item.admin # u
        /\ cancelled' = cancelled \cup {id}
        /\ access' = IF esc THEN AutoClosed(g, ZoneOf[g]) ELSE access
        /\ UNCHANGED <<call, activeOf, queue, task, online>>

------------------------------------------------------------------------------
(* The suspended handlers resume *)

\* The ring timer fires and schedules _timeout_call; answering disarms it.
TimerFires(c) ==
    /\ call[c].state = "ringing" /\ task[c].pc = "idle" /\ MaySuspend
    /\ task' = [task EXCEPT ![c].pc = "timeout"]
    /\ UNCHANGED <<call, activeOf, queue, cancelled, online, access>>

\* Mutant of RunTimeout: the state of the call is not looked at again.
RunTimeoutAnyState(c) ==
    /\ task[c].pc = "timeout"
    /\ IF call[c].state # "none" THEN Suspend(c, DropCall(Tables, c), Ending(c, call[c].esc, FALSE))
                                 ELSE Suspend(c, Tables, Idle)
    /\ UNCHANGED <<cancelled, online, access>>

\* Mutant of RunTimeout: an administrator's call never times out.
RunTimeoutGuestCalls(c) ==
    /\ task[c].pc = "timeout"
    /\ IF call[c].state = "ringing" /\ call[c].role = "guest"
       THEN Suspend(c, DropCall(Tables, c), Ending(c, call[c].esc, FALSE))
       ELSE Suspend(c, Tables, Idle)
    /\ UNCHANGED <<cancelled, online, access>>

\* Mutant of RunTimeout: a missed call does not promote.
RunTimeoutQuietly(c) ==
    /\ task[c].pc = "timeout"
    /\ IF call[c].state = "ringing" THEN Suspend(c, DropCall(Tables, c), Idle)
                                    ELSE Suspend(c, Tables, Idle)
    /\ UNCHANGED <<cancelled, online, access>>

RunTimeout(c) ==
    /\ task[c].pc = "timeout"
    /\ IF call[c].state = "ringing" THEN Suspend(c, DropCall(Tables, c), Ending(c, call[c].esc, FALSE))
                                    ELSE Suspend(c, Tables, Idle)
    /\ UNCHANGED <<cancelled, online, access>>

AutoClose(k) ==
    /\ task[k].pc = "closing"
    /\ access' = AutoClosed(task[k].guest, task[k].zone)
    /\ task' = [task EXCEPT ![k] =
           [Idle EXCEPT !.pc = task[k].then, !.strict = task[k].strict]]
    /\ UNCHANGED <<call, activeOf, queue, cancelled, online>>

PromoteReady(k) ==
    /\ task[k].pc = "promote"
    /\ \E s \in Promotions : Deliver(k, s, s.started, task[k].strict, "idle", NoCaller)
    /\ UNCHANGED <<cancelled, online, access>>

\* A CALL_INVITE broadcast returned; a strict one that no socket took ends the call.
Delivered(k) ==
    /\ task[k].pc = "deliver"
    /\ LET t == task[k]
           s == IF t.strict /\ t.to = {} THEN DropCall(Tables, Head(t.todo)) ELSE Tables
       IN Deliver(k, s, Tail(t.todo), t.strict, t.then, t.guest)
    /\ UNCHANGED <<cancelled, online, access>>

\* The invited guest got a call from a promotion. If that call is already over,
\* an administrator is told so and the guest's handler dies with its socket.
Retry(k) ==
    LET g == task[k].guest
    IN /\ task[k].pc = "retry"
       /\ IF InCall(Tables, g) THEN InviteAgain(k, Tables, g) ELSE Suspend(k, Tables, Idle)
       /\ online' = IF InCall(Tables, g) \/ k \in Admins THEN online ELSE online \ {k}
       /\ UNCHANGED <<cancelled, access>>

------------------------------------------------------------------------------
(* Sockets and HTTP decisions *)

\* A guest whose access was rejected does not get a new socket.
Connect(u) ==
    /\ u \notin online
    /\ u \in CallGuests => access[u] # "rejected"
    /\ online' = online \cup {u}
    /\ UNCHANGED <<call, activeOf, queue, cancelled, task, access>>

\* The socket dies; a broadcast under way does not reach it any more.
Disconnect(u) ==
    /\ Dropouts /\ u \in online
    /\ online' = online \ {u}
    /\ task' = [k \in Tasks |-> [task[k] EXCEPT !.to = @ \ {u}]]
    /\ UNCHANGED <<call, activeOf, queue, cancelled, access>>

\* The approval of a guest leaves the guest's waiting calls in their lines.
ApproveGuest(g) ==
    /\ Decisions /\ access[g] = "pending"
    /\ access' = [access EXCEPT ![g] = "approved"]
    /\ UNCHANGED <<call, activeOf, queue, cancelled, task, online>>

\* remove_queued_for_guest: what is kept of a line, item by item.
Keeping(q, g) ==
    LET kept[i \in 0..Len(q)] ==
            IF i = 0 THEN <<>>
            ELSE IF q[i].guest = g THEN kept[i - 1] ELSE Append(kept[i - 1], q[i])
    IN kept

Without(q, g) == Keeping(q, g)[Len(q)]

\* Rejecting a guest also takes them out of every waiting line.
RejectGuest(g) ==
    /\ Decisions /\ access[g] \in {"pending", "approved"}
    /\ access' = [access EXCEPT ![g] = "rejected"]
    /\ queue' = [z \in Zones |-> Without(queue[z], g)]
    /\ UNCHANGED <<call, activeOf, cancelled, task, online>>

------------------------------------------------------------------------------
Ids == PendingIds \cup {NoId}

InviteStep ==
    \/ \E g \in CallGuests, esc \in Escalations :
           \/ GuestInvite(g, esc)
           \/ \E id \in PendingIds : LateGuestInvite(g, esc, id)
           \/ \E a \in Admins, z \in Zones : AdminInvite(a, g, z, esc)
    \/ \E a \in Admins, id \in PendingIds : LateAdminInvite(a, id)

CallStep(c) ==
    \/ \E u \in Users :
           \/ Accept(u, c)
           \/ \E hangup \in BOOLEAN : Close(u, c, hangup)
    \/ \E a \in Admins : TakeOver(a, c)
    \/ TimerFires(c)

CancelStep ==
    \E u \in Users, esc \in Escalations :
        \/ \E z \in Zones, id \in Ids : CancelQueued(u, z, id, esc)
        \/ \E g \in CallGuests, id \in PendingIds : CancelUnknown(u, g, id, esc)

Resume(k) ==
    \/ k \in CallIds /\ RunTimeout(k)
    \/ AutoClose(k) \/ PromoteReady(k) \/ Delivered(k) \/ Retry(k)

SocketStep == \E u \in Users : Connect(u) \/ Disconnect(u)

DecisionStep == \E g \in CallGuests : ApproveGuest(g) \/ RejectGuest(g)

CallNext ==
    \/ InviteStep
    \/ \E c \in CallIds : CallStep(c)
    \/ CancelStep
    \/ \E k \in Tasks : Resume(k)
    \/ SocketStep
    \/ DecisionStep

CallSpec == CallInit /\ [][CallNext]_callVars

\* The loop runs every scheduled callback, ring timers fire and the parties of a
\* connected call hang up at last.
CallFairness ==
    /\ \A k \in Tasks : WF_callVars(Resume(k))
    /\ \A z \in Zones :
           /\ SF_callVars(\E c \in CallIds : call[c].state # "none" /\ call[c].zone = z /\ TimerFires(c))
           /\ SF_callVars(\E c \in CallIds, u \in Users :
                          call[c].state = "connected" /\ call[c].zone = z /\ Close(u, c, TRUE))

CallLiveSpec == CallSpec /\ CallFairness

------------------------------------------------------------------------------
(* Properties *)

\* A zone has one line: at most one live call, however invites, promotions and
\* endings overlap (_line_busy, _promote_holding_lock).
LineExclusive ==
    \A c, d \in Live(Tables) : call[c].zone = call[d].zone => c = d

\* A guest has one live call, the one _active_by_guest names, even when waiting
\* in the lines of two zones (create_call, _drop_call).
OneCallPerGuest ==
    /\ \A c \in Live(Tables) : activeOf[call[c].guest] = c
    /\ \A g \in CallGuests : activeOf[g] # 0 => InCall(Tables, g) /\ call[activeOf[g]].guest = g

\* A guest stands in a zone's line at most once, and not while in a call there
\* (_find_queued).
QueueSound ==
    \A z \in Zones : \A i \in DOMAIN queue[z] :
        LET g == queue[z][i].guest
        IN /\ \A j \in DOMAIN queue[z] : queue[z][j].guest = g => i = j
           /\ InCall(Tables, g) => call[activeOf[g]].zone # z

\* First come, first served: when a call of a zone starts, nobody who waited
\* longer in its line is left waiting (enqueue_or_start, _promote_holding_lock).
NoOvertaking ==
    [][\A c \in CallIds : call[c].state = "none" /\ call'[c].state = "ringing" =>
        LET z == call'[c].zone
        IN \A i \in DOMAIN queue[z] :
               (\E j \in DOMAIN queue'[z] : queue'[z][j].guest = queue[z][i].guest)
                   => \E j \in 1..i - 1 : queue[z][j].guest = call'[c].guest]_callVars

\* A call that was answered is never ended by its ring timer, even if the timer
\* had fired before the answer came (_timeout_call).
TimeoutSparesAnswered ==
    [][\A c \in CallIds : call[c].state = "connected" /\ call'[c].state = "none"
           => task'[c] = task[c]]_callVars

\* Only an administrator's decision turns an approved guest away: an escalated
\* call that fails after the approval does not (auto_close_escalated_access).
AutoCloseSparesApproved ==
    [][\A g \in CallGuests : access[g] = "approved" /\ access'[g] = "rejected"
           => RejectGuest(g)]_callVars

\* "The other party is invited when the line frees": a waiting guest always has
\* a live call, or a handler about to promote, to wait for (routes.py:149).
NoStrandedQueue ==
    (\E z \in Zones : queue[z] # <<>>) =>
        \/ Live(Tables) # {}
        \/ \E k \in Tasks : "promote" \in {task[k].pc, task[k].then}

\* A call that rings is answered or over at some point (call_later in create_call).
RingingEnds ==
    \A c \in CallIds : call[c].state = "ringing" ~> call[c].state # "ringing"

StaffOf(z) == AdminsOf[z] \cup {AdminOf[g] : g \in {g \in CallGuests : ZoneOf[g] = z}}
OwnLine(z) == \A y \in Zones \ {z} : StaffOf(y) \cap StaffOf(z) = {}

\* Whoever waits for a line whose administrators serve no other zone gets a call or
\* leaves the line, however long the line is and whoever keeps calling
\* (enqueue_or_start, _promote_holding_lock).
WaitingEnds ==
    \A g \in CallGuests, z \in {z \in Zones : OwnLine(z)} :
        Waiting(Tables, g, z) ~> ~Waiting(Tables, g, z)

\* "The other party is invited when the line frees" (routes.py:149), in whichever zone
\* the guest waits.
EverybodyIsServed ==
    \A g \in CallGuests, z \in Zones : Waiting(Tables, g, z) ~> ~Waiting(Tables, g, z)

\* Who talks on the line of each zone, and who waits for it.
Talking == [z \in Zones |-> {call[c].guest : c \in {c \in CallIds : call[c].state # "none" /\ call[c].zone = z}}]
WaitingLine == [z \in Zones |-> [i \in DOMAIN queue[z] |-> queue[z][i].guest]]

Lines == INSTANCE WaitingLines WITH Guests <- CallGuests, talking <- Talking, waiting <- WaitingLine

\* app/services/guest_call_service.py: "A call waiting for the zone line, same FIFO
\* idea as pending guest chat." The invites, promotions, endings and cancellations of all zones implement
\* WaitingLines: whoever is first in a free line gets it, unless another line serves
\* that guest in the same step or already.
ServesLines == Lines!Spec
=============================================================================
