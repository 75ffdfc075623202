----------------------------- MODULE GuestChat -----------------------------
(* The Access channel of one network and the chat between members: the PERMISSION
   and CHAT rows of zone_message_events, who may write to whom while a guest
   waits, what the merged inbox and the two views of a guest's thread show, and
   the guest's paging through it. A row is written and committed without a
   suspension point, so each handler is one action. *)
EXTENDS Integers, Sequences, SequencesExt, FiniteSets, FiniteSetsExt

CONSTANTS
    GcGuests,       \* guest ids; every arrival gets a new one
    GcOwners,       \* owners, by id (a set of naturals)
    GcAdmins,       \* the owners with role administrator
    GcNet,          \* owner -> its network id
    GcRoot,         \* owner -> its account root
    HomeNet,        \* the network the guests come to
    ZoneOwner,      \* owner_id of its first active zone record
    AdminScan,      \* newest chats of the administrator that are searched
    PageSize,       \* rows on a page
    MaxRows,        \* bound: rows of both tables
    MaxAside        \* bound: rules and inactive owners at a time

ASSUME GuestChatConstantsOK ==
    /\ GcOwners \subseteq Nat \ {0} /\ 0 \notin GcGuests
    /\ GcAdmins \subseteq GcOwners /\ ZoneOwner \in GcOwners \cup {0}
    /\ AdminScan \in Nat /\ PageSize \in Nat \ {0}

VARIABLES
    visits,         \* guest_access_sessions, by guest
    arrivals,       \* guests in the order of created_at
    rows,           \* zone_message_events of types PERMISSION and CHAT, oldest first
    chats,          \* messages: chat between members, oldest first
    gcLive,         \* owners with active = TRUE
    mutes,          \* owners with a rule against CHAT
    shuns,          \* <<owner, sender>>: rules against a member
    reader          \* the guest paging through GET /api/guest/messages

gcVars == <<visits, arrivals, rows, chats, gcLive, mutes, shuns, reader>>

None == 0           \* NULL in a column that holds an owner id
NoRow == 0

NoVisit == [kind |-> "none", status |-> "none", admin |-> None]
NoReader == [guest |-> None, peer |-> None, cursor |-> NoRow, seen |-> <<>>, done |-> FALSE]

-----------------------------------------------------------------------------
(* Staff *)

\* resolve_network_administrator
LowestAdmin ==
    LET admins == {o \in GcAdmins \cap gcLive : GcNet[o] = HomeNet}
    IN  IF admins = {} THEN None ELSE Min(admins)

\* resolve_primary_zone_admin_owner: the zone's owner before the administrators.
PrimaryAdmin == IF ZoneOwner \in gcLive THEN ZoneOwner ELSE LowestAdmin

\* zone_staff_owner_ids; the owner of the zone whether active or not.
Staff == {o \in gcLive : GcNet[o] = HomeNet} \cup ({ZoneOwner} \ {None})

\* pick_co_owner_for_direct_permission
CoOwner(o) == IF Staff \ {o} = {} THEN o ELSE Min(Staff \ {o})

\* zone_listing_owner_ids
Listed(o) ==
    IF o \in GcAdmins THEN {x \in gcLive : GcRoot[x] = GcRoot[o]} ELSE {o, GcRoot[o]}

\* can_manage_zone_guest_requests
CanManage(o) ==
    \/ ZoneOwner \in Listed(o)
    \/ GcNet[o] = HomeNet
    \/ o \in GcAdmins /\ \E x \in Listed(o) \cap gcLive : GcNet[x] = HomeNet

\* is_delivery_blocked; a guest is None.
Refuses(o, sender) == o \in mutes \/ <<o, sender>> \in shuns

-----------------------------------------------------------------------------
(* Whose turn it is *)

Here(g) == visits[g].kind # "none"

\* pending_network_chat_admin_owner_id: who a waiting guest may write to.
PendingAdmin(g) == IF visits[g].status = "pending" THEN visits[g].admin ELSE None

Waiting == {i \in DOMAIN arrivals : visits[arrivals[i]].status = "pending"}

\* Mutant of QueueHead: the newest request is taken for the first.
QueueHeadNewest == IF Waiting = {} THEN None ELSE arrivals[Max(Waiting)]

\* pending_network_chat_queue_head
QueueHead == IF Waiting = {} THEN None ELSE arrivals[Min(Waiting)]

\* admin_has_initiated_pending_chat, in the newest chats of that administrator
SentBy(o) == {i \in DOMAIN rows : rows[i].type = "CHAT" /\ rows[i].from = o}
AdminWroteTo(g) ==
    \E i \in SentBy(visits[g].admin) :
        rows[i].guest = g /\ Cardinality({j \in SentBy(visits[g].admin) : j > i}) < AdminScan

\* guest_is_pending_chat_eligible; the guest is told so by chat_queue_waiting.
Eligible(g) == PendingAdmin(g) # None /\ (QueueHead = g \/ AdminWroteTo(g))

\* require_guest_bearer_session_active, for the HTTP routes
GuestServed(g) ==
    /\ Here(g) /\ visits[g].status \notin {"rejected", "revoked"}
    /\ visits[g].kind = "unexpected" => visits[g].status = "approved"

\* _guest_messaging_peer_owner_ids, of which only active owners are listed
Peers(g) ==
    LET admin == IF visits[g].admin # None THEN visits[g].admin ELSE LowestAdmin
    IN  {admin} \cap gcLive

-----------------------------------------------------------------------------
(* What is shown *)

\* _guest_thread_row_matches_peer; no peer shows the whole thread.
InThread(r, g, peer) ==
    /\ r.guest = g
    /\ r.type = "CHAT" /\ peer # None => peer \in {r.from, r.to}

Thread(g, peer) == {i \in DOMAIN rows : InThread(rows[i], g, peer)}

\* merged_inbox_permission_event_visible: a broadcast is for the managers of the
\* zone while an unexpected guest waits, and for its two parties ever after.
PermissionShown(o, r) ==
    \/ o \in {r.from, r.to}
    \/ /\ r.broadcast
       /\ visits[r.guest].kind = "unexpected" /\ visits[r.guest].status = "pending"
       /\ CanManage(o)

\* list_zone_guest_access_chat_events_for_owner_inbox
AccessChatShown(o, r) == CanManage(o) /\ (r.from = o \/ (r.from = None /\ r.to = o))

\* The Access rows of GET /messages, after filter_zone_message_responses_for_viewer.
GuestInbox(o) ==
    {i \in DOMAIN rows :
        IF rows[i].type = "CHAT"
        THEN AccessChatShown(o, rows[i]) /\ ~Refuses(o, rows[i].from)
        ELSE PermissionShown(o, rows[i]) /\ <<o, rows[i].from>> \notin shuns}

\* list_guest_access_thread_for_zone_member
MemberThread(o, g, peer) ==
    {i \in Thread(g, peer) :
        /\ rows[i].type = "PERMISSION" => PermissionShown(o, rows[i])
        /\ IF rows[i].type = "CHAT" THEN ~Refuses(o, rows[i].from)
           ELSE <<o, rows[i].from>> \notin shuns}

\* list_visible_messages: what owners of the viewer's network sent, to everybody
\* or in private from or to the viewer.
MemberInbox(o) ==
    {i \in DOMAIN chats :
        /\ GcNet[chats[i].from] = GcNet[o]
        /\ chats[i].to # None => o \in {chats[i].from, chats[i].to}
        /\ ~(chats[i].to # None /\ o \in mutes) /\ <<o, chats[i].from>> \notin shuns}

-----------------------------------------------------------------------------
(* Arrivals and decisions *)

Write(type, g, from, to, broadcast) ==
    /\ Len(rows) + Len(chats) < MaxRows
    /\ rows' = Append(rows, [type |-> type, guest |-> g, from |-> from, to |-> to,
                             broadcast |-> broadcast])

NewVisit(g, kind, status, admin) ==
    /\ ~Here(g)
    /\ visits' = [visits EXCEPT ![g] = [kind |-> kind, status |-> status, admin |-> admin]]
    /\ arrivals' = Append(arrivals, g)
    /\ UNCHANGED <<chats, gcLive, mutes, shuns, reader>>

\* The pass was requested by one owner; nobody reviewed it.
ArriveExpected(g, requester) ==
    /\ NewVisit(g, "expected", "approved", None)
    /\ Write("PERMISSION", g, requester, CoOwner(requester), FALSE)

ArriveUnexpected(g) ==
    /\ PrimaryAdmin # None
    /\ NewVisit(g, "unexpected", "pending", PrimaryAdmin)
    /\ Write("PERMISSION", g, PrimaryAdmin, PrimaryAdmin, TRUE)

ArriveAtNetwork(g) ==
    /\ LowestAdmin # None
    /\ NewVisit(g, "network", "pending", LowestAdmin)
    /\ Write("PERMISSION", g, LowestAdmin, CoOwner(LowestAdmin), TRUE)

\* approve_guest, reject_guest: the row goes to the session's administrator, or
\* to somebody else when that one decided.
Decide(o, g, status) ==
    /\ o \in GcAdmins /\ CanManage(o)
    /\ visits' = [visits EXCEPT ![g].status = status]
    /\ Write("PERMISSION", g, o,
             IF visits[g].admin \notin {None, o} THEN visits[g].admin ELSE CoOwner(o), FALSE)
    /\ UNCHANGED <<arrivals, chats, gcLive, mutes, shuns, reader>>

ApproveVisit(o, g) == visits[g].status = "pending" /\ Decide(o, g, "approved")

RejectVisit(o, g) ==
    /\ visits[g].status \in {"pending", "approved"}
    /\ Decide(o, g, IF visits[g].kind = "expected" THEN "revoked" ELSE "rejected")

-----------------------------------------------------------------------------
(* Chat *)

\* guest_post_message, create_guest_zone_message
GuestWrites(g, o) ==
    /\ GuestServed(g)
    /\ o \in Peers(g)
    /\ o \notin mutes
    /\ PendingAdmin(g) # None => Eligible(g)
    /\ Write("CHAT", g, None, o, FALSE)
    /\ UNCHANGED <<visits, arrivals, chats, gcLive, mutes, shuns, reader>>

\* Mutant of MemberWritesToGuest: whoever manages the zone may write at any time.
ManagerWritesToGuest(o, g) ==
    /\ Here(g) /\ CanManage(o)
    /\ Write("CHAT", g, o, None, FALSE)
    /\ UNCHANGED <<visits, arrivals, chats, gcLive, mutes, shuns, reader>>

\* create_member_to_guest_zone_message
MemberWritesToGuest(o, g) ==
    /\ Here(g)
    /\ CanManage(o)
    /\ PendingAdmin(g) \in {None, o}
    /\ Write("CHAT", g, o, None, FALSE)
    /\ UNCHANGED <<visits, arrivals, chats, gcLive, mutes, shuns, reader>>

\* Mutant of CanMessage: the network of the receiver is not looked at.
CanMessageAccount(o, r) == r \in gcLive \ {o} /\ GcRoot[r] = GcRoot[o]

\* can_message_owner
CanMessage(o, r) == r \in gcLive \ {o} /\ GcRoot[r] = GcRoot[o] /\ GcNet[r] = GcNet[o]

\* create_message: CHAT or PRIVATE to a member, SERVICE to everybody.
MemberWrites(o, r) ==
    /\ r # None => CanMessage(o, r) /\ ~Refuses(r, o)
    /\ Len(rows) + Len(chats) < MaxRows
    /\ chats' = Append(chats, [from |-> o, to |-> r])
    /\ UNCHANGED <<visits, arrivals, rows, gcLive, mutes, shuns, reader>>

-----------------------------------------------------------------------------
(* The guest reads its thread, page by page *)

\* Rows before the cursor; the row the cursor names is dropped as well.
OlderThan(S, cursor) == IF cursor = NoRow THEN S ELSE {i \in S : i < cursor}

NewestFirst(S) == SetToSortSeq(S, >)

\* list_guest_zone_messages: next_cursor names the first row left out.
ReadPage(g, peer, cursor, seen) ==
    LET found == NewestFirst(OlderThan(Thread(g, peer), cursor))
        more == Len(found) > PageSize
    IN  reader' = [guest |-> g, peer |-> peer, seen |-> seen \o SubSeq(found, 1, Min({PageSize, Len(found)})),
                   cursor |-> IF more THEN found[PageSize + 1] ELSE NoRow, done |-> ~more]

OpenThread(g, peer) ==
    /\ GuestServed(g)
    /\ ReadPage(g, peer, NoRow, <<>>)
    /\ UNCHANGED <<visits, arrivals, rows, chats, gcLive, mutes, shuns>>

NextPage ==
    /\ reader.guest # None
    /\ GuestServed(reader.guest)
    /\ reader.cursor # NoRow
    /\ ReadPage(reader.guest, reader.peer, reader.cursor, reader.seen)
    /\ UNCHANGED <<visits, arrivals, rows, chats, gcLive, mutes, shuns>>

-----------------------------------------------------------------------------
(* Rules and accounts *)

Aside == Cardinality(mutes) + Cardinality(shuns) + Cardinality(GcOwners \ gcLive)

MuteChat(o, on) ==
    /\ on => Aside < MaxAside
    /\ (o \in mutes) # on
    /\ mutes' = IF on THEN mutes \cup {o} ELSE mutes \ {o}
    /\ UNCHANGED <<visits, arrivals, rows, chats, gcLive, shuns, reader>>

\* A member to block is another one of the owner's network.
Shun(o, x, on) ==
    /\ on => Aside < MaxAside
    /\ x # o /\ GcNet[x] = GcNet[o]
    /\ (<<o, x>> \in shuns) # on
    /\ shuns' = IF on THEN shuns \cup {<<o, x>>} ELSE shuns \ {<<o, x>>}
    /\ UNCHANGED <<visits, arrivals, rows, chats, gcLive, mutes, reader>>

SetLive(o, on) ==
    /\ ~on => Aside < MaxAside
    /\ (o \in gcLive) # on
    /\ gcLive' = IF on THEN gcLive \cup {o} ELSE gcLive \ {o}
    /\ UNCHANGED <<visits, arrivals, rows, chats, mutes, shuns, reader>>

-----------------------------------------------------------------------------

GcInit ==
    /\ visits = [g \in GcGuests |-> NoVisit]
    /\ arrivals = <<>>
    /\ rows = <<>>
    /\ chats = <<>>
    /\ gcLive = GcOwners
    /\ mutes = {}
    /\ shuns = {}
    /\ reader = NoReader

GcNext ==
    \/ \E g \in GcGuests :
        \/ ArriveUnexpected(g)
        \/ ArriveAtNetwork(g)
        \/ \E o \in GcOwners \cup {None} : OpenThread(g, o)
        \/ \E o \in GcOwners :
            \/ ArriveExpected(g, o)
            \/ ApproveVisit(o, g)
            \/ RejectVisit(o, g)
            \/ GuestWrites(g, o)
            \/ MemberWritesToGuest(o, g)
    \/ NextPage
    \/ \E o \in GcOwners :
        \/ \E r \in GcOwners \cup {None} : MemberWrites(o, r)
        \/ \E on \in BOOLEAN :
            \/ MuteChat(o, on)
            \/ SetLive(o, on)
            \/ \E x \in GcOwners : Shun(o, x, on)

GcSpec == GcInit /\ [][GcNext]_gcVars

-----------------------------------------------------------------------------
(* Properties *)

\* Types: a row is about a guest who arrived, a chat with a guest names one of its
\* two ends and no chat is with oneself.
GcTypeOK ==
    /\ \A g \in GcGuests :
        /\ visits[g].status \in {"none", "pending", "approved", "rejected", "revoked"}
        /\ visits[g].status = "pending" => visits[g].admin \in GcOwners
        /\ Here(g) = (g \in Range(arrivals))
    /\ \A i \in DOMAIN rows :
        /\ Here(rows[i].guest)
        /\ {rows[i].from, rows[i].to} \subseteq GcOwners \cup {None}
        /\ rows[i].type = "CHAT" => (rows[i].from = None) # (rows[i].to = None)
        /\ rows[i].type = "PERMISSION" => None \notin {rows[i].from, rows[i].to}
    /\ \A i \in DOMAIN chats : chats[i].from \in GcOwners /\ chats[i].to # chats[i].from
    /\ reader.guest # None => reader.guest \in GcGuests

\* A waiting guest who may chat keeps its turn until it is approved or turned away,
\* whoever arrives, is decided or is written to meanwhile (the FIFO chat queue of
\* pending_network_chat_queue_head and admin_has_initiated_pending_chat), unless its
\* administrator writes one chat more than the search for the first one looks at.
TurnIsKept ==
    [][\A g \in GcGuests :
        Eligible(g) /\ visits'[g].status = "pending" =>
            \/ Eligible(g)'
            \/ LET sent == SentBy(visits[g].admin)
               IN  sent # sent' /\ Cardinality(sent) >= AdminScan]_gcVars

\* While a guest waits, its thread has chat with one member of the staff alone, the
\* administrator of its session ("Only the network administrator can message this
\* guest until access is approved").
OneVoiceWhileWaiting ==
    \A g \in GcGuests : PendingAdmin(g) # None =>
        \A i \in Thread(g, None) :
            rows[i].type = "CHAT" => PendingAdmin(g) \in {rows[i].from, rows[i].to}

\* What the two ends of the newest chat with a guest, and between members, see.
NewestRowShown ==
    LET i == Len(rows)
        r == rows[i]
    IN  r.type = "CHAT" =>
            IF r.from = None THEN i \in GuestInbox(r.to) \cap MemberThread(r.to, r.guest, r.to)
            ELSE i \in Thread(r.guest, r.from)

NewestChatShown ==
    LET i == Len(chats) IN chats[i].to # None => i \in MemberInbox(chats[i].to)

\* A chat is shown to the one it is for as soon as it is stored, in the merged
\* inbox of a member and in the thread of a guest: who may write is decided by other
\* code than what is shown.
ChatIsShown ==
    [][/\ Len(rows') > Len(rows) => NewestRowShown'
       /\ Len(chats') > Len(chats) => NewestChatShown']_gcVars

\* "Pass as `cursor` for the next page" (schemas/guest_api.py): whoever follows the
\* cursors to the end has seen every row of the thread older than the first one.
PagesCoverThread ==
    reader.done =>
        \A i \in Thread(reader.guest, reader.peer) :
            i <= Max(Range(reader.seen) \cup {NoRow}) => i \in Range(reader.seen)
=============================================================================
