------------------------------ MODULE Messages ------------------------------
(* Geo-propagated alarms and alerts: who a message reaches (zones at the point,
   the network's tier, the Private+ account, stored positions, the nearest
   owners), the rules that block a delivery, the rate limits, and what the
   inbox, the private search and the read receipts make of it afterwards. *)
EXTENDS Integers, Sequences, SequencesExt, FiniteSets, FiniteSetsExt

CONSTANTS
    MsOwners,       \* owners, by id (a set of naturals)
    SysAdmins,      \* the owners that are system administrators
    MsAdmins,       \* the owners with role administrator
    NetOf,          \* owner -> its network id (owners.zone_id)
    RootOf,         \* owner -> its account root
    PlusRoots,      \* the account roots on the Private+ tier
    HomeOf,         \* owner -> where its registered address is, or Nowhere
    MsZones,        \* active zone records
    ZoneNet,        \* zone record -> network id
    ZoneMaker,      \* zone record -> owner_id and creator_id
    PrimaryZones,   \* the zone records with is_primary set
    Places,         \* positions a message or an owner can have
    At,             \* place -> the zone records whose geometry contains it
    Far,            \* places -> distance, as a rank
    Nowhere,        \* no position
    Fanout,         \* nearest owners an UNKNOWN reaches (limit by account type)
    FirstRules,     \* the rules the owners may start with (a set of functions)
    MaxScan,        \* newest events an inbox looks at
    MaxEvents,      \* bound: messages sent
    MaxChanges      \* bound: changes of accounts, positions and rules

VARIABLES
    live,           \* owners with active = TRUE
    spot,           \* owner -> stored position (member_locations)
    rules,          \* owner -> its message_blocks rows
    events,         \* zone_message_events of geo types, oldest first
    reads,          \* alarm_message_reads: <<event, owner>>
    changes         \* changes made so far

msVars == <<live, spot, rules, events, reads, changes>>

Nobody == 0         \* NULL in a column that holds an owner id

Emergencies == {"PANIC", "NS_PANIC"}
ByAddress == {"SENSOR"}             \* WELLNESS_CHECK is routed as SENSOR is
Alarms == Emergencies \cup ByAddress \cup {"UNKNOWN"}
Located == Emergencies \cup {"PA"}  \* SERVICE is routed as PA is
Shared == Alarms \cup {"PA"}        \* what Private+ sends to its whole network
Kinds == Shared \cup {"PRIVATE"}

\* A rule names a member or a message type, never both.
Rules == [member : MsOwners, kind : {"any"}] \cup [member : {Nobody}, kind : Kinds]

\* Ids are positive; a zone record names the owner who made it.
ASSUME MessagesConstantsOK ==
    /\ MsOwners \subseteq Nat \ {Nobody} /\ MaxScan \in Nat
    /\ ZoneMaker \in [MsZones -> MsOwners]
    /\ At \in [Places -> SUBSET MsZones] /\ Nowhere \notin Places
    /\ HomeOf \in [MsOwners -> Places \cup {Nowhere}]
    /\ FirstRules \subseteq [MsOwners -> SUBSET Rules]

-----------------------------------------------------------------------------
(* Networks and accounts *)

\* resolve_network_administrator: the active administrator with the lowest id.
NetworkAdmin(n) ==
    LET admins == {o \in MsAdmins \cap live : NetOf[o] = n}
    IN  IF admins = {} THEN Nobody ELSE Min(admins)

AccountOf(o) == {x \in live : RootOf[x] = RootOf[o]}

Participates(o) ==
    /\ NetworkAdmin(NetOf[o]) # Nobody
    /\ IF o \in MsAdmins THEN o \in live
       ELSE RootOf[o] # o /\ RootOf[o] \in live /\ NetOf[RootOf[o]] = NetOf[o]

\* The owners a Private+ sender shares its network with.
PlusMembers(o) ==
    IF RootOf[o] \in PlusRoots /\ Participates(o)
    THEN AccountOf(NetworkAdmin(NetOf[o])) ELSE {}

-----------------------------------------------------------------------------
(* Zones and recipients. rows is always a set of zone records. *)

\* Zone records are matched for active owners only.
ZonesAt(p) == IF p = Nowhere THEN {} ELSE {z \in At[p] : ZoneMaker[z] \in live}

\* The rows an owner's message is matched with: a system administrator picks
\* zones wherever it is, anybody else has to stand in them.
RowsFor(o, p, picked) ==
    LET rows == IF o \in SysAdmins THEN MsZones ELSE ZonesAt(p)
    IN  IF picked = {} THEN rows ELSE rows \cap picked

\* _is_primary_zone_row: nothing is primary in a network without administrator.
Primary(rows) == {z \in rows \cap PrimaryZones : NetworkAdmin(ZoneNet[z]) # Nobody}

OfNet(rows, n) == {z \in rows : ZoneNet[z] = n}
Nets(rows) == {ZoneNet[z] : z \in rows}

\* A network with a primary row is served by that tier alone.
ServedIn(rows, n) ==
    LET mine == OfNet(rows, n)
    IN  IF Primary(mine) # {} THEN Primary(mine) ELSE mine

\* _merge_propagation_results: the record ids the networks were served by.
Served(rows) == UNION {ServedIn(rows, n) : n \in Nets(rows)}

NetworkAudience(rows, n) ==
    IF Primary(OfNet(rows, n)) # {} THEN AccountOf(NetworkAdmin(n))
    ELSE {ZoneMaker[z] : z \in OfNet(rows, n)}

Audience(rows) == UNION {NetworkAudience(rows, n) : n \in Nets(rows)}

\* Active owners whose stored position lies in one of the rows.
StandingIn(rows) == {o \in live : spot[o] # Nowhere /\ At[spot[o]] \cap rows # {}}

\* Mutant of Candidates: the sender is not taken out again.
CandidatesWithSelf(o, rows, kind, left) ==
    Audience(rows) \cup (IF kind \in Shared THEN PlusMembers(o) ELSE {})

Candidates(o, rows, kind, left) ==
    (Audience(rows)
        \cup (IF kind \in Shared THEN PlusMembers(o) ELSE {})
        \cup (IF kind \in Located THEN StandingIn(Primary(rows)) ELSE {})) \ left

\* resolve_nearest_owner_ids: by distance, then by id.
Nearest(p, left) ==
    LET pool == {o \in live \ left : spot[o] # Nowhere}
        Closer(x, y) == \/ Far[p, spot[x]] < Far[p, spot[y]]
                        \/ Far[p, spot[x]] = Far[p, spot[y]] /\ x < y
    IN  {o \in pool : Cardinality({x \in pool : Closer(x, o)}) < Fanout}

\* _assert_private_receiver_reachable, and the check of a system administrator.
PrivateReaches(o, r, rows) ==
    IF o \in SysAdmins THEN r \in Candidates(o, rows, "PRIVATE", {o})
    ELSE /\ r \in live \ {o}
         /\ Served(rows) # {}
         /\ r \in Audience(rows) \cup PlusMembers(o)

\* Mutant of PrivateFound: the Private+ network is left out of the search.
PrivateFoundNear(o, rows) == (Audience(rows) \ {o}) \cap live

\* search_private_message_recipients
PrivateFound(o, rows) ==
    IF o \in SysAdmins THEN (Audience(rows) \ {o}) \cap live
    ELSE IF Served(rows) = {} THEN {}
         ELSE ((Audience(rows) \cup PlusMembers(o)) \ {o}) \cap live

-----------------------------------------------------------------------------
(* Rules, and what an owner sees *)

\* is_delivery_blocked
Blocks(o, sender, kind) ==
    \E r \in rules[o] :
        /\ r.member \in {Nobody, sender}
        /\ r.kind \in {"any", kind}

\* Mutant of Delivered: the emergency types no longer pass the rules.
DeliveredUnlessBlocked(candidates, sender, kind) ==
    {o \in candidates : ~Blocks(o, sender, kind)}

Delivered(candidates, sender, kind) ==
    {o \in candidates : kind \in Emergencies \/ ~Blocks(o, sender, kind)}

\* geo_event_visible_in_private_plus_shared_inbox
SharedWith(o, e) ==
    /\ RootOf[o] \in PlusRoots
    /\ e.sender \in live
    /\ RootOf[e.sender] = RootOf[o]
    /\ NetOf[e.sender] = NetOf[o]

AddressedTo(o, e) == o \in e.delivered \cup {e.sender, e.receiver}

\* Mutant of ShownTo: the inbox leaves out what its owner sent.
ShownToRecipients(o, e) == o \in e.delivered \cup {e.receiver} \/ SharedWith(o, e)

\* list_geo_propagation_events_for_owner_inbox, before the rules are applied.
ShownTo(o, e) == AddressedTo(o, e) \/ SharedWith(o, e)

\* A response to NS_PANIC names no sender.
SenderShown(e) == IF e.kind = "NS_PANIC" THEN Nobody ELSE e.sender

\* The newest geo events of all networks; the rest is never looked at.
Scanned == {i \in DOMAIN events : i + MaxScan > Len(events)}

InboxOf(o) ==
    {i \in Scanned : ShownTo(o, events[i]) /\ ~Blocks(o, SenderShown(events[i]), events[i].kind)}

-----------------------------------------------------------------------------
(* Sending *)

\* _assert_unknown_rate_limit_ok, _assert_sensor_rate_limit_ok
RateOk(sender, kind) ==
    kind \in {"UNKNOWN", "SENSOR"} =>
        \A i \in DOMAIN events :
            ~(events[i].sender = sender /\ events[i].kind = kind /\ events[i].recent)

\* rows: what the message matched.
Store(sender, kind, receiver, rows, candidates) ==
    events' = Append(events,
        [sender |-> sender, kind |-> kind, receiver |-> receiver, zones |-> Served(rows),
         delivered |-> Delivered(candidates, sender, kind), recent |-> TRUE])

\* An UNKNOWN starts from its own position, or from the stored one, which a
\* position that came with the message replaces.
SendUnknown(o, p) ==
    LET origin == IF p # Nowhere THEN p ELSE spot[o]
    IN  /\ RateOk(o, "UNKNOWN")
        /\ origin # Nowhere
        /\ spot' = [spot EXCEPT ![o] = origin]
        /\ LET near == Nearest(origin, {o}) \cup (PlusMembers(o) \ {o})
           IN  Store(o, "UNKNOWN", Nobody, {}, near)
        /\ UNCHANGED <<live, rules, reads, changes>>

\* Every other type is routed by the zones at the point, all of which the sender
\* may narrow to a choice that has to be served.
SendToZones(o, kind, p, picked, r) ==
    LET point == IF kind \in ByAddress THEN HomeOf[o] ELSE p
        rows == RowsFor(o, point, picked)
    IN  /\ kind # "UNKNOWN"
        /\ (kind = "PRIVATE") = (r # Nobody)
        /\ RateOk(o, kind)
        /\ o \in SysAdmins \/ point # Nowhere
        /\ picked \subseteq Served(rows)
        /\ kind = "PRIVATE" => PrivateReaches(o, r, rows)
        /\ Store(o, kind, r, rows,
                 IF kind = "PRIVATE" THEN {r} ELSE Candidates(o, rows, kind, {o}))
        /\ UNCHANGED <<live, spot, rules, reads, changes>>

\* The window of the oldest message still inside it passes.
WindowPasses(i) ==
    /\ events[i].recent
    /\ \A j \in 1..(i - 1) : ~events[j].recent
    /\ events' = [events EXCEPT ![i].recent = FALSE]
    /\ UNCHANGED <<live, spot, rules, reads, changes>>

\* record_alarm_read, record_alarm_reads: only an alarm sent to the reader.
MarkRead(o, i) ==
    /\ events[i].kind \in Alarms
    /\ AddressedTo(o, events[i])
    /\ reads' = reads \cup {<<i, o>>}
    /\ UNCHANGED <<live, spot, rules, events, changes>>

-----------------------------------------------------------------------------
(* Accounts, positions and rules change between messages *)

Change == changes < MaxChanges /\ changes' = changes + 1 /\ UNCHANGED <<events, reads>>

SwitchActive(o, on) ==
    /\ Change
    /\ (o \in live) # on
    /\ live' = IF on THEN live \cup {o} ELSE live \ {o}
    /\ UNCHANGED <<spot, rules>>

MoveTo(o, p) ==
    /\ Change
    /\ spot' = [spot EXCEPT ![o] = p]
    /\ UNCHANGED <<live, rules>>

\* A member to block has to be another one of the owner's network.
Block(o, r) ==
    /\ Change
    /\ r.member # Nobody => r.member # o /\ NetOf[r.member] = NetOf[o]
    /\ r \notin rules[o]
    /\ rules' = [rules EXCEPT ![o] = @ \cup {r}]
    /\ UNCHANGED <<live, spot>>

Unblock(o, r) ==
    /\ Change
    /\ r \in rules[o]
    /\ rules' = [rules EXCEPT ![o] = @ \ {r}]
    /\ UNCHANGED <<live, spot>>

-----------------------------------------------------------------------------

MsInit ==
    /\ live = MsOwners
    /\ spot = [o \in MsOwners |-> HomeOf[o]]
    /\ rules \in FirstRules
    /\ events = <<>>
    /\ reads = {}
    /\ changes = 0

Picks == {{}} \cup {{z} : z \in MsZones} \cup {MsZones}

Sends ==
    /\ Len(events) < MaxEvents
    /\ \E p \in Places \cup {Nowhere} :
        \/ \E o \in MsOwners : SendUnknown(o, p)
        \/ \E o \in MsOwners, k \in Kinds, picked \in Picks, r \in MsOwners \cup {Nobody} :
               SendToZones(o, k, p, picked, r)

Afterwards ==
    \/ \E i \in DOMAIN events : WindowPasses(i) \/ \E o \in MsOwners : MarkRead(o, i)
    \/ \E o \in MsOwners :
        \/ \E on \in BOOLEAN : SwitchActive(o, on)
        \/ \E p \in Places : MoveTo(o, p)
        \/ \E r \in Rules : Block(o, r) \/ Unblock(o, r)

MsNext == Sends \/ Afterwards

MsSpec == MsInit /\ [][MsNext]_msVars

-----------------------------------------------------------------------------
(* Properties *)

\* Types: a message has a receiver exactly when it is PRIVATE, and goes to nobody
\* else; nobody who stores it is its own recipient.
MsTypeOK ==
    /\ live \subseteq MsOwners
    /\ spot \in [MsOwners -> Places \cup {Nowhere}]
    /\ rules \in [MsOwners -> SUBSET Rules]
    /\ reads \subseteq (DOMAIN events) \X MsOwners
    /\ \A i \in DOMAIN events :
        LET e == events[i]
        IN  /\ e.kind \in Kinds /\ e.recent \in BOOLEAN
            /\ e.delivered \subseteq MsOwners \ {e.sender}
            /\ e.zones \subseteq MsZones
            /\ (e.kind = "PRIVATE") = (e.receiver # Nobody)
            /\ e.kind = "PRIVATE" => e.delivered \subseteq {e.receiver}

\* A PANIC that matched a primary zone reaches the network's administrator, every
\* active owner of its account and every active owner whose stored position is in
\* that zone, whatever rules they have (PRIMARY_ZONE_GPS_ALERT_TYPES, the bypass).
PanicReachesInside ==
    [][Len(events') > Len(events) =>
        LET e == Last(events')
        IN  e.kind \in Emergencies =>
            \A z \in e.zones \cap PrimaryZones :
                NetworkAdmin(ZoneNet[z]) # Nobody =>
                    (AccountOf(NetworkAdmin(ZoneNet[z])) \cup StandingIn({z})) \ {e.sender}
                        \subseteq e.delivered]_msVars

\* The private search offers nobody the send refuses, from whatever point and with
\* whatever zone picked, and leaves out nobody a member could send to: two separate
\* pieces of code answer the two questions.
SearchMatchesSend ==
    \A o \in MsOwners :
        \A rows \in {RowsFor(o, p, picked) : p \in Places, picked \in {{}} \cup {{z} : z \in MsZones}} :
            LET accepted == {r \in MsOwners : PrivateReaches(o, r, rows)}
            IN  /\ PrivateFound(o, rows) \subseteq accepted
                /\ o \notin SysAdmins => accepted \subseteq PrivateFound(o, rows)

\* Whoever confirmed an alarm finds it in the inbox while it is among the newest and
\* no rule hides it, whoever is deactivated later.
ReadersKeepSight ==
    \A r \in reads :
        LET e == events[r[1]]
        IN  r[1] \in Scanned => r[1] \in InboxOf(r[2]) \/ Blocks(r[2], SenderShown(e), e.kind)
=============================================================================
