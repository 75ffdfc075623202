-------------------------- MODULE Messaging_proofs --------------------------
(* Proofs about Messages and GuestChat, for any owners, zones, positions,     *)
(* guests and rules.                                                          *)
EXTENDS Messages, GuestChat, FiniteSetTheorems, WellFoundedInduction, NaturalsInduction, TLAPS

-----------------------------------------------------------------------------
(* Messages: whom one is for *)

\* The rows of zone_message_events.
EventRows == [sender : MsOwners, kind : Kinds, receiver : MsOwners \cup {Nobody},
              zones : SUBSET MsZones, delivered : SUBSET MsOwners, recent : BOOLEAN]

\* An alarm was read only by somebody it is addressed to; ReadersKeepSight rests on
\* what its row keeps, not on who is active or where anybody is by then.
ReadWasAddressed == \A r \in reads : AddressedTo(r[2], events[r[1]])

MsInv == MsTypeOK /\ events \in Seq(EventRows) /\ ReadWasAddressed

\* The zones a message matches are zones, and the networks are served by some of them.
LEMMA RowsTyped ==
  ASSUME NEW o \in MsOwners, NEW p \in Places \cup {Nowhere}, NEW picked
  PROVE  RowsFor(o, p, picked) \subseteq MsZones
BY MessagesConstantsOK DEF RowsFor, ZonesAt

LEMMA ServedTyped ==
  ASSUME NEW zs
  PROVE  Served(zs) \subseteq zs
<1>1. \A n \in Nets(zs) : ServedIn(zs, n) \subseteq zs
  BY DEF ServedIn, OfNet, Primary
<1> QED
  BY <1>1 DEF Served

\* Everybody a message is for is an owner.
LEMMA AudienceTyped ==
  ASSUME live \subseteq MsOwners, NEW zs \in SUBSET MsZones
  PROVE  Audience(zs) \subseteq MsOwners
<1>1. \A n \in Nets(zs) : NetworkAudience(zs, n) \subseteq MsOwners
  BY MessagesConstantsOK DEF NetworkAudience, AccountOf, OfNet
<1> QED
  BY <1>1 DEF Audience

LEMMA CandidatesTyped ==
  ASSUME live \subseteq MsOwners, NEW zs \in SUBSET MsZones, NEW o, NEW kind, NEW left
  PROVE  Candidates(o, zs, kind, left) \subseteq MsOwners \ left
<1>1. Audience(zs) \subseteq MsOwners
  BY AudienceTyped
<1>2. PlusMembers(o) \subseteq MsOwners /\ StandingIn(Primary(zs)) \subseteq MsOwners
  BY DEF PlusMembers, AccountOf, StandingIn
<1> QED
  BY <1>1, <1>2 DEF Candidates

\* The search and the send agree for whatever zones the message matches.
LEMMA SearchAgrees ==
  ASSUME live \subseteq MsOwners, NEW o \in MsOwners, NEW zs
  PROVE  LET accepted == {r \in MsOwners : PrivateReaches(o, r, zs)}
         IN  /\ PrivateFound(o, zs) \subseteq accepted
             /\ o \notin SysAdmins => accepted \subseteq PrivateFound(o, zs)
<1>1. CASE o \in SysAdmins
  BY <1>1 DEF PrivateFound, PrivateReaches, Candidates
<1>2. CASE o \notin SysAdmins
  BY <1>2 DEF PrivateFound, PrivateReaches
<1> QED
  BY <1>1, <1>2

\* A PANIC is for the whole account of a network whose primary zone it matched, and
\* for everybody standing in that zone.
LEMMA PanicCandidates ==
  ASSUME NEW o, NEW zs, NEW kind \in Emergencies, NEW z \in Served(zs) \cap PrimaryZones,
         NetworkAdmin(ZoneNet[z]) # Nobody
  PROVE  (AccountOf(NetworkAdmin(ZoneNet[z])) \cup StandingIn({z})) \ {o}
             \subseteq Candidates(o, zs, kind, {o})
<1> DEFINE n == ZoneNet[z]
<1>1. z \in zs
  BY ServedTyped
<1>2. z \in Primary(OfNet(zs, n)) /\ z \in Primary(zs) /\ n \in Nets(zs)
  BY <1>1 DEF Primary, OfNet, Nets
<1>3. NetworkAudience(zs, n) = AccountOf(NetworkAdmin(n))
  BY <1>2 DEF NetworkAudience
<1>4. AccountOf(NetworkAdmin(n)) \subseteq Audience(zs)
  BY <1>2, <1>3 DEF Audience
<1>5. StandingIn({z}) \subseteq StandingIn(Primary(zs))
  BY <1>2 DEF StandingIn
<1>6. kind \in Located
  BY DEF Located
<1> QED
  BY <1>4, <1>5, <1>6 DEF Candidates

-----------------------------------------------------------------------------
(* Messages: what is stored *)

LEMMA StoreInv ==
  ASSUME MsInv, NEW o \in MsOwners, NEW kind \in Kinds, NEW r \in MsOwners \cup {Nobody},
         NEW zs \in SUBSET MsZones, NEW candidates \in SUBSET (MsOwners \ {o}),
         (kind = "PRIVATE") = (r # Nobody), kind = "PRIVATE" => candidates \subseteq {r},
         Store(o, kind, r, zs, candidates),
         spot' \in [MsOwners -> Places \cup {Nowhere}], UNCHANGED <<live, rules, reads>>
  PROVE  MsInv'
<1> DEFINE e == [sender |-> o, kind |-> kind, receiver |-> r, zones |-> Served(zs),
                 delivered |-> Delivered(candidates, o, kind), recent |-> TRUE]
<1>1. /\ Served(zs) \subseteq MsZones
      /\ Delivered(candidates, o, kind) \subseteq candidates
  BY ServedTyped DEF Delivered
<1>2. /\ e \in EventRows /\ e.sender = o /\ e.kind = kind /\ e.receiver = r /\ e.zones \subseteq MsZones
      /\ e.delivered \subseteq candidates /\ e.recent \in BOOLEAN
  BY <1>1 DEF EventRows
<1>3. events' = Append(events, e)
  BY DEF Store
<1> HIDE DEF e
<1>4. /\ events' \in Seq(EventRows) /\ Len(events') = Len(events) + 1
      /\ events'[Len(events) + 1] = e
      /\ \A i \in DOMAIN events : i \in DOMAIN events' /\ events'[i] = events[i]
      /\ \A i \in DOMAIN events' : i \in DOMAIN events \/ i = Len(events) + 1
  BY <1>2, <1>3 DEF MsInv
<1>5. \A i \in DOMAIN events' :
        LET d == events'[i]
        IN  /\ d.kind \in Kinds /\ d.recent \in BOOLEAN
            /\ d.delivered \subseteq MsOwners \ {d.sender}
            /\ d.zones \subseteq MsZones
            /\ (d.kind = "PRIVATE") = (d.receiver # Nobody)
            /\ d.kind = "PRIVATE" => d.delivered \subseteq {d.receiver}
  <2> SUFFICES ASSUME NEW i \in DOMAIN events'
               PROVE  LET d == events'[i]
                      IN  /\ d.kind \in Kinds /\ d.recent \in BOOLEAN
                          /\ d.delivered \subseteq MsOwners \ {d.sender}
                          /\ d.zones \subseteq MsZones
                          /\ (d.kind = "PRIVATE") = (d.receiver # Nobody)
                          /\ d.kind = "PRIVATE" => d.delivered \subseteq {d.receiver}
    OBVIOUS
  <2>1. CASE i \in DOMAIN events
    BY <1>4, <2>1 DEF MsInv, MsTypeOK
  <2>2. CASE i = Len(events) + 1
    BY <1>2, <1>4, <2>2
  <2> QED
    BY <1>4, <2>1, <2>2
<1>6. MsTypeOK'
  BY <1>4, <1>5 DEF MsInv, MsTypeOK
<1>7. ReadWasAddressed'
  BY <1>4 DEF MsInv, MsTypeOK, ReadWasAddressed, AddressedTo
<1> QED
  BY <1>4, <1>6, <1>7 DEF MsInv

LEMMA UnknownInv ==
  ASSUME MsInv, NEW o \in MsOwners, NEW p \in Places \cup {Nowhere}, SendUnknown(o, p)
  PROVE  MsInv'
<1> DEFINE origin == IF p # Nowhere THEN p ELSE spot[o]
<1> DEFINE near == Nearest(origin, {o}) \cup (PlusMembers(o) \ {o})
<1>1. spot' = [spot EXCEPT ![o] = origin] /\ UNCHANGED <<live, rules, reads>>
  BY DEF SendUnknown
<1>2. origin \in Places \cup {Nowhere}
  BY DEF MsInv, MsTypeOK
<1>3. spot' \in [MsOwners -> Places \cup {Nowhere}]
  BY <1>1, <1>2 DEF MsInv, MsTypeOK
<1>4. near \subseteq MsOwners \ {o}
  BY DEF Nearest, PlusMembers, AccountOf, MsInv, MsTypeOK
<1>5. Store(o, "UNKNOWN", Nobody, {}, near)
  BY DEF SendUnknown
<1>6. "UNKNOWN" \in Kinds
  BY DEF Kinds, Shared, Alarms
<1> HIDE DEF near
<1> QED
  BY <1>1, <1>3, <1>4, <1>5, <1>6, StoreInv

LEMMA ZonesInv ==
  ASSUME MsInv, NEW o \in MsOwners, NEW kind \in Kinds, NEW p \in Places \cup {Nowhere},
         NEW picked, NEW r \in MsOwners \cup {Nobody}, SendToZones(o, kind, p, picked, r)
  PROVE  MsInv'
<1> DEFINE point == IF kind \in ByAddress THEN HomeOf[o] ELSE p
<1> DEFINE zs == RowsFor(o, point, picked)
<1> DEFINE candidates == IF kind = "PRIVATE" THEN {r} ELSE Candidates(o, zs, kind, {o})
<1>1. /\ (kind = "PRIVATE") = (r # Nobody)
      /\ kind = "PRIVATE" => PrivateReaches(o, r, zs)
      /\ Store(o, kind, r, zs, candidates)
      /\ UNCHANGED <<live, spot, rules, reads>>
  BY DEF SendToZones
<1>2. zs \in SUBSET MsZones
  <2>1. point \in Places \cup {Nowhere}
    BY MessagesConstantsOK
  <2> QED
    BY <2>1, RowsTyped
<1> HIDE DEF zs
<1>3. live \subseteq MsOwners /\ spot \in [MsOwners -> Places \cup {Nowhere}]
  BY DEF MsInv, MsTypeOK
<1>4. Candidates(o, zs, kind, {o}) \subseteq MsOwners \ {o}
  BY <1>2, <1>3, CandidatesTyped
<1>5. kind = "PRIVATE" => r \in MsOwners \ {o}
  <2>1. PrivateReaches(o, r, zs) => r # o
    BY DEF PrivateReaches, Candidates
  <2> QED
    BY <1>1, <2>1
<1>6. /\ candidates \in SUBSET (MsOwners \ {o})
      /\ kind = "PRIVATE" => candidates \subseteq {r}
  BY <1>4, <1>5
<1> HIDE DEF candidates
<1> QED
  BY <1>1, <1>2, <1>3, <1>6, StoreInv

LEMMA AfterwardsInv ==
  ASSUME MsInv, Afterwards
  PROVE  MsInv'
<1> USE DEF MsInv, MsTypeOK, ReadWasAddressed, AddressedTo
<1>1. ASSUME NEW i \in DOMAIN events, WindowPasses(i)
      PROVE  MsInv'
  <2> DEFINE e == [events[i] EXCEPT !.recent = FALSE]
  <2>1. events' = [events EXCEPT ![i] = e] /\ UNCHANGED <<live, spot, rules, reads>>
    BY <1>1 DEF WindowPasses
  <2>2. events[i] \in EventRows
    OBVIOUS
  <2>3. /\ e \in EventRows /\ e.recent = FALSE
        /\ e.sender = events[i].sender /\ e.kind = events[i].kind /\ e.receiver = events[i].receiver
        /\ e.zones = events[i].zones /\ e.delivered = events[i].delivered
    BY <2>2 DEF EventRows
  <2> HIDE DEF e
  <2>4. /\ events' \in Seq(EventRows) /\ DOMAIN events' = DOMAIN events
        /\ events'[i] = e /\ \A j \in DOMAIN events \ {i} : events'[j] = events[j]
    BY <2>1, <2>3
  <2>5. \A j \in DOMAIN events :
          /\ events'[j].sender = events[j].sender /\ events'[j].kind = events[j].kind
          /\ events'[j].receiver = events[j].receiver /\ events'[j].zones = events[j].zones
          /\ events'[j].delivered = events[j].delivered /\ events'[j].recent \in BOOLEAN
    BY <2>3, <2>4
  <2> QED
    BY <2>1, <2>4, <2>5
<1>2. ASSUME NEW i \in DOMAIN events, NEW o \in MsOwners, MarkRead(o, i)
      PROVE  MsInv'
  BY <1>2 DEF MarkRead
<1>3. ASSUME NEW o \in MsOwners, NEW on \in BOOLEAN, SwitchActive(o, on)
      PROVE  MsInv'
  BY <1>3 DEF SwitchActive, Change
<1>4. ASSUME NEW o \in MsOwners, NEW p \in Places, MoveTo(o, p)
      PROVE  MsInv'
  BY <1>4 DEF MoveTo, Change
<1>5. ASSUME NEW o \in MsOwners, NEW r \in Rules, Block(o, r) \/ Unblock(o, r)
      PROVE  MsInv'
  BY <1>5 DEF Block, Unblock, Change
<1> QED
  BY <1>1, <1>2, <1>3, <1>4, <1>5 DEF Afterwards

LEMMA MsNextInv ==
  ASSUME MsInv, [MsNext]_msVars
  PROVE  MsInv'
<1>1. CASE Sends
  <2>1. PICK p \in Places \cup {Nowhere} :
        \/ \E o \in MsOwners : SendUnknown(o, p)
        \/ \E o \in MsOwners, k \in Kinds, picked \in Picks, r \in MsOwners \cup {Nobody} :
               SendToZones(o, k, p, picked, r)
    BY <1>1 DEF Sends
  <2> QED
    BY <2>1, UnknownInv, ZonesInv
<1>2. CASE UNCHANGED msVars
  BY <1>2 DEF msVars, MsInv, MsTypeOK, ReadWasAddressed, AddressedTo
<1> QED
  BY <1>1, <1>2, AfterwardsInv DEF MsNext

LEMMA MsInductive == MsSpec => []MsInv
<1>1. MsInit => MsInv
  BY MessagesConstantsOK DEF MsInit, MsInv, MsTypeOK, ReadWasAddressed
<1>2. MsInv /\ [MsNext]_msVars => MsInv'
  BY MsNextInv
<1> QED
  BY <1>1, <1>2, PTL DEF MsSpec

-----------------------------------------------------------------------------
\* Stored messages keep their types: a PRIVATE one goes to its receiver alone, and
\* none to the one who sent it (create_geo_propagated_message).
THEOREM MessageTypesHold == MsSpec => []MsTypeOK
<1>1. MsInv => MsTypeOK
  BY DEF MsInv
<1> QED
  BY <1>1, MsInductive, PTL

\* The private search offers nobody the send refuses and leaves out nobody a member
\* could send to (search_private_message_recipients, _assert_private_receiver_reachable).
THEOREM SearchAndSendAgree == MsSpec => []SearchMatchesSend
<1>1. MsInv => SearchMatchesSend
  BY SearchAgrees DEF MsInv, MsTypeOK, SearchMatchesSend
<1> QED
  BY <1>1, MsInductive, PTL

\* Whoever confirmed an alarm finds it in the inbox while it is among the newest and no
\* rule hides it (record_alarm_read, list_geo_propagation_events_for_owner_inbox).
THEOREM ReadersSeeAlarms == MsSpec => []ReadersKeepSight
<1>1. MsInv => ReadersKeepSight
  <2> SUFFICES ASSUME MsInv, NEW r \in reads, r[1] \in Scanned,
                      ~Blocks(r[2], SenderShown(events[r[1]]), events[r[1]].kind)
               PROVE  r[1] \in InboxOf(r[2])
    BY DEF ReadersKeepSight
  <2> QED
    BY DEF MsInv, ReadWasAddressed, InboxOf, ShownTo
<1> QED
  BY <1>1, MsInductive, PTL

\* A PANIC reaches the administrator, the account and everybody standing in a primary
\* zone it matched, whatever rules they have (PRIMARY_ZONE_GPS_ALERT_TYPES,
\* is_delivery_blocked).
THEOREM PanicIsDelivered == MsSpec => PanicReachesInside
<1> DEFINE Reached ==
      Len(events') > Len(events) =>
        LET e == Last(events')
        IN  e.kind \in Emergencies =>
            \A z \in e.zones \cap PrimaryZones :
                NetworkAdmin(ZoneNet[z]) # Nobody =>
                    (AccountOf(NetworkAdmin(ZoneNet[z])) \cup StandingIn({z})) \ {e.sender}
                        \subseteq e.delivered
<1>1. ASSUME MsInv, [MsNext]_msVars
      PROVE  Reached
  <2>1. ASSUME NEW o \in MsOwners, NEW p \in Places \cup {Nowhere}, SendUnknown(o, p)
        PROVE  Reached
    <3>1. events' = Append(events, Last(events')) /\ Last(events').kind = "UNKNOWN"
      BY <1>1, <2>1 DEF SendUnknown, Store, MsInv, Last
    <3> QED
      BY <3>1 DEF Emergencies
  <2>2. ASSUME NEW o \in MsOwners, NEW kind \in Kinds, NEW p \in Places \cup {Nowhere},
               NEW picked, NEW r \in MsOwners \cup {Nobody}, SendToZones(o, kind, p, picked, r)
        PROVE  Reached
    <3> DEFINE point == IF kind \in ByAddress THEN HomeOf[o] ELSE p
    <3>1. PICK zs : /\ Store(o, kind, r, zs,
                               IF kind = "PRIVATE" THEN {r} ELSE Candidates(o, zs, kind, {o}))
      BY <2>2 DEF SendToZones
    <3> DEFINE candidates == IF kind = "PRIVATE" THEN {r} ELSE Candidates(o, zs, kind, {o})
    <3> DEFINE e == [sender |-> o, kind |-> kind, receiver |-> r, zones |-> Served(zs),
                     delivered |-> Delivered(candidates, o, kind), recent |-> TRUE]
    <3>2. events' = Append(events, e)
      BY <3>1 DEF Store
    <3>3. Last(events') = e
      BY <1>1, <3>2 DEF MsInv, Last
    <3>4. ASSUME kind \in Emergencies, NEW z \in Served(zs) \cap PrimaryZones,
                 NetworkAdmin(ZoneNet[z]) # Nobody
          PROVE  (AccountOf(NetworkAdmin(ZoneNet[z])) \cup StandingIn({z})) \ {o}
                     \subseteq Delivered(candidates, o, kind)
      <4>1. candidates = Candidates(o, zs, kind, {o})
        BY <3>4 DEF Emergencies
      <4>2. Delivered(candidates, o, kind) = candidates
        BY <3>4 DEF Delivered
      <4> HIDE DEF candidates
      <4>3. (AccountOf(NetworkAdmin(ZoneNet[z])) \cup StandingIn({z})) \ {o}
                \subseteq Candidates(o, zs, kind, {o})
        BY <3>4, PanicCandidates
      <4> QED
        BY <4>1, <4>2, <4>3
    <3> HIDE DEF candidates
    <3> QED
      BY <3>3, <3>4
  <2>3. CASE Afterwards \/ UNCHANGED msVars
    <3>1. \A i \in DOMAIN events : WindowPasses(i) => Len(events') = Len(events)
      BY <1>1 DEF WindowPasses, MsInv
    <3>2. Len(events') = Len(events)
      BY <2>3, <3>1 DEF Afterwards, MarkRead, SwitchActive, MoveTo, Block, Unblock, Change, msVars
    <3>3. Len(events) \in Nat
      BY <1>1 DEF MsInv
    <3> QED
      BY <3>2, <3>3
  <2> HIDE DEF Reached
  <2>4. CASE Sends
    BY <2>1, <2>2, <2>4 DEF Sends
  <2> QED
    BY <1>1, <2>3, <2>4 DEF MsNext
<1> HIDE DEF Reached
<1>2. MsSpec => [][Reached]_msVars
  BY <1>1, MsInductive, PTL DEF MsSpec
<1> QED
  BY <1>2 DEF PanicReachesInside, Reached

-----------------------------------------------------------------------------
(* GuestChat: the lowest of some ids *)

LEMMA MinIsLeast ==
  ASSUME NEW S \in SUBSET Nat, S # {}
  PROVE  Min(S) \in S /\ \A y \in S : Min(S) <= y
<1> DEFINE less == {pair \in Nat \X Nat : pair[1] < pair[2]}
<1>1. IsWellFoundedOn(less, Nat)
  BY NatLessThanWellFounded DEF OpToRel
<1>2. PICK x \in S : \A y \in S : ~(<<y, x>> \in less)
  BY <1>1, WFMin
<1>3. ASSUME NEW y \in S PROVE x <= y
  <2>1. x \in Nat /\ y \in Nat /\ (y < x => <<y, x>> \in less)
    OBVIOUS
  <2> QED
    BY <1>2, <2>1
<1> QED
  BY <1>3 DEF Min

-----------------------------------------------------------------------------
(* GuestChat: what is stored *)

Visits == [kind : {"none", "expected", "unexpected", "network"},
           status : {"none", "pending", "approved", "rejected", "revoked"},
           admin : GcOwners \cup {None}]
AccessRows == [type : {"PERMISSION", "CHAT"}, guest : GcGuests, from : GcOwners \cup {None},
               to : GcOwners \cup {None}, broadcast : BOOLEAN]
MemberChats == [from : GcOwners, to : GcOwners \cup {None}]

GcTyped ==
    /\ visits \in [GcGuests -> Visits]
    /\ arrivals \in Seq(GcGuests)
    /\ rows \in Seq(AccessRows)
    /\ chats \in Seq(MemberChats)
    /\ gcLive \subseteq GcOwners /\ mutes \subseteq GcOwners /\ shuns \subseteq GcOwners \X GcOwners

\* The administrator of a session is known from its first moment, and may manage it.
VisitFits(g) ==
    /\ ~Here(g) => visits[g].status = "none"
    /\ visits[g].status = "pending" => visits[g].admin # None
    /\ visits[g].admin # None => visits[g].admin = ZoneOwner \/ GcNet[visits[g].admin] = HomeNet
    /\ Here(g) = (g \in Range(arrivals))

RowFits(r) ==
    /\ Here(r.guest)
    /\ r.type = "CHAT" => (r.from = None) # (r.to = None)
    /\ r.type = "PERMISSION" => None \notin {r.from, r.to}
    /\ r.type = "CHAT" /\ PendingAdmin(r.guest) # None => PendingAdmin(r.guest) \in {r.from, r.to}

\* OneVoiceWhileWaiting is inductive only with the rest: a row is written for a guest
\* who is there, so a guest who begins to wait has no rows, and its administrator
\* stays the one it began with.
GcInv ==
    /\ GcTyped
    /\ \A g \in GcGuests : VisitFits(g)
    /\ \A i \in DOMAIN rows : RowFits(rows[i])
    /\ \A i \in DOMAIN chats : chats[i].to # chats[i].from
    /\ reader.guest # None => reader.guest \in GcGuests

\* The staff, and who is picked among it, are owners.
LEMMA StaffTyped ==
  ASSUME GcTyped
  PROVE  /\ LowestAdmin # None => LowestAdmin \in GcOwners /\ LowestAdmin \in gcLive /\ GcNet[LowestAdmin] = HomeNet
         /\ PrimaryAdmin # None => /\ PrimaryAdmin \in GcOwners
                                   /\ PrimaryAdmin = ZoneOwner \/ GcNet[PrimaryAdmin] = HomeNet
         /\ \A o \in GcOwners : CoOwner(o) \in GcOwners
<1> USE GuestChatConstantsOK DEF GcTyped, None
<1>1. LowestAdmin # None => LowestAdmin \in GcOwners /\ LowestAdmin \in gcLive /\ GcNet[LowestAdmin] = HomeNet
  <2> DEFINE admins == {o \in GcAdmins \cap gcLive : GcNet[o] = HomeNet}
  <2>1. admins \in SUBSET Nat
    OBVIOUS
  <2>2. admins # {} => Min(admins) \in admins
    BY <2>1, MinIsLeast
  <2>3. LowestAdmin = IF admins = {} THEN None ELSE Min(admins)
    BY DEF LowestAdmin
  <2> QED
    BY <2>2, <2>3
<1>2. \A o \in GcOwners : CoOwner(o) \in GcOwners
  <2> SUFFICES ASSUME NEW o \in GcOwners PROVE CoOwner(o) \in GcOwners
    OBVIOUS
  <2>1. Staff \ {o} \subseteq GcOwners
    BY DEF Staff
  <2>2. Staff \ {o} # {} => Min(Staff \ {o}) \in Staff \ {o}
    <3>1. Staff \ {o} \in SUBSET Nat
      BY <2>1
    <3> QED
      BY <3>1, MinIsLeast
  <2> QED
    BY <2>1, <2>2 DEF CoOwner
<1> QED
  BY <1>1, <1>2 DEF PrimaryAdmin

\* A row is appended; whose it is says which of the conditions matter.
LEMMA WriteInv ==
  ASSUME GcInv, NEW type \in {"PERMISSION", "CHAT"}, NEW g \in GcGuests,
         NEW from \in GcOwners \cup {None}, NEW to \in GcOwners \cup {None}, NEW broadcast \in BOOLEAN,
         Write(type, g, from, to, broadcast),
         visits' \in [GcGuests -> Visits], arrivals' \in Seq(GcGuests),
         \A h \in GcGuests : VisitFits(h)',
         \A h \in GcGuests \ {g} : visits'[h] = visits[h],
         Here(g)',
         \/ visits'[g].status # "pending"
         \/ visits'[g] = visits[g]
         \/ ~Here(g),
         type = "CHAT" => (from = None) # (to = None),
         type = "PERMISSION" => None \notin {from, to},
         type = "CHAT" /\ PendingAdmin(g)' # None => PendingAdmin(g)' \in {from, to},
         UNCHANGED <<chats, gcLive, mutes, shuns, reader>>
  PROVE  GcInv'
<1> DEFINE r == [type |-> type, guest |-> g, from |-> from, to |-> to, broadcast |-> broadcast]
<1>1. /\ r \in AccessRows /\ r.type = type /\ r.guest = g /\ r.from = from /\ r.to = to
      /\ rows' = Append(rows, r)
  BY DEF AccessRows, Write
<1> HIDE DEF r
<1>2. /\ rows' \in Seq(AccessRows) /\ rows'[Len(rows) + 1] = r
      /\ \A i \in DOMAIN rows : rows'[i] = rows[i]
      /\ \A i \in DOMAIN rows' : i \in DOMAIN rows \/ i = Len(rows) + 1
  BY <1>1 DEF GcInv, GcTyped
<1>3. ASSUME NEW i \in DOMAIN rows' PROVE RowFits(rows[i])'
  <2>1. CASE i \in DOMAIN rows
    <3>1. rows'[i] = rows[i] /\ rows[i].guest \in GcGuests
      <4>1. rows[i] \in AccessRows
        BY <2>1 DEF GcInv, GcTyped
      <4> QED
        BY <1>2, <2>1, <4>1 DEF AccessRows
    <3>2. RowFits(rows[i])
      BY <2>1 DEF GcInv
    <3>3. CASE rows[i].guest # g
      <4>1. visits'[rows[i].guest] = visits[rows[i].guest]
        BY <3>1, <3>3
      <4> QED
        BY <3>1, <3>2, <4>1 DEF RowFits, Here, PendingAdmin
    <3>4. CASE rows[i].guest = g
      BY <3>1, <3>2, <3>4 DEF RowFits, Here, PendingAdmin
    <3> QED
      BY <3>3, <3>4
  <2>2. CASE i = Len(rows) + 1
    <3>1. /\ rows'[i].type = type /\ rows'[i].guest = g
          /\ rows'[i].from = from /\ rows'[i].to = to
      BY <1>1, <1>2, <2>2
    <3> QED
      BY <3>1 DEF RowFits, Here, PendingAdmin
  <2> QED
    BY <1>2, <2>1, <2>2
<1>4. \A i \in DOMAIN chats : chats[i].to # chats[i].from
  BY DEF GcInv
<1> QED
  BY <1>2, <1>3, <1>4 DEF GcInv, GcTyped

LEMMA ArriveInv ==
  ASSUME GcInv, NEW g \in GcGuests, NEW kind \in {"expected", "unexpected", "network"},
         NEW status \in {"pending", "approved"}, NEW admin \in GcOwners \cup {None},
         NEW from \in GcOwners, NEW to \in GcOwners, NEW broadcast \in BOOLEAN,
         NewVisit(g, kind, status, admin), Write("PERMISSION", g, from, to, broadcast),
         status = "pending" => admin # None,
         admin # None => admin = ZoneOwner \/ GcNet[admin] = HomeNet
  PROVE  GcInv'
<1> USE GuestChatConstantsOK
<1> DEFINE visit == [kind |-> kind, status |-> status, admin |-> admin]
<1>1. visit \in Visits
  BY DEF Visits
<1>2. /\ visits' \in [GcGuests -> Visits] /\ visits'[g] = visit
      /\ \A h \in GcGuests \ {g} : visits'[h] = visits[h]
  BY <1>1 DEF NewVisit, GcInv, GcTyped
<1>3. /\ arrivals' \in Seq(GcGuests)
      /\ Range(arrivals') = Range(arrivals) \cup {g}
  <2>1. arrivals \in Seq(GcGuests) /\ arrivals' = Append(arrivals, g)
    BY DEF NewVisit, GcInv, GcTyped
  <2>2. /\ DOMAIN arrivals' = DOMAIN arrivals \cup {Len(arrivals) + 1}
        /\ arrivals'[Len(arrivals) + 1] = g
        /\ \A i \in DOMAIN arrivals : arrivals'[i] = arrivals[i]
    BY <2>1
  <2> QED
    BY <2>1, <2>2 DEF Range
<1>4. visit.kind = kind /\ visit.status = status /\ visit.admin = admin
  OBVIOUS
<1> HIDE DEF visit
<1>5. ~Here(g) /\ Here(g)'
  BY <1>2, <1>4 DEF NewVisit, Here
<1>6. ASSUME NEW h \in GcGuests PROVE VisitFits(h)'
  <2>1. VisitFits(h)
    BY DEF GcInv
  <2>2. CASE h = g
    BY <1>2, <1>3, <1>4, <1>5, <2>2 DEF VisitFits, Here
  <2>3. CASE h # g
    BY <1>2, <1>3, <2>1, <2>3 DEF VisitFits, Here
  <2> QED
    BY <2>2, <2>3
<1>7. UNCHANGED <<chats, gcLive, mutes, shuns, reader>>
  BY DEF NewVisit
<1>8. None \notin {from, to} /\ from \in GcOwners \cup {None} /\ to \in GcOwners \cup {None}
  BY DEF None
<1> QED
  BY <1>2, <1>3, <1>5, <1>6, <1>7, <1>8, WriteInv

LEMMA DecideInv ==
  ASSUME GcInv, NEW g \in GcGuests, NEW o \in GcOwners, NEW status \in {"approved", "rejected", "revoked"},
         visits[g].status \in {"pending", "approved"}, Decide(o, g, status)
  PROVE  GcInv'
<1> USE GuestChatConstantsOK
<1>1. visits[g] \in Visits /\ GcTyped
  BY DEF GcInv, GcTyped
<1> DEFINE visit == [visits[g] EXCEPT !.status = status]
<1>2. /\ visit \in Visits /\ visit.status = status
      /\ visit.kind = visits[g].kind /\ visit.admin = visits[g].admin
  BY <1>1 DEF Visits
<1> HIDE DEF visit
<1>3. /\ visits' \in [GcGuests -> Visits] /\ visits'[g] = visit
      /\ \A h \in GcGuests \ {g} : visits'[h] = visits[h]
  BY <1>1, <1>2 DEF Decide, GcTyped, visit
<1>4. VisitFits(g) /\ Here(g)
  BY DEF GcInv, VisitFits
<1>5. arrivals' = arrivals /\ UNCHANGED <<chats, gcLive, mutes, shuns, reader>>
  BY DEF Decide
<1>6. ASSUME NEW h \in GcGuests PROVE VisitFits(h)'
  <2>1. VisitFits(h)
    BY DEF GcInv
  <2>2. CASE h = g
    BY <1>2, <1>3, <1>4, <1>5, <2>2 DEF VisitFits, Here
  <2>3. CASE h # g
    BY <1>3, <1>5, <2>1, <2>3 DEF VisitFits, Here
  <2> QED
    BY <2>2, <2>3
<1>7. Here(g)' /\ visits'[g].status # "pending"
  BY <1>2, <1>3, <1>4 DEF Here
<1> DEFINE to == IF visits[g].admin \notin {None, o} THEN visits[g].admin ELSE CoOwner(o)
<1>8. to \in GcOwners /\ Write("PERMISSION", g, o, to, FALSE)
  <2>1. visits[g].admin \in GcOwners \cup {None} /\ CoOwner(o) \in GcOwners
    BY <1>1, StaffTyped DEF Visits
  <2> QED
    BY <2>1 DEF Decide
<1> HIDE DEF to
<1>9. None \notin {o, to} /\ o \in GcOwners \cup {None} /\ to \in GcOwners \cup {None}
  BY <1>8 DEF None
<1>10. arrivals' \in Seq(GcGuests)
  BY <1>1, <1>5 DEF GcTyped
<1> QED
  BY <1>3, <1>5, <1>6, <1>7, <1>8, <1>9, <1>10, WriteInv

\* Both directions of chat: while the guest waits, its administrator is one end.
LEMMA ChatInv ==
  ASSUME GcInv, NEW g \in GcGuests, NEW o \in GcOwners,
         GuestWrites(g, o) \/ MemberWritesToGuest(o, g)
  PROVE  GcInv'
<1> USE GuestChatConstantsOK DEF None
<1>1. /\ Here(g) /\ UNCHANGED <<visits, arrivals, chats, gcLive, mutes, shuns, reader>>
      /\ Write("CHAT", g, None, o, FALSE) \/ Write("CHAT", g, o, None, FALSE)
  BY DEF GuestWrites, MemberWritesToGuest, GuestServed
<1>2. PendingAdmin(g) \in {None, o}
  BY DEF GuestWrites, MemberWritesToGuest, Peers, PendingAdmin
<1>3. /\ visits' \in [GcGuests -> Visits] /\ arrivals' \in Seq(GcGuests)
      /\ \A h \in GcGuests : VisitFits(h)'
  BY <1>1 DEF GcInv, GcTyped, VisitFits, Here
<1>4. Here(g)' /\ PendingAdmin(g)' = PendingAdmin(g) /\ visits'[g] = visits[g]
  BY <1>1 DEF Here, PendingAdmin
<1>5. CASE Write("CHAT", g, None, o, FALSE)
  BY <1>1, <1>2, <1>3, <1>4, <1>5, WriteInv
<1>6. CASE Write("CHAT", g, o, None, FALSE)
  BY <1>1, <1>2, <1>3, <1>4, <1>6, WriteInv
<1> QED
  BY <1>1, <1>5, <1>6

\* What leaves the rows and the visits alone.
LEMMA AsideInv ==
  ASSUME GcInv, UNCHANGED <<visits, arrivals, rows>>,
         chats' \in Seq(MemberChats), \A i \in DOMAIN chats' : chats'[i].to # chats'[i].from,
         gcLive' \subseteq GcOwners, mutes' \subseteq GcOwners, shuns' \subseteq GcOwners \X GcOwners,
         reader'.guest # None => reader'.guest \in GcGuests
  PROVE  GcInv'
<1>1. GcTyped'
  BY DEF GcInv, GcTyped
<1>2. (\A g \in GcGuests : VisitFits(g)') /\ \A i \in DOMAIN rows : RowFits(rows[i])'
  BY DEF GcInv, VisitFits, RowFits, Here, PendingAdmin
<1> QED
  BY <1>1, <1>2 DEF GcInv

LEMMA MembersInv ==
  ASSUME GcInv, NEW o \in GcOwners, NEW r \in GcOwners \cup {None}, MemberWrites(o, r)
  PROVE  GcInv'
<1> DEFINE chat == [from |-> o, to |-> r]
<1>1. r # o
  BY GuestChatConstantsOK DEF MemberWrites, CanMessage, None
<1>2. chat \in MemberChats /\ chat.to = r /\ chat.from = o /\ chats' = Append(chats, chat)
  BY DEF MemberChats, MemberWrites
<1> HIDE DEF chat
<1>3. /\ chats' \in Seq(MemberChats) /\ chats'[Len(chats) + 1] = chat
      /\ \A i \in DOMAIN chats : chats'[i] = chats[i]
      /\ \A i \in DOMAIN chats' : i \in DOMAIN chats \/ i = Len(chats) + 1
  BY <1>2 DEF GcInv, GcTyped
<1>4. ASSUME NEW i \in DOMAIN chats' PROVE chats'[i].to # chats'[i].from
  BY <1>1, <1>2, <1>3 DEF GcInv
<1>5. UNCHANGED <<visits, arrivals, rows, gcLive, mutes, shuns, reader>>
  BY DEF MemberWrites
<1> QED
  BY <1>3, <1>4, <1>5, AsideInv DEF GcInv, GcTyped

LEMMA GcNextInv ==
  ASSUME GcInv, [GcNext]_gcVars
  PROVE  GcInv'
<1> USE GuestChatConstantsOK
<1>0. /\ GcTyped /\ \A i \in DOMAIN chats : chats[i].to # chats[i].from
      /\ reader.guest # None => reader.guest \in GcGuests
  BY DEF GcInv
<1>1. ASSUME NEW g \in GcGuests, ArriveUnexpected(g) \/ ArriveAtNetwork(g)
      PROVE  GcInv'
  <2>1. CASE ArriveUnexpected(g)
    <3>1. PrimaryAdmin \in GcOwners /\ (PrimaryAdmin = ZoneOwner \/ GcNet[PrimaryAdmin] = HomeNet)
      BY <1>0, <2>1, StaffTyped DEF ArriveUnexpected
    <3>2. /\ NewVisit(g, "unexpected", "pending", PrimaryAdmin) /\ PrimaryAdmin # None
          /\ Write("PERMISSION", g, PrimaryAdmin, PrimaryAdmin, TRUE)
      BY <2>1 DEF ArriveUnexpected
    <3> QED
      BY <3>1, <3>2, ArriveInv
  <2>2. CASE ArriveAtNetwork(g)
    <3>1. LowestAdmin \in GcOwners /\ GcNet[LowestAdmin] = HomeNet /\ CoOwner(LowestAdmin) \in GcOwners
      BY <1>0, <2>2, StaffTyped DEF ArriveAtNetwork
    <3>2. /\ NewVisit(g, "network", "pending", LowestAdmin) /\ LowestAdmin # None
          /\ Write("PERMISSION", g, LowestAdmin, CoOwner(LowestAdmin), TRUE)
      BY <2>2 DEF ArriveAtNetwork
    <3> QED
      BY <3>1, <3>2, ArriveInv
  <2> QED
    BY <1>1, <2>1, <2>2
<1>2. ASSUME NEW g \in GcGuests, NEW o \in GcOwners, ArriveExpected(g, o)
      PROVE  GcInv'
  <2>1. CoOwner(o) \in GcOwners
    BY <1>0, StaffTyped
  <2>2. /\ NewVisit(g, "expected", "approved", None)
        /\ Write("PERMISSION", g, o, CoOwner(o), FALSE)
    BY <1>2 DEF ArriveExpected
  <2> QED
    BY <2>1, <2>2, ArriveInv
<1>3. ASSUME NEW g \in GcGuests, NEW o \in GcOwners, ApproveVisit(o, g) \/ RejectVisit(o, g)
      PROVE  GcInv'
  <2>1. PICK status \in {"approved", "rejected", "revoked"} :
          visits[g].status \in {"pending", "approved"} /\ Decide(o, g, status)
    BY <1>3 DEF ApproveVisit, RejectVisit
  <2> QED
    BY <2>1, DecideInv
<1>4. ASSUME NEW g \in GcGuests, NEW o \in GcOwners \cup {None}, OpenThread(g, o)
      PROVE  GcInv'
  <2>1. reader'.guest = g /\ UNCHANGED <<visits, arrivals, rows, chats, gcLive, mutes, shuns>>
    BY <1>4 DEF OpenThread, ReadPage
  <2> QED
    BY <1>0, <2>1, AsideInv DEF GcTyped
<1>5. CASE NextPage
  <2>1. reader'.guest = reader.guest /\ UNCHANGED <<visits, arrivals, rows, chats, gcLive, mutes, shuns>>
    BY <1>5 DEF NextPage, ReadPage
  <2> QED
    BY <1>0, <2>1, AsideInv DEF GcTyped
<1>6. ASSUME NEW o \in GcOwners, NEW on \in BOOLEAN,
             MuteChat(o, on) \/ SetLive(o, on) \/ \E x \in GcOwners : Shun(o, x, on)
      PROVE  GcInv'
  <2>1. UNCHANGED <<visits, arrivals, rows, chats, reader>>
    BY <1>6 DEF MuteChat, SetLive, Shun
  <2>2. gcLive \subseteq GcOwners /\ mutes \subseteq GcOwners /\ shuns \subseteq GcOwners \X GcOwners
    BY <1>0 DEF GcTyped
  <2>3. gcLive' \subseteq GcOwners
    BY <1>6, <2>2 DEF MuteChat, SetLive, Shun
  <2>4. mutes' \subseteq GcOwners
    BY <1>6, <2>2 DEF MuteChat, SetLive, Shun
  <2>5. shuns' \subseteq GcOwners \X GcOwners
    <3>1. CASE UNCHANGED shuns
      BY <2>2, <3>1
    <3>2. ASSUME NEW x \in GcOwners, Shun(o, x, on)
          PROVE  shuns' \subseteq GcOwners \X GcOwners
      <4>1. <<o, x>> \in GcOwners \X GcOwners
        OBVIOUS
      <4>2. shuns' \subseteq shuns \cup {<<o, x>>}
        BY <3>2 DEF Shun
      <4> QED
        BY <2>2, <4>1, <4>2
    <3> QED
      BY <1>6, <3>1, <3>2 DEF MuteChat, SetLive
  <2> QED
    BY <1>0, <2>1, <2>3, <2>4, <2>5, AsideInv DEF GcTyped
<1>7. CASE UNCHANGED gcVars
  BY <1>0, <1>7, AsideInv DEF gcVars, GcTyped
<1> QED
  BY <1>1, <1>2, <1>3, <1>4, <1>5, <1>6, <1>7, ChatInv, MembersInv DEF GcNext

LEMMA GcInductive == GcSpec => []GcInv
<1>1. GcInit => GcInv
  <2> SUFFICES ASSUME GcInit PROVE GcInv
    OBVIOUS
  <2>1. NoVisit \in Visits /\ NoVisit.kind = "none" /\ NoVisit.status = "none" /\ NoVisit.admin = None
    BY DEF NoVisit, Visits
  <2>2. GcTyped
    BY <2>1 DEF GcInit, GcTyped
  <2>3. ASSUME NEW g \in GcGuests PROVE VisitFits(g)
    <3>1. visits[g] = NoVisit /\ Range(arrivals) = {}
      BY DEF GcInit, Range
    <3> QED
      BY <2>1, <3>1 DEF VisitFits, Here
  <2> QED
    BY <2>2, <2>3 DEF GcInit, GcInv, NoReader
<1>2. GcInv /\ [GcNext]_gcVars => GcInv'
  BY GcNextInv
<1> QED
  BY <1>1, <1>2, PTL DEF GcSpec

-----------------------------------------------------------------------------
(* GuestChat: what a step leaves as it was *)

LEMMA ArrivalShape ==
  ASSUME GcInv, NEW g \in GcGuests, NEW kind, NEW status, NEW admin, NewVisit(g, kind, status, admin)
  PROVE  /\ Len(arrivals') \in Nat /\ DOMAIN arrivals' = 1..Len(arrivals')
         /\ \A i \in DOMAIN arrivals : i \in DOMAIN arrivals' /\ arrivals'[i] = arrivals[i]
         /\ \A h \in GcGuests : Here(h) => visits'[h] = visits[h]
BY DEF NewVisit, GcInv, GcTyped

LEMMA DecisionShape ==
  ASSUME GcInv, NEW g \in GcGuests, NEW o, NEW status \in {"approved", "rejected", "revoked"},
         Decide(o, g, status)
  PROVE  /\ UNCHANGED arrivals
         /\ \A h \in GcGuests : /\ visits'[h].admin = visits[h].admin
                                /\ visits'[h].status = "pending" => visits[h].status = "pending"
<1>1. visits[g] \in Visits /\ visits \in [GcGuests -> Visits]
  BY DEF GcInv, GcTyped
<1>2. visits' = [visits EXCEPT ![g].status = status] /\ UNCHANGED arrivals
  BY DEF Decide
<1>3. visits'[g].admin = visits[g].admin /\ visits'[g].status = status
  BY <1>1, <1>2 DEF Visits
<1>4. \A h \in GcGuests \ {g} : visits'[h] = visits[h]
  BY <1>1, <1>2
<1> QED
  BY <1>2, <1>3, <1>4

\* The line of arrivals only grows; who is there keeps its administrator and never
\* begins to wait again.
LEMMA LineShape ==
  ASSUME GcInv, [GcNext]_gcVars
  PROVE  /\ Len(arrivals') \in Nat /\ DOMAIN arrivals' = 1..Len(arrivals')
         /\ \A i \in DOMAIN arrivals : i \in DOMAIN arrivals' /\ arrivals'[i] = arrivals[i]
         /\ \A h \in GcGuests : Here(h) =>
                /\ visits'[h].admin = visits[h].admin
                /\ visits'[h].status = "pending" => visits[h].status = "pending"
<1> DEFINE Shape ==
      /\ Len(arrivals') \in Nat /\ DOMAIN arrivals' = 1..Len(arrivals')
      /\ \A i \in DOMAIN arrivals : i \in DOMAIN arrivals' /\ arrivals'[i] = arrivals[i]
      /\ \A h \in GcGuests : Here(h) =>
             /\ visits'[h].admin = visits[h].admin
             /\ visits'[h].status = "pending" => visits[h].status = "pending"
<1>0. Len(arrivals) \in Nat /\ DOMAIN arrivals = 1..Len(arrivals)
  BY DEF GcInv, GcTyped
<1>1. ASSUME NEW g \in GcGuests, NEW kind, NEW status, NEW admin, NewVisit(g, kind, status, admin)
      PROVE  Shape
  BY <1>1, ArrivalShape
<1>2. ASSUME NEW g \in GcGuests, NEW o, NEW status \in {"approved", "rejected", "revoked"},
             Decide(o, g, status)
      PROVE  Shape
  <2>1. arrivals' = arrivals
    BY <1>2, DecisionShape
  <2>2. \A h \in GcGuests : /\ visits'[h].admin = visits[h].admin
                            /\ visits'[h].status = "pending" => visits[h].status = "pending"
    BY <1>2, DecisionShape
  <2>3. /\ Len(arrivals') \in Nat /\ DOMAIN arrivals' = 1..Len(arrivals')
        /\ \A i \in DOMAIN arrivals : i \in DOMAIN arrivals' /\ arrivals'[i] = arrivals[i]
    BY <1>0, <2>1
  <2> QED
    BY <2>2, <2>3
<1>3. ASSUME UNCHANGED <<visits, arrivals>> PROVE Shape
  BY <1>0, <1>3
<1> HIDE DEF Shape
<1>4. ASSUME NEW g \in GcGuests, ArriveUnexpected(g) \/ ArriveAtNetwork(g)
      PROVE  Shape
  BY <1>1, <1>4 DEF ArriveUnexpected, ArriveAtNetwork
<1>5. ASSUME NEW g \in GcGuests, NEW o \in GcOwners,
             ArriveExpected(g, o) \/ ApproveVisit(o, g) \/ RejectVisit(o, g)
      PROVE  Shape
  BY <1>1, <1>2, <1>5 DEF ArriveExpected, ApproveVisit, RejectVisit
<1>6. ASSUME NEW g \in GcGuests, NEW o \in GcOwners, GuestWrites(g, o) \/ MemberWritesToGuest(o, g)
      PROVE  Shape
  <2>1. UNCHANGED <<visits, arrivals>>
    BY <1>6 DEF GuestWrites, MemberWritesToGuest
  <2> QED
    BY <1>3, <2>1
<1>7. ASSUME NEW g \in GcGuests, NEW o \in GcOwners \cup {None}, OpenThread(g, o)
      PROVE  Shape
  <2>1. UNCHANGED <<visits, arrivals>>
    BY <1>7 DEF OpenThread
  <2> QED
    BY <1>3, <2>1
<1>8. ASSUME NextPage PROVE Shape
  <2>1. UNCHANGED <<visits, arrivals>>
    BY <1>8 DEF NextPage
  <2> QED
    BY <1>3, <2>1
<1>9. ASSUME NEW o \in GcOwners, NEW r \in GcOwners \cup {None}, MemberWrites(o, r)
      PROVE  Shape
  <2>1. UNCHANGED <<visits, arrivals>>
    BY <1>9 DEF MemberWrites
  <2> QED
    BY <1>3, <2>1
<1>10. ASSUME NEW o \in GcOwners, NEW on \in BOOLEAN,
              MuteChat(o, on) \/ SetLive(o, on) \/ \E x \in GcOwners : Shun(o, x, on)
       PROVE  Shape
  <2>1. UNCHANGED <<visits, arrivals>>
    BY <1>10 DEF MuteChat, SetLive, Shun
  <2> QED
    BY <1>3, <2>1
<1>11. ASSUME UNCHANGED gcVars PROVE Shape
  BY <1>3, <1>11 DEF gcVars
<1>12. Shape
  BY <1>4, <1>5, <1>6, <1>7, <1>8, <1>9, <1>10, <1>11 DEF GcNext
<1> QED
  BY <1>12 DEF Shape

\* A step writes one row, or none.
LEMMA RowsShape ==
  ASSUME [GcNext]_gcVars
  PROVE  rows' = rows \/ \E r : rows' = Append(rows, r)
<1> DEFINE Shape == rows' = rows \/ \E r : rows' = Append(rows, r)
<1>1. ASSUME NEW type, NEW g, NEW from, NEW to, NEW broadcast, Write(type, g, from, to, broadcast)
      PROVE  Shape
  BY <1>1 DEF Write
<1>2. ASSUME UNCHANGED rows PROVE Shape
  BY <1>2
<1> HIDE DEF Shape
<1>3. ASSUME NEW g \in GcGuests, ArriveUnexpected(g) \/ ArriveAtNetwork(g)
      PROVE  Shape
  BY <1>1, <1>3 DEF ArriveUnexpected, ArriveAtNetwork
<1>4. ASSUME NEW g \in GcGuests, NEW o \in GcOwners,
             ArriveExpected(g, o) \/ ApproveVisit(o, g) \/ RejectVisit(o, g)
      PROVE  Shape
  BY <1>1, <1>4 DEF ArriveExpected, ApproveVisit, RejectVisit, Decide
<1>5. ASSUME NEW g \in GcGuests, NEW o \in GcOwners, GuestWrites(g, o) \/ MemberWritesToGuest(o, g)
      PROVE  Shape
  BY <1>1, <1>5 DEF GuestWrites, MemberWritesToGuest
<1>6. ASSUME NEW g \in GcGuests, NEW o \in GcOwners \cup {None}, OpenThread(g, o)
      PROVE  Shape
  <2>1. UNCHANGED rows
    BY <1>6 DEF OpenThread
  <2> QED
    BY <1>2, <2>1
<1>7. ASSUME NextPage PROVE Shape
  <2>1. UNCHANGED rows
    BY <1>7 DEF NextPage
  <2> QED
    BY <1>2, <2>1
<1>8. ASSUME NEW o \in GcOwners, NEW r \in GcOwners \cup {None}, MemberWrites(o, r)
      PROVE  Shape
  <2>1. UNCHANGED rows
    BY <1>8 DEF MemberWrites
  <2> QED
    BY <1>2, <2>1
<1>9. ASSUME NEW o \in GcOwners, NEW on \in BOOLEAN,
              MuteChat(o, on) \/ SetLive(o, on) \/ \E x \in GcOwners : Shun(o, x, on)
       PROVE  Shape
  <2>1. UNCHANGED rows
    BY <1>9 DEF MuteChat, SetLive, Shun
  <2> QED
    BY <1>2, <2>1
<1>10. ASSUME UNCHANGED gcVars PROVE Shape
  BY <1>2, <1>10 DEF gcVars
<1>11. Shape
  BY <1>3, <1>4, <1>5, <1>6, <1>7, <1>8, <1>9, <1>10 DEF GcNext
<1> QED
  BY <1>11 DEF Shape

-----------------------------------------------------------------------------
(* GuestChat: whose turn it is *)

\* Who is first among the waiting stays first: whoever came earlier has been decided,
\* and new arrivals come after.
LEMMA HeadStays ==
  ASSUME GcInv, [GcNext]_gcVars, NEW g \in GcGuests, QueueHead = g,
         visits[g].status = "pending", visits'[g].status = "pending"
  PROVE  QueueHead' = g
<1> DEFINE m == Min(Waiting)
<1>1. /\ Waiting \in SUBSET Nat /\ arrivals \in Seq(GcGuests) /\ g # None
      /\ DOMAIN arrivals = 1..Len(arrivals)
  BY GuestChatConstantsOK DEF GcInv, GcTyped, Waiting, None
<1>2. Waiting # {} /\ arrivals[m] = g
  BY <1>1 DEF QueueHead
<1>3. m \in Waiting /\ \A y \in Waiting : m <= y
  BY <1>1, <1>2, MinIsLeast
<1> HIDE DEF m
<1>4. PICK first \in Nat : first = m
  BY <1>1, <1>3
<1>5. /\ first \in DOMAIN arrivals /\ arrivals[first] = g
      /\ \A i \in DOMAIN arrivals : visits[arrivals[i]].status = "pending" => first <= i
  BY <1>2, <1>3, <1>4 DEF Waiting
<1>6. first \in DOMAIN arrivals' /\ arrivals'[first] = g
  BY <1>5, LineShape
<1>7. ASSUME NEW i \in DOMAIN arrivals', visits'[arrivals'[i]].status = "pending"
      PROVE  first <= i
  <2>1. i \in 1..Len(arrivals') /\ Len(arrivals') \in Nat
    BY <1>7, LineShape
  <2>2. CASE i \in DOMAIN arrivals
    <3>1. arrivals'[i] = arrivals[i] /\ arrivals[i] \in GcGuests
      BY <1>1, <2>2, LineShape
    <3>2. arrivals[i] \in Range(arrivals) /\ VisitFits(arrivals[i])
      BY <2>2, <3>1 DEF Range, GcInv
    <3>3. Here(arrivals[i])
      BY <3>2 DEF VisitFits
    <3>4. visits[arrivals[i]].status = "pending"
      BY <1>7, <3>1, <3>3, LineShape
    <3> QED
      BY <1>5, <2>2, <3>4
  <2>3. CASE i \notin DOMAIN arrivals
    BY <1>1, <1>5, <2>1, <2>3
  <2> QED
    BY <2>2, <2>3
<1>8. /\ Waiting' \in SUBSET Nat /\ first \in Waiting' /\ \A y \in Waiting' : first <= y
  <2>1. DOMAIN arrivals' \subseteq Nat
    BY LineShape
  <2> QED
    BY <1>6, <1>7, <2>1 DEF Waiting
<1>9. PICK next \in SUBSET Nat : next = Waiting'
  BY <1>8
<1>10. Min(next) = first
  <2>1. Min(next) \in next /\ Min(next) <= first
    BY <1>8, <1>9, MinIsLeast
  <2>2. first <= Min(next) /\ Min(next) \in Nat
    BY <1>8, <1>9, <2>1
  <2> QED
    BY <2>1, <2>2
<1>11. Min(Waiting)' = first
  BY <1>9, <1>10 DEF Min
<1> QED
  BY <1>6, <1>8, <1>11 DEF QueueHead

\* Nor is a chat of the administrator forgotten while the search still reaches it.
LEMMA ChatRemembered ==
  ASSUME GcInv, [GcNext]_gcVars, NEW g \in GcGuests, AdminWroteTo(g),
         visits'[g].admin = visits[g].admin
  PROVE  \/ AdminWroteTo(g)'
         \/ /\ SentBy(visits[g].admin) # SentBy(visits[g].admin)'
            /\ Cardinality(SentBy(visits[g].admin)) >= AdminScan
<1>0. PICK a \in GcOwners \cup {None} : a = visits[g].admin
  BY DEF GcInv, GcTyped, Visits
<1> DEFINE sent == {i \in DOMAIN rows : rows[i].type = "CHAT" /\ rows[i].from = a}
<1>1. SentBy(visits[g].admin) = sent /\ SentBy(visits[g].admin)' = sent'
  BY <1>0 DEF SentBy
<1>2. PICK was \in SUBSET Nat, now \in SUBSET Nat :
        was = sent /\ now = sent'
  <2>1. rows \in Seq(AccessRows)
    BY DEF GcInv, GcTyped
  <2>2. DOMAIN rows' \subseteq Nat
    BY <2>1, GcNextInv DEF GcInv, GcTyped
  <2>3. DOMAIN rows \subseteq Nat
    BY <2>1
  <2>4. sent \in SUBSET Nat
    BY <2>3
  <2>5. sent' \in SUBSET Nat
    BY <2>2
  <2> QED
    BY <2>4, <2>5
<1>3. PICK i \in was : rows[i].guest = g /\ Cardinality({j \in was : j > i}) < AdminScan
  BY <1>1, <1>2 DEF AdminWroteTo
<1>4. rows \in Seq(AccessRows) /\ Len(rows) \in Nat /\ DOMAIN rows = 1..Len(rows)
  BY DEF GcInv, GcTyped
<1>5. /\ \A j \in DOMAIN rows : j \in DOMAIN rows' /\ rows'[j] = rows[j]
      /\ DOMAIN rows' \subseteq 1..(Len(rows) + 1)
  BY <1>4, RowsShape
<1>6. i \in now /\ rows'[i].guest = g /\ now \subseteq was \cup {Len(rows) + 1}
  BY <1>2, <1>3, <1>4, <1>5
<1>7. IsFiniteSet(was)
  <2>1. IsFiniteSet(1..Len(rows)) /\ was \subseteq 1..Len(rows)
    BY <1>2, <1>4, FS_Interval
  <2> QED
    BY <2>1, FS_Subset
<1>8. CASE now = was
  BY <1>0, <1>1, <1>2, <1>3, <1>6, <1>8 DEF AdminWroteTo
<1>9. CASE now # was /\ Cardinality(was) < AdminScan
  <2>1. IsFiniteSet(was \ {i}) /\ Cardinality(was \ {i}) = Cardinality(was) - 1
    BY <1>7, FS_RemoveElement
  <2>2. Cardinality(was) \in Nat
    BY <1>7, FS_CardinalityType
  <2> DEFINE bigger == (was \ {i}) \cup {Len(rows) + 1}
  <2>3. IsFiniteSet(bigger) /\ Cardinality(bigger) <= Cardinality(was)
    <3>1. /\ IsFiniteSet(bigger)
          /\ \/ Cardinality(bigger) = Cardinality(was \ {i})
             \/ Cardinality(bigger) = Cardinality(was \ {i}) + 1
      BY <2>1, FS_AddElement
    <3> HIDE DEF bigger
    <3> QED
      BY <2>1, <2>2, <3>1
  <2> DEFINE newer == {j \in now : j > i}
  <2>4. newer \subseteq bigger
    BY <1>2, <1>3, <1>6
  <2>5. Cardinality(newer) <= Cardinality(bigger) /\ IsFiniteSet(newer)
    BY <2>3, <2>4, FS_Subset
  <2>6. Cardinality(newer) \in Nat /\ Cardinality(bigger) \in Nat /\ AdminScan \in Nat
    BY <2>3, <2>5, FS_CardinalityType, GuestChatConstantsOK
  <2>7. Cardinality(newer) < AdminScan
    <3> HIDE DEF newer, bigger
    <3> QED
      BY <1>9, <2>2, <2>3, <2>5, <2>6
  <2> QED
    BY <1>0, <1>1, <1>2, <1>6, <2>7 DEF AdminWroteTo
<1>10. CASE now # was /\ ~(Cardinality(was) < AdminScan)
  <2>1. Cardinality(was) \in Nat /\ AdminScan \in Nat
    BY <1>7, FS_CardinalityType, GuestChatConstantsOK
  <2>2. Cardinality(was) >= AdminScan
    BY <1>10, <2>1
  <2> QED
    BY <1>1, <1>2, <1>10, <2>2
<1> QED
  BY <1>8, <1>9, <1>10

\* A waiting guest who may chat keeps its turn while it waits
\* (pending_network_chat_queue_head, admin_has_initiated_pending_chat).
THEOREM TurnsAreKept == GcSpec => TurnIsKept
<1> DEFINE Kept ==
      \A g \in GcGuests :
        Eligible(g) /\ visits'[g].status = "pending" =>
            \/ Eligible(g)'
            \/ LET sent == SentBy(visits[g].admin)
               IN  sent # sent' /\ Cardinality(sent) >= AdminScan
<1>1. ASSUME GcInv, [GcNext]_gcVars
      PROVE  Kept
  <2> SUFFICES ASSUME NEW g \in GcGuests, Eligible(g), visits'[g].status = "pending"
               PROVE  \/ Eligible(g)'
                      \/ /\ SentBy(visits[g].admin) # SentBy(visits[g].admin)'
                         /\ Cardinality(SentBy(visits[g].admin)) >= AdminScan
    OBVIOUS
  <2>1. visits[g].status = "pending" /\ visits[g].admin # None /\ (QueueHead = g \/ AdminWroteTo(g))
    BY DEF Eligible, PendingAdmin
  <2>2. visits'[g].admin = visits[g].admin
    <3>1. Here(g)
      BY <1>1, <2>1 DEF GcInv, VisitFits
    <3> QED
      BY <1>1, <3>1, LineShape
  <2>3. PendingAdmin(g)' # None
    BY <2>1, <2>2 DEF PendingAdmin
  <2>4. CASE QueueHead = g
    BY <1>1, <2>1, <2>3, <2>4, HeadStays DEF Eligible
  <2>5. CASE AdminWroteTo(g)
    BY <1>1, <2>2, <2>3, <2>5, ChatRemembered DEF Eligible
  <2> QED
    BY <2>1, <2>4, <2>5
<1> HIDE DEF Kept
<1>2. GcSpec => [][Kept]_gcVars
  BY <1>1, GcInductive, PTL DEF GcSpec
<1> QED
  BY <1>2 DEF TurnIsKept, Kept

-----------------------------------------------------------------------------
(* GuestChat: who may write is shown what was written *)

LEMMA GuestIsShown ==
  ASSUME GcInv, NEW g \in GcGuests, NEW o \in GcOwners, GuestWrites(g, o)
  PROVE  NewestRowShown'
<1> USE GuestChatConstantsOK DEF None
<1> DEFINE r == [type |-> "CHAT", guest |-> g, from |-> None, to |-> o, broadcast |-> FALSE]
<1>1. rows' = Append(rows, r) /\ UNCHANGED <<visits, gcLive, mutes, shuns>>
  BY DEF GuestWrites, Write
<1>2. r.type = "CHAT" /\ r.guest = g /\ r.from = None /\ r.to = o
  OBVIOUS
<1> HIDE DEF r
<1>3. rows \in Seq(AccessRows)
  BY DEF GcInv, GcTyped
<1>4. PICK n \in Nat : n = Len(rows') /\ n \in DOMAIN rows' /\ rows'[n] = r
  BY <1>1, <1>3
<1>5. CanManage(o) /\ o \notin mutes /\ <<o, None>> \notin shuns
  <2>1. o \in gcLive /\ o \notin mutes /\ o \in Peers(g)
    BY DEF GuestWrites, Peers
  <2>2. o = ZoneOwner \/ GcNet[o] = HomeNet
    <3>1. VisitFits(g) /\ GcTyped
      BY DEF GcInv
    <3> QED
      BY <2>1, <3>1, StaffTyped DEF Peers, VisitFits
  <2>3. CanManage(o)
    BY <2>1, <2>2 DEF CanManage, Listed
  <2>4. <<o, None>> \notin shuns
    BY DEF GcInv, GcTyped
  <2> QED
    BY <2>1, <2>3, <2>4
<1>6. CanManage(o)' /\ ~Refuses(o, None)'
  BY <1>1, <1>5 DEF CanManage, Listed, Refuses
<1>7. n \in GuestInbox(o)'
  BY <1>2, <1>4, <1>6 DEF GuestInbox, AccessChatShown
<1>8. n \in MemberThread(o, g, o)'
  BY <1>2, <1>4, <1>6 DEF MemberThread, Thread, InThread
<1> QED
  BY <1>2, <1>4, <1>7, <1>8 DEF NewestRowShown

LEMMA MemberIsShown ==
  ASSUME GcInv, NEW g \in GcGuests, NEW o \in GcOwners, MemberWritesToGuest(o, g)
  PROVE  NewestRowShown'
<1> USE GuestChatConstantsOK DEF None
<1> DEFINE r == [type |-> "CHAT", guest |-> g, from |-> o, to |-> None, broadcast |-> FALSE]
<1>1. rows' = Append(rows, r)
  BY DEF MemberWritesToGuest, Write
<1>2. r.type = "CHAT" /\ r.guest = g /\ r.from = o /\ r.to = None
  OBVIOUS
<1> HIDE DEF r
<1>3. rows \in Seq(AccessRows)
  BY DEF GcInv, GcTyped
<1>4. PICK n \in Nat : n = Len(rows') /\ n \in DOMAIN rows' /\ rows'[n] = r
  BY <1>1, <1>3
<1>5. n \in Thread(g, o)'
  BY <1>2, <1>4 DEF Thread, InThread
<1> QED
  BY <1>2, <1>4, <1>5 DEF NewestRowShown

LEMMA NoticeIsShown ==
  ASSUME GcInv, NEW g, NEW from, NEW to, NEW broadcast, Write("PERMISSION", g, from, to, broadcast)
  PROVE  NewestRowShown'
<1> DEFINE r == [type |-> "PERMISSION", guest |-> g, from |-> from, to |-> to, broadcast |-> broadcast]
<1>1. rows' = Append(rows, r) /\ rows \in Seq(AccessRows)
  BY DEF Write, GcInv, GcTyped
<1>2. rows'[Len(rows')].type = "PERMISSION"
  BY <1>1
<1> QED
  BY <1>2 DEF NewestRowShown

LEMMA ChatReachesMember ==
  ASSUME GcInv, NEW o \in GcOwners, NEW r \in GcOwners \cup {None}, MemberWrites(o, r)
  PROVE  NewestChatShown'
<1> DEFINE chat == [from |-> o, to |-> r]
<1>1. chats' = Append(chats, chat) /\ UNCHANGED <<gcLive, mutes, shuns>>
  BY DEF MemberWrites
<1>2. chat.from = o /\ chat.to = r
  OBVIOUS
<1> HIDE DEF chat
<1>3. chats \in Seq(MemberChats)
  BY DEF GcInv, GcTyped
<1>4. PICK n \in Nat : n = Len(chats') /\ n \in DOMAIN chats' /\ chats'[n] = chat
  BY <1>1, <1>3
<1>5. r # None => GcNet[r] = GcNet[o] /\ r \notin mutes' /\ <<r, o>> \notin shuns'
  BY <1>1 DEF MemberWrites, CanMessage, Refuses
<1>6. r # None => n \in MemberInbox(r)'
  BY <1>2, <1>4, <1>5 DEF MemberInbox
<1> QED
  BY <1>2, <1>4, <1>6 DEF NewestChatShown

LEMMA NewestIsShown ==
  ASSUME GcInv, [GcNext]_gcVars, Len(rows') > Len(rows)
  PROVE  NewestRowShown'
<1>1. ASSUME UNCHANGED rows PROVE FALSE
  BY <1>1 DEF GcInv, GcTyped
<1>2. ASSUME NEW g \in GcGuests, ArriveUnexpected(g) \/ ArriveAtNetwork(g)
      PROVE  NewestRowShown'
  BY <1>2, NoticeIsShown DEF ArriveUnexpected, ArriveAtNetwork
<1>3. ASSUME NEW g \in GcGuests, NEW o \in GcOwners,
             ArriveExpected(g, o) \/ ApproveVisit(o, g) \/ RejectVisit(o, g)
      PROVE  NewestRowShown'
  BY <1>3, NoticeIsShown DEF ArriveExpected, ApproveVisit, RejectVisit, Decide
<1>4. ASSUME NEW g \in GcGuests, NEW o \in GcOwners \cup {None}, OpenThread(g, o)
      PROVE  FALSE
  <2>1. UNCHANGED rows
    BY <1>4 DEF OpenThread
  <2> QED
    BY <1>1, <2>1
<1>5. ~NextPage
  BY <1>1 DEF NextPage
<1>6. ASSUME NEW o \in GcOwners, NEW r \in GcOwners \cup {None}, MemberWrites(o, r)
      PROVE  FALSE
  <2>1. UNCHANGED rows
    BY <1>6 DEF MemberWrites
  <2> QED
    BY <1>1, <2>1
<1>7. ASSUME NEW o \in GcOwners, NEW on \in BOOLEAN,
             MuteChat(o, on) \/ SetLive(o, on) \/ \E x \in GcOwners : Shun(o, x, on)
      PROVE  FALSE
  <2>1. UNCHANGED rows
    BY <1>7 DEF MuteChat, SetLive, Shun
  <2> QED
    BY <1>1, <2>1
<1>8. ~UNCHANGED gcVars
  BY <1>1 DEF gcVars
<1> QED
  BY <1>2, <1>3, <1>4, <1>5, <1>6, <1>7, <1>8, GuestIsShown, MemberIsShown DEF GcNext

LEMMA MembersChatAlone ==
  ASSUME GcInv, [GcNext]_gcVars, Len(chats') > Len(chats)
  PROVE  NewestChatShown'
<1>1. ASSUME UNCHANGED chats PROVE FALSE
  BY <1>1 DEF GcInv, GcTyped
<1>2. ASSUME NEW g \in GcGuests,
             \/ ArriveUnexpected(g) \/ ArriveAtNetwork(g)
             \/ \E o \in GcOwners : ArriveExpected(g, o)
      PROVE  FALSE
  <2>1. UNCHANGED chats
    BY <1>2 DEF ArriveUnexpected, ArriveAtNetwork, ArriveExpected, NewVisit
  <2> QED
    BY <1>1, <2>1
<1>3. ASSUME NEW g \in GcGuests, NEW o \in GcOwners,
             ApproveVisit(o, g) \/ RejectVisit(o, g) \/ GuestWrites(g, o) \/ MemberWritesToGuest(o, g)
      PROVE  FALSE
  <2>1. UNCHANGED chats
    BY <1>3 DEF ApproveVisit, RejectVisit, Decide, GuestWrites, MemberWritesToGuest
  <2> QED
    BY <1>1, <2>1
<1>4. ASSUME NEW g \in GcGuests, NEW o \in GcOwners \cup {None}, OpenThread(g, o)
      PROVE  FALSE
  <2>1. UNCHANGED chats
    BY <1>4 DEF OpenThread
  <2> QED
    BY <1>1, <2>1
<1>5. ~NextPage
  BY <1>1 DEF NextPage
<1>6. ASSUME NEW o \in GcOwners, NEW on \in BOOLEAN,
             MuteChat(o, on) \/ SetLive(o, on) \/ \E x \in GcOwners : Shun(o, x, on)
      PROVE  FALSE
  <2>1. UNCHANGED chats
    BY <1>6 DEF MuteChat, SetLive, Shun
  <2> QED
    BY <1>1, <2>1
<1>7. ~UNCHANGED gcVars
  BY <1>1 DEF gcVars
<1> QED
  BY <1>2, <1>3, <1>4, <1>5, <1>6, <1>7, ChatReachesMember DEF GcNext

-----------------------------------------------------------------------------
\* The rows and sessions keep their types: a row is about a guest who arrived, a chat
\* with a guest has one end on the staff.
THEOREM ChatTypesHold == GcSpec => []GcTypeOK
<1>1. GcInv => GcTypeOK
  <2> SUFFICES ASSUME GcInv PROVE GcTypeOK
    OBVIOUS
  <2>1. ASSUME NEW g \in GcGuests
        PROVE  /\ visits[g].status \in {"none", "pending", "approved", "rejected", "revoked"}
               /\ visits[g].status = "pending" => visits[g].admin \in GcOwners
               /\ Here(g) = (g \in Range(arrivals))
    <3>1. visits[g] \in Visits /\ VisitFits(g)
      BY DEF GcInv, GcTyped
    <3> QED
      BY <3>1 DEF Visits, VisitFits
  <2>2. ASSUME NEW i \in DOMAIN rows
        PROVE  /\ Here(rows[i].guest)
               /\ {rows[i].from, rows[i].to} \subseteq GcOwners \cup {None}
               /\ rows[i].type = "CHAT" => (rows[i].from = None) # (rows[i].to = None)
               /\ rows[i].type = "PERMISSION" => None \notin {rows[i].from, rows[i].to}
    <3>1. rows[i] \in AccessRows /\ RowFits(rows[i])
      BY DEF GcInv, GcTyped
    <3> QED
      BY <3>1 DEF AccessRows, RowFits
  <2>3. ASSUME NEW i \in DOMAIN chats PROVE chats[i].from \in GcOwners /\ chats[i].to # chats[i].from
    <3>1. chats[i] \in MemberChats /\ chats[i].to # chats[i].from
      BY DEF GcInv, GcTyped
    <3> QED
      BY <3>1 DEF MemberChats
  <2> QED
    BY <2>1, <2>2, <2>3 DEF GcTypeOK, GcInv
<1> QED
  BY <1>1, GcInductive, PTL

\* While a guest waits, only the administrator of its session is an end of its chat
\* (create_guest_zone_message, create_member_to_guest_zone_message).
THEOREM OneVoiceHolds == GcSpec => []OneVoiceWhileWaiting
<1>1. GcInv => OneVoiceWhileWaiting
  BY DEF GcInv, RowFits, OneVoiceWhileWaiting, Thread, InThread
<1> QED
  BY <1>1, GcInductive, PTL

\* A chat is shown to the one it is for as soon as it is stored: who may write
\* (guest_post_message, create_member_to_guest_zone_message, create_message) and what
\* is shown (the merged inbox, the threads) are decided by different code.
THEOREM ChatsAreShown == GcSpec => ChatIsShown
<1> DEFINE Shown ==
      /\ Len(rows') > Len(rows) => NewestRowShown'
      /\ Len(chats') > Len(chats) => NewestChatShown'
<1>1. ASSUME GcInv, [GcNext]_gcVars
      PROVE  Shown
  BY <1>1, NewestIsShown, MembersChatAlone
<1> HIDE DEF Shown
<1>2. GcSpec => [][Shown]_gcVars
  BY <1>1, GcInductive, PTL DEF GcSpec
<1> QED
  BY <1>2 DEF ChatIsShown, Shown
=============================================================================
