------------------------------- MODULE Devices -------------------------------
(***************************************************************************)
(* Login sessions (phones MOB-, browsers WEB-) and smart-home hubs: the     *)
(* devices table, routers/devices.py, device_entitlements.py and            *)
(* member_presence_service.py.  Every handler runs to its commit on the     *)
(* event loop, so each is one action; a refused request rolls back.         *)
(***************************************************************************)
EXTENDS Naturals, FiniteSets

CONSTANTS
    DvOwners,       \* owners, the system administrator apart
    DvVisible,      \* owner -> owners whose devices it may touch, itself included
    Logins,         \* hardware ids of phones and browsers
    HubIds,         \* hardware ids of hubs
    Urls,           \* webhook addresses
    MaxPlan,        \* bound: hubs the largest plan allows
    MaxSockets,     \* bound: WebSockets of one owner
    NoDevice, NoUrl

ASSUME DevicesConstantsOK ==
    /\ MaxPlan \in Nat /\ MaxSockets \in Nat
    /\ Logins \cap HubIds = {} /\ NoUrl \notin Urls
    /\ DvVisible \in [DvOwners -> SUBSET DvOwners]

VARIABLES
    device,     \* devices by hardware id, which is unique
    plan,       \* owner -> hubs its account type allows
    sockets     \* owner -> WebSockets in the connection manager

dvVars == <<device, plan, sockets>>

Hids == Logins \cup HubIds
Devices == [owner : DvOwners, online : BOOLEAN, fresh : BOOLEAN, url : Urls \cup {NoUrl}]

Enrolled(d) == device[d] # NoDevice
Of(o, kind) == {d \in kind : Enrolled(d) /\ device[d].owner = o}
Full(o) == Cardinality(Of(o, HubIds)) >= plan[o]

\* A login session counts while it is online and was seen lately.
PresenceIsActive(d) == Enrolled(d) /\ device[d].online /\ device[d].fresh

\* Mutant of SessionsExpired: whoever asks takes every session down.
AllSessionsExpired(o) == [d \in Hids |->
    IF d \in Of(o, Logins) THEN [device[d] EXCEPT !.online = FALSE] ELSE device[d]]

\* The rows once an owner's sessions that were not seen lately are offline.
SessionsExpired(o) == [d \in Hids |->
    IF d \in Of(o, Logins) /\ ~device[d].fresh THEN [device[d] EXCEPT !.online = FALSE] ELSE device[d]]

\* Another phone or browser of the owner is signed in.
Conflict(o, d) == \E e \in Of(o, Logins) \ {d} : PresenceIsActive(e)

\* No other device has the webhook.
UrlFree(u, d) == \A e \in Hids \ {d} : Enrolled(e) => device[e].url # u

-----------------------------------------------------------------------------
DvTypeOK ==
    /\ \A d \in Logins : Enrolled(d) => device[d] \in Devices /\ device[d].url = NoUrl
    /\ \A d \in HubIds : Enrolled(d) => device[d] \in Devices /\ device[d].url # NoUrl /\ device[d].fresh
    /\ plan \in [DvOwners -> 0..MaxPlan]
    /\ sockets \in [DvOwners -> 0..MaxSockets]

DvInit ==
    /\ device = [d \in Hids |-> NoDevice]
    /\ plan \in [DvOwners -> 0..MaxPlan]
    /\ sockets = [o \in DvOwners |-> 0]

-----------------------------------------------------------------------------
(* POST /devices/ *)

EnrolLogin(o, d, online) ==
    /\ d \in Logins /\ ~Enrolled(d)
    /\ ~Conflict(o, d)
    /\ device' = [SessionsExpired(o) EXCEPT
           ![d] = [owner |-> o, online |-> online, fresh |-> TRUE, url |-> NoUrl]]
    /\ UNCHANGED <<plan, sockets>>

\* An owner with all the hubs its plan allows is refused.  The eviction that should
\* make room is not flushed when the hubs are counted, and rolled back.
EnrolHub(o, d, u, online) ==
    /\ d \in HubIds /\ ~Enrolled(d)
    /\ u \in Urls /\ UrlFree(u, d)
    /\ ~Full(o)
    /\ device' = [SessionsExpired(o) EXCEPT
           ![d] = [owner |-> o, online |-> online, fresh |-> TRUE, url |-> u]]
    /\ UNCHANGED <<plan, sockets>>

\* The hardware id is the owner's already: its row is updated.  The expiry is rolled
\* back with the INSERT.  A session never seen counts from its last update.
EnrolAgain(o, d, online, fresh) ==
    /\ d \in Of(o, Logins)
    /\ ~Conflict(o, d)
    /\ device' = [device EXCEPT ![d].online = online, ![d].fresh = fresh \/ @]
    /\ UNCHANGED <<plan, sockets>>

EnrolHubAgain(o, d, u, online) ==
    /\ d \in Of(o, HubIds) /\ u # device[d].url
    /\ u \in Urls /\ UrlFree(u, d)
    /\ ~Full(o)
    /\ device' = [device EXCEPT ![d].online = online, ![d].url = u]
    /\ UNCHANGED <<plan, sockets>>

\* The same phone signs in to another account: an idle session changes its owner.
SwitchAccount(o, d, online, fresh) ==
    /\ d \in Logins /\ Enrolled(d) /\ device[d].owner # o
    /\ ~Conflict(o, d) /\ ~PresenceIsActive(d)
    /\ device' = [device EXCEPT ![d].owner = o, ![d].online = online, ![d].fresh = fresh \/ @]
    /\ UNCHANGED <<plan, sockets>>

-----------------------------------------------------------------------------
(* Sessions and presence *)

\* The hubs a claim deletes: offline ones, until one more would fit the plan.  With
\* too few of them offline the claim is refused, and always on a plan without hubs.
Room(o) == {gone \in SUBSET Of(o, HubIds) :
    /\ plan[o] > 0
    /\ \A d \in gone : ~device[d].online
    /\ Cardinality(gone) = IF Full(o) THEN Cardinality(Of(o, HubIds)) - plan[o] + 1 ELSE 0}

\* POST /devices/claim-session: the other sessions go, and hubs with them.
ClaimSession(o, keep) ==
    \E gone \in Room(o) :
        /\ device' = [d \in Hids |-> IF d \in gone \cup (Of(o, Logins) \ {keep})
                                     THEN NoDevice ELSE SessionsExpired(o)[d]]
        /\ UNCHANGED <<plan, sockets>>

\* A heartbeat or a location report, which look at no other session.
Heartbeat(p, d) ==
    /\ Enrolled(d) /\ device[d].owner \in DvVisible[p]
    /\ device' = [device EXCEPT ![d].online = TRUE, ![d].fresh = TRUE]
    /\ UNCHANGED <<plan, sockets>>

ListDevices(p) ==
    /\ device' = [d \in Hids |-> IF Enrolled(d) /\ device[d].owner \in DvVisible[p]
                                 THEN SessionsExpired(device[d].owner)[d] ELSE device[d]]
    /\ UNCHANGED <<plan, sockets>>

\* PATCH /devices/{id}; a login session stores no webhook.
UpdateDevice(p, d, online, u) ==
    /\ Enrolled(d) /\ device[d].owner \in DvVisible[p]
    /\ IF d \in HubIds THEN u \in Urls /\ UrlFree(u, d) ELSE u = NoUrl
    /\ device' = [device EXCEPT ![d].online = online, ![d].url = u]
    /\ UNCHANGED <<plan, sockets>>

DeleteDevice(p, d) ==
    /\ Enrolled(d) /\ device[d].owner \in DvVisible[p]
    /\ device' = [device EXCEPT ![d] = NoDevice]
    /\ UNCHANGED <<plan, sockets>>

SetLoginsOnline(o, online) == [d \in Hids |->
    IF d \notin Of(o, Logins) THEN device[d]
    ELSE [device[d] EXCEPT !.online = online, !.fresh = @ \/ online]]

\* The first WebSocket of an owner marks every session of the owner online.
Connect(o) ==
    /\ sockets[o] < MaxSockets
    /\ sockets' = [sockets EXCEPT ![o] = @ + 1]
    /\ device' = IF sockets[o] = 0 THEN SetLoginsOnline(o, TRUE) ELSE device
    /\ UNCHANGED plan

Disconnect(o) ==
    /\ sockets[o] > 0
    /\ sockets' = [sockets EXCEPT ![o] = @ - 1]
    /\ device' = IF sockets[o] = 1 THEN SetLoginsOnline(o, FALSE) ELSE device
    /\ UNCHANGED plan

\* A broadcast takes a dead socket out; nobody publishes that the owner is gone.
DropSocket(o) ==
    /\ sockets[o] > 0
    /\ sockets' = [sockets EXCEPT ![o] = @ - 1]
    /\ UNCHANGED <<device, plan>>

\* DEVICE_PRESENCE_TIMEOUT_SECONDS pass without a sign of a session.
Age(d) ==
    /\ d \in Logins /\ Enrolled(d)
    /\ device' = [device EXCEPT ![d].fresh = FALSE]
    /\ UNCHANGED <<plan, sockets>>

\* Another account type: Regrade of Zones.
ChangePlan(o, n) ==
    /\ plan' = [plan EXCEPT ![o] = n]
    /\ UNCHANGED <<device, sockets>>

-----------------------------------------------------------------------------
DvNext ==
    \E o \in DvOwners :
        \/ \E d \in Hids, online \in BOOLEAN :
            \/ EnrolLogin(o, d, online)
            \/ \E fresh \in BOOLEAN : EnrolAgain(o, d, online, fresh) \/ SwitchAccount(o, d, online, fresh)
            \/ \E u \in Urls \cup {NoUrl} :
                EnrolHub(o, d, u, online) \/ EnrolHubAgain(o, d, u, online) \/ UpdateDevice(o, d, online, u)
        \/ \E d \in Hids : Heartbeat(o, d) \/ DeleteDevice(o, d)
        \/ \E d \in Logins : ClaimSession(o, d) \/ Age(d)
        \/ ListDevices(o)
        \/ Connect(o) \/ Disconnect(o) \/ DropSocket(o)
        \/ \E n \in 0..MaxPlan : ChangePlan(o, n)

DvSpec == DvInit /\ [][DvNext]_dvVars

-----------------------------------------------------------------------------
(* Properties *)

ListsOrClaims == \E o \in DvOwners : ListDevices(o) \/ \E keep \in Logins : ClaimSession(o, keep)
SignedOff(d) == \E p \in DvOwners :
    UpdateDevice(p, d, FALSE, NoUrl) \/ \E fresh \in BOOLEAN : EnrolAgain(p, d, FALSE, fresh)
LastSocketGone(o) == sockets[o] = 1 /\ sockets'[o] = 0
GoesOffline(d) == PresenceIsActive(d) /\ Enrolled(d)' /\ ~device'[d].online

\* A live session goes offline only when its owner's last socket closes or its own row
\* is updated: nobody else who comes takes it down, and no listing or claim does, even
\* where it is the only session (expire_stale_login_sessions, sync_owner_presence).
LiveSessionsKeep ==
    [][\A d \in Logins : GoesOffline(d) =>
           ~ListsOrClaims /\ (LastSocketGone(device[d].owner) \/ SignedOff(d))]_dvVars
=============================================================================
