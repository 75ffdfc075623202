-------------------------- MODULE UniversalAccess --------------------------
(***************************************************************************)
(* Universal access: keys that open the hubs of another network             *)
(* (universal_access_service.py, routers/universal_access.py).              *)
(*                                                                         *)
(* Routes declared "async def" run to their commit on the event loop.       *)
(* Documents are edited and requests removed by "def" routes, which run on  *)
(* threads of a pool: what such a route checked may have changed when it    *)
(* writes.  A row stands for the zones it names, which never change.        *)
(***************************************************************************)
EXTENDS Naturals, FiniteSets, FiniteSetsExt

CONSTANTS
    UaPeople,       \* owners by id, the system administrator apart
    UaNetwork,      \* person -> network ID
    UaRequests,     \* ids of universal_access_requests, used once each
    UaHubs,         \* hubs with a webhook linked to a request's zones
    MaxDocs,        \* bound: edits of a request's documents
    NoOne,          \* no row, no job
    Removed         \* a deleted row

ASSUME UaConstantsOK ==
    /\ UaPeople \subseteq Nat /\ UaHubs \in Nat /\ MaxDocs \in Nat
    /\ NoOne # Removed

VARIABLES
    request,        \* universal_access_requests
    key,            \* universal_access_credentials, by request_id
    activated,      \* universal_access_activations: request -> owners
    uaAdmins,       \* the people with the administrator role
    job,            \* person -> the route it has running on a thread
    sending,        \* person -> the hubs POST /keys/send has still to call
    told,           \* request -> receivers of the PERMISSION rows about it
    agreed,         \* history: request -> who created, accepted or approved it
    judged,         \* history: request -> the documents decided upon
    opened          \* history: who opened with which key

uaVars == <<request, key, activated, uaAdmins, job, sending, told, agreed, judged, opened>>
uaRows == <<request, key, activated>>
uaHistory == <<told, agreed, judged, opened>>

UaRows == [kind : {"invite", "place"}, admin : UaPeople, member : UaPeople,
         status : {"pending", "approved", "rejected"}, docs : 0..MaxDocs]
Keys == [public : BOOLEAN, enabled : BOOLEAN]
Jobs == [op : {"edit", "remove"}, on : UaRequests]
Sends == [with : UaRequests, left : 1..UaHubs]

ASSUME UaNullsOK == NoOne \notin UaRows \cup Keys \cup Jobs \cup Sends /\ Removed \notin UaRows

Present(r) == request[r] \in UaRows
Pending(r) == Present(r) /\ request[r].status = "pending"
UaLive(r) == key[r] # NoOne /\ key[r].enabled

\* Mutant of MaySend: whoever knows the id of a private key may send it.
MaySendAny(p, r) == UaLive(r)

\* prepare_send_key
MaySend(p, r) == UaLive(r) /\ (key[r].public \/ request[r].member = p)

-----------------------------------------------------------------------------
UaTypeOK ==
    /\ request \in [UaRequests -> UaRows \cup {NoOne, Removed}]
    /\ key \in [UaRequests -> Keys \cup {NoOne}]
    /\ activated \in [UaRequests -> SUBSET UaPeople]
    /\ \A r \in UaRequests : activated[r] # {} => key[r] # NoOne
    /\ uaAdmins \subseteq UaPeople
    /\ job \in [UaPeople -> Jobs \cup {NoOne}]
    /\ sending \in [UaPeople -> Sends \cup {NoOne}]
    /\ agreed \in [UaRequests -> SUBSET UaPeople]
    /\ judged \in [UaRequests -> 0..MaxDocs]
    /\ opened \subseteq UaPeople \X UaRequests

UaInit ==
    /\ request = [r \in UaRequests |-> NoOne]
    /\ key = [r \in UaRequests |-> NoOne]
    /\ activated = [r \in UaRequests |-> {}]
    /\ uaAdmins = UaPeople
    /\ job = [p \in UaPeople |-> NoOne]
    /\ sending = [p \in UaPeople |-> NoOne]
    /\ told = [r \in UaRequests |-> {}]
    /\ agreed = [r \in UaRequests |-> {}]
    /\ judged = [r \in UaRequests |-> 0]
    /\ opened = {}

-----------------------------------------------------------------------------
(* Requests *)

\* shareable_network_zones, search_invitees: an administrator invites people of
\* another network.
Invitees(a) == {m \in UaPeople \ {a} : UaNetwork[m] # UaNetwork[a]}

\* lookup_target_network: the administrator with the lowest id.
UaFirst(n) == Min({a \in uaAdmins : UaNetwork[a] = n})

\* _record_permission_notice
Tell(r, p) == told' = [told EXCEPT ![r] = @ \cup {p}]

Create(r, kind, admin, member, status, by) ==
    /\ request[r] = NoOne
    /\ request' = [request EXCEPT ![r] = [kind |-> kind, admin |-> admin, member |-> member,
                                          status |-> status, docs |-> 0]]
    /\ agreed' = [agreed EXCEPT ![r] = {by}]
    /\ UNCHANGED <<activated, uaAdmins, job, sending, judged, opened>>

\* A public key is live at once; the administrator is its member too.
GeneratePublicKey(a, r) ==
    /\ a \in uaAdmins
    /\ Create(r, "invite", a, a, "approved", a)
    /\ UNCHANGED told
    /\ key' = [key EXCEPT ![r] = [public |-> TRUE, enabled |-> TRUE]]

\* A private key waits for the invitee, somebody of another network.
InvitePerson(a, m, r) ==
    /\ a \in uaAdmins /\ m \in Invitees(a)
    /\ Create(r, "invite", a, m, "pending", a)
    /\ Tell(r, m)
    /\ UNCHANGED key

\* Anybody may ask the first administrator of a network.
AskForPlace(m, a, r) ==
    /\ a \in uaAdmins /\ a = UaFirst(UaNetwork[a]) /\ m # a
    /\ Create(r, "place", a, m, "pending", m)
    /\ Tell(r, a)
    /\ UNCHANGED key

\* Who decides: the invitee of an invite, else the network administrator.
MayDecide(p, r) ==
    IF request[r].kind = "invite" THEN request[r].member = p
    ELSE request[r].admin = p /\ p \in uaAdmins

Decide(p, r, status) ==
    /\ Pending(r) /\ MayDecide(p, r)
    /\ request' = [request EXCEPT ![r].status = status]
    /\ judged' = [judged EXCEPT ![r] = request[r].docs]
    /\ Tell(r, IF request[r].member = p THEN request[r].admin ELSE request[r].member)
    /\ UNCHANGED <<activated, uaAdmins, job, sending, opened>>

UaApprove(p, r) ==
    /\ Decide(p, r, "approved")
    /\ key' = [key EXCEPT ![r] = [public |-> FALSE, enabled |-> TRUE]]
    /\ agreed' = [agreed EXCEPT ![r] = @ \cup {p}]

UaReject(p, r) ==
    /\ Decide(p, r, "rejected")
    /\ UNCHANGED <<key, agreed>>

-----------------------------------------------------------------------------
(* Routes on threads *)

Begin(p, op, r) ==
    /\ job[p] = NoOne
    /\ job' = [job EXCEPT ![p] = [op |-> op, on |-> r]]
    /\ UNCHANGED <<uaRows, uaAdmins, sending, uaHistory>>

BeginEdit(p, r) ==
    /\ Pending(r) /\ request[r].kind = "place" /\ request[r].member = p
    /\ request[r].docs < MaxDocs
    /\ Begin(p, "edit", r)

\* The row may be gone by now: the UPDATE matches nothing and the route fails.
Edit(p) ==
    /\ job[p] # NoOne /\ job[p].op = "edit"
    /\ job' = [job EXCEPT ![p] = NoOne]
    /\ request' = [r \in UaRequests |-> IF r = job[p].on /\ Present(r) /\ request[r].docs < MaxDocs
                                        THEN [request[r] EXCEPT !.docs = @ + 1] ELSE request[r]]
    /\ UNCHANGED <<key, activated, uaAdmins, sending, uaHistory>>

\* The network administrator, still one or not, or a requester who gives up.
BeginRemove(p, r) ==
    /\ Present(r)
    /\ \/ request[r].admin = p
       \/ request[r].kind = "place" /\ request[r].member = p /\ Pending(r)
    /\ Begin(p, "remove", r)

\* Mutant of RemoveRequest: the key outlives its request.
RemoveRequestOnly(p) ==
    /\ job[p] # NoOne /\ job[p].op = "remove"
    /\ job' = [job EXCEPT ![p] = NoOne]
    /\ request' = [request EXCEPT ![job[p].on] = Removed]
    /\ UNCHANGED <<key, activated, uaAdmins, sending, uaHistory>>

\* A key made since the check goes with its request: ON DELETE CASCADE.
RemoveRequest(p) ==
    /\ job[p] # NoOne /\ job[p].op = "remove"
    /\ job' = [job EXCEPT ![p] = NoOne]
    /\ request' = [request EXCEPT ![job[p].on] = Removed]
    /\ key' = [key EXCEPT ![job[p].on] = NoOne]
    /\ activated' = [activated EXCEPT ![job[p].on] = {}]
    /\ UNCHANGED <<uaAdmins, sending, uaHistory>>

-----------------------------------------------------------------------------
(* Keys *)

SetEnabled(p, r, on) ==
    /\ key[r] # NoOne /\ request[r].admin = p /\ p \in uaAdmins
    /\ key' = [key EXCEPT ![r].enabled = on]
    /\ UNCHANGED <<request, activated, uaAdmins, job, sending, uaHistory>>

\* The legacy selection of a key: a private one by its member, a public one by anybody.
Select(p, r) ==
    /\ MaySend(p, r)
    /\ activated' = [activated EXCEPT ![r] = @ \cup {p}]
    /\ UNCHANGED <<request, key, uaAdmins, job, sending, uaHistory>>

\* A private key that is turned off cannot be put away, a public one can.
Deselect(p, r) ==
    /\ p \in activated[r]
    /\ key[r].public \/ key[r].enabled
    /\ activated' = [activated EXCEPT ![r] = @ \ {p}]
    /\ UNCHANGED <<request, key, uaAdmins, job, sending, uaHistory>>

\* POST /keys/send checks the key, then calls one hub after the other.
Send(p, r) ==
    /\ sending[p] = NoOne /\ UaHubs > 0
    /\ MaySend(p, r)
    /\ sending' = [sending EXCEPT ![p] = [with |-> r, left |-> UaHubs]]
    /\ UNCHANGED <<uaRows, uaAdmins, job, uaHistory>>

\* A hub that does not answer is skipped; the answer says "sent" either way.
CallHub(p, answers) ==
    /\ sending[p] # NoOne
    /\ sending' = [sending EXCEPT ![p] = IF sending[p].left = 1 THEN NoOne
                                          ELSE [sending[p] EXCEPT !.left = @ - 1]]
    /\ opened' = IF answers THEN opened \cup {<<p, sending[p].with>>} ELSE opened
    /\ UNCHANGED <<uaRows, uaAdmins, job, told, agreed, judged>>

\* The system administrator changes a role: Regrade of Zones.
ChangeRole(p) ==
    /\ uaAdmins' = IF p \in uaAdmins THEN uaAdmins \ {p} ELSE uaAdmins \cup {p}
    /\ UNCHANGED <<uaRows, job, sending, uaHistory>>

-----------------------------------------------------------------------------
(* Lists *)

\* list_requests, get_request
Mine(p) == {r \in UaRequests : Present(r) /\ p \in {request[r].admin, request[r].member}}

\* Mutant of Offered: an invite is offered to the administrator who sent it.
OfferedToAdmin(p, r) == IF p = request[r].admin /\ Pending(r) THEN {"approve", "reject"} ELSE {}

\* _viewer_actions; the role of the administrator is not looked at again.
Offered(p, r) ==
    LET place == request[r].kind = "place"
        decides == p = (IF place THEN request[r].admin ELSE request[r].member)
        asks == place /\ p = request[r].member /\ Pending(r)
    IN  (IF decides /\ Pending(r) THEN {"approve", "reject"} ELSE {})
            \cup (IF asks THEN {"edit"} ELSE {})
            \cup (IF asks \/ p = request[r].admin THEN {"remove"} ELSE {})

PrivateKeys(p) == {r \in UaRequests : UaLive(r) /\ ~key[r].public /\ request[r].member = p}
PublicKeys == {r \in UaRequests : UaLive(r) /\ key[r].public}
ActivatedKeys(p) == {r \in PublicKeys : p \in activated[r]}

-----------------------------------------------------------------------------
UaNext ==
    \E p \in UaPeople :
        \/ \E r \in UaRequests :
            \/ GeneratePublicKey(p, r)
            \/ \E m \in UaPeople : InvitePerson(p, m, r) \/ AskForPlace(m, p, r)
            \/ UaApprove(p, r) \/ UaReject(p, r)
            \/ BeginEdit(p, r) \/ BeginRemove(p, r)
            \/ \E on \in BOOLEAN : SetEnabled(p, r, on)
            \/ Select(p, r) \/ Deselect(p, r) \/ Send(p, r)
        \/ Edit(p) \/ RemoveRequest(p)
        \/ \E answers \in BOOLEAN : CallHub(p, answers)
        \/ ChangeRole(p)

UaSpec == UaInit /\ [][UaNext]_uaVars

-----------------------------------------------------------------------------
(* Properties *)

\* A request has a key exactly while it is approved, whatever removals, decisions and
\* edits overlap.
KeyFollowsDecision ==
    \A r \in UaRequests : key[r] # NoOne <=> Present(r) /\ request[r].status = "approved"

\* Whoever opened a hub did so with both sides' consent: the network administrator
\* issued the key or approved the request, and a private key's holder asked or accepted.
OpeningWasAgreed ==
    \A p \in UaPeople, r \in UaRequests : <<p, r>> \in opened /\ Present(r) =>
        /\ request[r].admin \in agreed[r]
        /\ request[r].member \in agreed[r]
        /\ request[r].member = p \/ request[r].member = request[r].admin

\* Nothing a person may do is hidden from that person: whoever may decide a request
\* was told of it and is offered both answers, and a key that may be sent is listed.
NothingHidden ==
    \A p \in UaPeople, r \in UaRequests :
        /\ Pending(r) /\ MayDecide(p, r) =>
               p \in told[r] /\ r \in Mine(p) /\ {"approve", "reject"} \subseteq Offered(p, r)
        /\ MaySend(p, r) => r \in PrivateKeys(p) \cup PublicKeys
        /\ r \in ActivatedKeys(p) => MaySend(p, r)
=============================================================================
